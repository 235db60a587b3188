-------------------------- MODULE ConsoleSession_proof --------------------------
(***************************************************************************)
(* What ConsoleSession promises for every set of names, ids, ports,        *)
(* terminals and tunnels.  The argument is about the lock: whoever is in a *)
(* locked section is the one that holds it (LockHeld), so what an invite   *)
(* or a hello read at the start of its section is still true at the end.   *)
(***************************************************************************)
EXTENDS ConsoleSession, FiniteSetTheorems, TLAPS

(* What a process between two steps has in hand.                           *)
HasRecord == {"minted", "lined", "asked", "reached", "t_pin", "t_config", "t_save", "t_kill", "t_keys",
              "t_verify", "clean", "residue"}
CmdHolds ==
  /\ \A c \in Terminals : cmd[c].pc \in HasRecord => cmd[c].name \in Names /\ cmd[c].h \in HostRec

HelloHolds ==
  \A p \in Hellos :
    /\ hello[p].pc \notin Quiet => hello[p].id \in Ids /\ hello[p].port \in Ports
    /\ p \in bound => hello[p].port \in Ports
    /\ hello[p].pc \notin Quiet \cup {"connected"} => hello[p].name \in Names

(* state.locked() is mutual exclusion.                                     *)
LockHeld ==
  /\ \A c \in Terminals : cmd[c].pc \in InLockPc => lock = c
  /\ \A p \in Hellos : hello[p].pc \in HelloLockPc => lock = p

(* The invite being written still has a port of its own.                   *)
Minting ==
  \A c \in Terminals : cmd[c].pc \in {"minted", "lined"} =>
    /\ cmd[c].h.status = "invited" /\ cmd[c].h.pid = None
    /\ \A n \in DOMAIN hosts : hosts[n].status # "gone" => hosts[n].port # cmd[c].h.port

TypeInv == TypeOK /\ CmdHolds /\ HelloHolds
IInv == TypeInv /\ LockHeld /\ Minting /\ PortsDistinct /\ OnlineHasPid

-----------------------------------------------------------------------------
(* Records, and the functions hosts.json may become.                       *)
LEMMA MarkType ==
  ASSUME NEW h \in HostRec, NEW s \in Status, NEW q \in Hellos \cup {None}
  PROVE  /\ Mark(h, s, q) \in HostRec
         /\ Mark(h, s, q).status = s /\ Mark(h, s, q).pid = q
         /\ Mark(h, s, q).port = h.port /\ Mark(h, s, q).id = h.id
BY DEF Mark, HostRec

LEMMA PutType ==
  ASSUME HostMap(hosts), NEW n \in Names, NEW rec \in HostRec
  PROVE  /\ HostMap(Put(n, rec))
         /\ DOMAIN Put(n, rec) = DOMAIN hosts \cup {n}
         /\ Put(n, rec)[n] = rec
         /\ \A m \in DOMAIN hosts \ {n} : Put(n, rec)[m] = hosts[m]
BY DEF HostMap, Put

(* One record's status and hello_pid change, and nothing else.             *)
LEMMA MarkOne ==
  ASSUME HostMap(hosts), NEW n \in DOMAIN hosts, NEW s \in Status, NEW q \in Hellos \cup {None},
         hosts' = Put(n, Mark(hosts[n], s, q))
  PROVE  /\ HostMap(hosts') /\ DOMAIN hosts' = DOMAIN hosts
         /\ hosts'[n].status = s /\ hosts'[n].pid = q
         /\ hosts'[n].port = hosts[n].port /\ hosts'[n].id = hosts[n].id
         /\ \A m \in DOMAIN hosts \ {n} : hosts'[m] = hosts[m]
<1> DEFINE rec == Mark(hosts[n], s, q)
<1>1. n \in Names /\ hosts[n] \in HostRec
  BY DEF HostMap
<1>2. /\ rec \in HostRec /\ rec.status = s /\ rec.pid = q
      /\ rec.port = hosts[n].port /\ rec.id = hosts[n].id
  BY <1>1, MarkType
<1>3. /\ HostMap(Put(n, rec))
      /\ DOMAIN Put(n, rec) = DOMAIN hosts \cup {n}
      /\ Put(n, rec)[n] = rec
      /\ \A m \in DOMAIN hosts \ {n} : Put(n, rec)[m] = hosts[m]
  BY <1>1, <1>2, PutType
<1>4. hosts' = Put(n, rec)
  OBVIOUS
<1> HIDE DEF rec
<1> QED BY <1>2, <1>3, <1>4

LEMMA WithoutType ==
  ASSUME HostMap(hosts), NEW gone
  PROVE  /\ HostMap(Without(gone))
         /\ DOMAIN Without(gone) \subseteq DOMAIN hosts
         /\ \A m \in DOMAIN Without(gone) : Without(gone)[m] = hosts[m]
BY DEF HostMap, Without

LEMMA MarkGoneType ==
  ASSUME HostMap(hosts), NEW n \in Names
  PROVE  /\ HostMap(MarkGone(n))
         /\ DOMAIN MarkGone(n) = DOMAIN hosts
         /\ \A m \in DOMAIN hosts :
              MarkGone(n)[m] = IF m = n THEN Mark(hosts[m], "gone", None) ELSE hosts[m]
<1>1. CASE n \notin DOMAIN hosts
  BY <1>1 DEF MarkGone
<1>2. CASE n \in DOMAIN hosts
  <2>1. hosts[n] \in HostRec
    BY <1>2 DEF HostMap
  <2>2. Mark(hosts[n], "gone", None) \in HostRec
    BY <2>1, MarkType DEF Status
  <2> DEFINE rec == Mark(hosts[n], "gone", None)
  <2>3. /\ HostMap(Put(n, rec))
        /\ DOMAIN Put(n, rec) = DOMAIN hosts \cup {n}
        /\ Put(n, rec)[n] = rec
        /\ \A m \in DOMAIN hosts \ {n} : Put(n, rec)[m] = hosts[m]
    BY <2>2, PutType
  <2>4. MarkGone(n) = Put(n, rec)
    BY <1>2 DEF MarkGone
  <2> HIDE DEF rec
  <2>5. \A m \in DOMAIN hosts : MarkGone(n)[m] = IF m = n THEN rec ELSE hosts[m]
    BY <2>3, <2>4
  <2> QED BY <1>2, <2>3, <2>4, <2>5 DEF rec
<1> QED BY <1>1, <1>2

LEMMA AllGoneType ==
  ASSUME HostMap(hosts)
  PROVE  /\ HostMap(AllGone)
         /\ DOMAIN AllGone = DOMAIN hosts
         /\ \A m \in DOMAIN hosts :
              AllGone[m] = IF hosts[m].status = "gone" THEN hosts[m]
                           ELSE Mark(hosts[m], "gone", None)
         /\ \A m \in DOMAIN hosts : AllGone[m].status = "gone"
<1>1. \A m \in DOMAIN hosts : hosts[m] \in HostRec /\ Mark(hosts[m], "gone", None) \in HostRec
                              /\ Mark(hosts[m], "gone", None).status = "gone"
  BY MarkType DEF HostMap, Status
<1> QED BY <1>1 DEF HostMap, AllGone

LEMMA BlocksType ==
  ASSUME NEW hs, HostMap(hs)
  PROVE  Blocks(hs) \subseteq [name: Names, port: Ports]
BY DEF HostMap, Blocks, HostRec

(* A process moves on, or comes to rest.                                   *)
LEMMA GotoType ==
  ASSUME cmd \in [Terminals -> CmdRec], NEW c \in Terminals, NEW pc \in CmdPc, Goto(c, pc)
  PROVE  /\ cmd' \in [Terminals -> CmdRec]
         /\ cmd'[c].pc = pc /\ cmd'[c].name = cmd[c].name /\ cmd'[c].h = cmd[c].h
         /\ cmd'[c].todo = cmd[c].todo
         /\ \A d \in Terminals \ {c} : cmd'[d] = cmd[d]
BY DEF Goto, CmdRec

LEMMA TargetType ==
  ASSUME cmd \in [Terminals -> CmdRec], NEW c \in Terminals, TeardownTarget(c)
  PROVE  /\ cmd' \in [Terminals -> CmdRec]
         /\ cmd[c].pc = "asked" /\ cmd'[c].pc = "reached"
         /\ cmd'[c].name = cmd[c].name /\ cmd'[c].h = cmd[c].h /\ cmd'[c].todo = cmd[c].todo
         /\ \A d \in Terminals \ {c} : cmd'[d] = cmd[d]
<1>1. PICK left \in BOOLEAN : cmd' = [cmd EXCEPT ![c].pc = "reached", ![c].left = left]
  BY DEF TeardownTarget
<1> QED BY <1>1 DEF TeardownTarget, CmdRec, CmdPc

LEMMA FinishType ==
  ASSUME cmd \in [Terminals -> CmdRec], NEW c \in Terminals, Finish(c)
  PROVE  /\ cmd' \in [Terminals -> CmdRec]
         /\ cmd'[c] = Idle /\ cmd'[c].pc = "idle"
         /\ \A d \in Terminals \ {c} : cmd'[d] = cmd[d]
BY DEF Finish, CmdRec, Idle, CmdPc

LEMMA HelloGotoType ==
  ASSUME hello \in [Hellos -> HelloRec], NEW p \in Hellos, NEW pc \in HelloPc, HelloGoto(p, pc)
  PROVE  /\ hello' \in [Hellos -> HelloRec]
         /\ hello'[p].pc = pc /\ hello'[p].id = hello[p].id
         /\ hello'[p].port = hello[p].port /\ hello'[p].name = hello[p].name
         /\ \A q \in Hellos \ {p} : hello'[q] = hello[q]
BY DEF HelloGoto, HelloRec

LEMMA EndsType ==
  ASSUME hello \in [Hellos -> HelloRec], NEW p \in Hellos, Ends(p)
  PROVE  /\ hello' \in [Hellos -> HelloRec]
         /\ hello'[p].pc = "dead"
         /\ \A q \in Hellos \ {p} : hello'[q] = hello[q]
         /\ bound' = bound \ {p} /\ signalled' = signalled \ {p}
BY DEF Ends, HelloRec, Process, HelloPc

-----------------------------------------------------------------------------
(* The initial state satisfies the inductive invariant.                    *)
LEMMA InitIInv == Init => IInv
<1> SUFFICES ASSUME Init PROVE IInv
  OBVIOUS
<1> USE DEF Init
<1>1. TypeOK
  <2>1. HostMap(hosts)
    BY DEF HostMap
  <2>2. cmd \in [Terminals -> CmdRec]
    BY DEF CmdRec, Idle, CmdPc
  <2>3. hello \in [Hellos -> HelloRec]
    BY DEF HelloRec, Process, HelloPc
  <2> QED BY <2>1, <2>2, <2>3 DEF TypeOK
<1>2. CmdHolds /\ HelloHolds
  BY DEF CmdHolds, HasRecord, Idle, HelloHolds, Process, Quiet
<1>3. LockHeld /\ Minting
  BY DEF LockHeld, Minting, Idle, Process, InLockPc, HelloLockPc
<1>4. PortsDistinct /\ OnlineHasPid
  BY DEF PortsDistinct, OnlineHasPid
<1> QED BY <1>1, <1>2, <1>3, <1>4 DEF IInv, TypeInv

(* A step of one command, of one hello, leaves what the others hold.       *)
LEMMA CmdFrame ==
  ASSUME CmdHolds, NEW c \in Terminals, \A d \in Terminals \ {c} : cmd'[d] = cmd[d],
         cmd'[c].pc \in HasRecord => cmd'[c].name \in Names /\ cmd'[c].h \in HostRec
  PROVE  CmdHolds'
BY DEF CmdHolds

LEMMA CmdSame == CmdHolds /\ UNCHANGED cmd => CmdHolds'
BY DEF CmdHolds

LEMMA HelloSame == HelloHolds /\ UNCHANGED tunnels => HelloHolds'
BY DEF HelloHolds, tunnels

LEMMA HelloFrame ==
  ASSUME HelloHolds, NEW p \in Hellos, \A q \in Hellos \ {p} : hello'[q] = hello[q],
         bound' \subseteq bound \cup {p},
         hello'[p].pc \notin Quiet => hello'[p].id \in Ids /\ hello'[p].port \in Ports,
         p \in bound' => hello'[p].port \in Ports,
         hello'[p].pc \notin Quiet \cup {"connected"} => hello'[p].name \in Names
  PROVE  HelloHolds'
BY DEF HelloHolds

(* Every step keeps the types, and what a process holds.                   *)
LEMMA InviteTypeInv ==
  ASSUME TypeInv, NEW c \in Terminals, Invite(c)
  PROVE  TypeInv'
<1> USE DEF TypeInv, TypeOK
<1>1. CASE InviteCheck(c)
  <2>1. cmd' \in [Terminals -> CmdRec] /\ cmd'[c].pc = "invite"
        /\ \A d \in Terminals \ {c} : cmd'[d] = cmd[d]
    BY <1>1 DEF InviteCheck, CmdRec, Idle, CmdPc
  <2> QED BY <1>1, <2>1, CmdFrame, HelloSame DEF InviteCheck, HasRecord, files, history, tunnels
<1>2. CASE InviteRefused(c)
  BY <1>2, FinishType, CmdFrame, HelloSame DEF InviteRefused, HasRecord, files, history, tunnels
<1>3. ASSUME NEW n \in Names, NEW id \in Ids, InviteMint(c, n, id) PROVE TypeInv'
  <2>1. PICK port \in FreePorts : cmd' = [cmd EXCEPT ![c] =
            [pc |-> "minted", name |-> n, todo |-> {}, left |-> FALSE,
             h |-> [id |-> id, status |-> "invited", port |-> port, pid |-> None]]]
    BY <1>3 DEF InviteMint
  <2>2. [id |-> id, status |-> "invited", port |-> port, pid |-> None] \in HostRec
    BY <2>1 DEF HostRec, Status, FreePorts
  <2> DEFINE rec == [id |-> id, status |-> "invited", port |-> port, pid |-> None]
  <2> HIDE DEF rec
  <2>3. /\ cmd' \in [Terminals -> CmdRec]
        /\ cmd'[c].name = n /\ cmd'[c].h = rec
        /\ \A d \in Terminals \ {c} : cmd'[d] = cmd[d]
    BY <2>1, <2>2 DEF CmdRec, CmdPc, rec
  <2>4. CmdHolds'
    BY <2>2, <2>3, CmdFrame DEF rec
  <2> QED BY <1>3, <2>3, <2>4, HelloSame DEF InviteMint, Acquire, tunnels
<1>4. CASE InviteAddLine(c)
  <2>1. cmd[c].h \in HostRec /\ cmd[c].name \in Names
    BY <1>4 DEF InviteAddLine, CmdHolds, HasRecord
  <2>2. cmd' \in [Terminals -> CmdRec] /\ CmdHolds'
    BY <1>4, <2>1, GotoType, CmdFrame DEF InviteAddLine, CmdPc
  <2>3. relayLines' \subseteq [id: Ids, port: Ports]
    BY <1>4, <2>1 DEF InviteAddLine, RemoveLine, HostRec
  <2> QED BY <1>4, <2>2, <2>3, HelloSame DEF InviteAddLine, history, tunnels
<1>5. CASE InviteNoFunnel(c)
  BY <1>5, FinishType, CmdFrame, HelloSame
     DEF InviteNoFunnel, RemoveLine, Release, HasRecord, history, tunnels
<1>6. CASE InviteSave(c)
  <2>1. cmd[c].h \in HostRec /\ cmd[c].name \in Names
    BY <1>6 DEF InviteSave, CmdHolds, HasRecord
  <2>2. HostMap(hosts')
    BY <1>6, <2>1, PutType DEF InviteSave
  <2> QED BY <1>6, <2>2, FinishType, CmdFrame, HelloSame
          DEF InviteSave, Release, HasRecord, history, tunnels
<1> QED BY <1>1, <1>2, <1>3, <1>4, <1>5, <1>6 DEF Invite

LEMMA TeardownTypeInv ==
  ASSUME TypeInv, NEW c \in Terminals, Teardown(c)
  PROVE  TypeInv'
<1> USE NoneAssumption DEF TypeInv, TypeOK
<1> DEFINE Held == cmd[c].h \in HostRec /\ cmd[c].name \in Names
<1>1. ASSUME NEW n \in Names, TeardownAsk(c, n) PROVE TypeInv'
  <2>1. hosts[n] \in HostRec
    BY <1>1 DEF TeardownAsk, HostMap
  <2>2. /\ cmd' \in [Terminals -> CmdRec] /\ cmd'[c].h = hosts[n] /\ cmd'[c].name = n
        /\ \A d \in Terminals \ {c} : cmd'[d] = cmd[d]
    BY <1>1, <2>1 DEF TeardownAsk, CmdRec, CmdPc
  <2> QED BY <1>1, <2>1, <2>2, CmdFrame, HelloSame DEF TeardownAsk, files, history, tunnels
<1>2. CASE TeardownLine(c)
  <2>1. Held
    BY <1>2 DEF TeardownLine, CmdHolds, HasRecord
  <2> QED BY <1>2, <2>1, GotoType, CmdFrame, HelloSame
          DEF TeardownLine, Acquire, RemoveLine, CmdPc, history, tunnels
<1>3. CASE TeardownPin(c)
  <2>1. Held
    BY <1>3 DEF TeardownPin, CmdHolds, HasRecord
  <2>2. knownHosts' \in [Ports -> Names \cup {None}]
    BY <1>3 DEF TeardownPin
  <2> QED BY <1>3, <2>1, <2>2, GotoType, CmdFrame, HelloSame
          DEF TeardownPin, CmdPc, history, tunnels
<1>4. CASE TeardownConfig(c)
  <2>1. Held
    BY <1>4 DEF TeardownConfig, CmdHolds, HasRecord
  <2>2. sshConfig' \subseteq [name: Names, port: Ports]
    BY <1>4, <2>1, MarkGoneType, BlocksType DEF TeardownConfig
  <2>3. cmd' \in [Terminals -> CmdRec] /\ CmdHolds'
    BY <1>4, <2>1, GotoType, CmdFrame DEF TeardownConfig, CmdPc
  <2> QED BY <1>4, <2>2, <2>3, HelloSame DEF TeardownConfig, history, tunnels
<1>5. CASE TeardownSave(c)
  <2>1. Held
    BY <1>5 DEF TeardownSave, CmdHolds, HasRecord
  <2>2. HostMap(hosts')
    BY <1>5, <2>1, MarkGoneType DEF TeardownSave
  <2>3. cmd' \in [Terminals -> CmdRec] /\ CmdHolds'
    BY <1>5, <2>1, GotoType, CmdFrame DEF TeardownSave, CmdPc
  <2>4. Overtaken(c) \subseteq Ids
    BY DEF Overtaken, HostMap, HostRec
  <2> QED BY <1>5, <2>2, <2>3, <2>4, HelloSame DEF TeardownSave, Release, tunnels
<1>6. CASE TeardownKill(c)
  <2>1. Held
    BY <1>6 DEF TeardownKill, CmdHolds, HasRecord
  <2>2. cmd' \in [Terminals -> CmdRec] /\ CmdHolds'
    BY <1>6, <2>1, GotoType, CmdFrame DEF TeardownKill, CmdPc
  <2>3. signalled' \subseteq Hellos
    BY <1>6, <2>1 DEF TeardownKill, Kill, Alive, HostRec
  <2>4. HelloHolds'
    BY <1>6 DEF TeardownKill, Kill, HelloHolds
  <2> QED BY <1>6, <2>2, <2>3, <2>4 DEF TeardownKill, Kill, files, history
<1>7. CASE TeardownKeys(c)
  <2>1. Held
    BY <1>7 DEF TeardownKeys, CmdHolds, HasRecord
  <2> QED BY <1>7, <2>1, GotoType, CmdFrame, HelloSame
          DEF TeardownKeys, CmdPc, history, tunnels
<1>8. CASE TeardownVerify(c)
  <2>1. Held
    BY <1>8 DEF TeardownVerify, CmdHolds, HasRecord
  <2>2. PICK pc \in {"clean", "residue"} : Goto(c, pc)
    BY <1>8 DEF TeardownVerify
  <2>3. cmd' \in [Terminals -> CmdRec] /\ CmdHolds'
    BY <2>1, <2>2, GotoType, CmdFrame DEF CmdPc
  <2> QED BY <1>8, <2>3, HelloSame DEF TeardownVerify, files, history, tunnels
<1>9. CASE TeardownTarget(c)
  <2>1. Held
    BY <1>9 DEF TeardownTarget, CmdHolds, HasRecord
  <2> QED BY <1>9, <2>1, TargetType, CmdFrame, HelloSame DEF TeardownTarget, files, history, tunnels
<1> QED BY <1>1, <1>2, <1>3, <1>4, <1>5, <1>6, <1>7, <1>8, <1>9 DEF Teardown

LEMMA ForgetTypeInv ==
  ASSUME TypeInv, NEW c \in Terminals, Forget(c)
  PROVE  TypeInv'
<1> USE DEF TypeInv, TypeOK
<1>1. CASE ForgetLock(c)
  <2>1. PICK targets \in ForgetTargets :
          cmd' = [cmd EXCEPT ![c] = [Idle EXCEPT !.pc = "f_lines", !.todo = targets]]
    BY <1>1 DEF ForgetLock
  <2>2. targets \subseteq Names
    BY DEF ForgetTargets, NotLive, Gone, HostMap
  <2>3. /\ cmd' \in [Terminals -> CmdRec] /\ cmd'[c].pc = "f_lines"
        /\ \A d \in Terminals \ {c} : cmd'[d] = cmd[d]
    BY <2>1, <2>2 DEF CmdRec, CmdPc, Idle
  <2> QED BY <1>1, <2>3, CmdFrame, HelloSame
          DEF ForgetLock, Acquire, HasRecord, files, history, tunnels
<1>2. ASSUME NEW n \in Names, ForgetLine(c, n) PROVE TypeInv'
  BY <1>2, CmdSame, HelloSame DEF ForgetLine, RemoveLine, history, tunnels
<1>3. CASE ForgetConfig(c)
  <2>1. sshConfig' \subseteq [name: Names, port: Ports]
    BY <1>3, WithoutType, BlocksType DEF ForgetConfig
  <2>2. cmd' \in [Terminals -> CmdRec] /\ CmdHolds'
    BY <1>3, GotoType, CmdFrame DEF ForgetConfig, CmdPc, HasRecord
  <2> QED BY <1>3, <2>1, <2>2, HelloSame DEF ForgetConfig, history, tunnels
<1>4. CASE ForgetSave(c)
  <2>1. HostMap(hosts')
    BY <1>4, WithoutType DEF ForgetSave
  <2> QED BY <1>4, <2>1, FinishType, CmdFrame, HelloSame
          DEF ForgetSave, Release, HasRecord, tunnels
<1> QED BY <1>1, <1>2, <1>3, <1>4 DEF Forget

LEMMA RevokeTypeInv ==
  ASSUME TypeInv, NEW c \in Terminals, Revoke(c)
  PROVE  TypeInv'
<1> USE NoneAssumption DEF TypeInv, TypeOK
<1>1. CASE RevokeLock(c)
  <2>1. OpenInvites \subseteq Ids
    BY DEF OpenInvites
  <2>2. /\ cmd' \in [Terminals -> CmdRec] /\ cmd'[c].pc = "r_lines"
        /\ \A d \in Terminals \ {c} : cmd'[d] = cmd[d]
    BY <1>1, <2>1 DEF RevokeLock, CmdRec, CmdPc, Idle
  <2> QED BY <1>1, <2>2, CmdFrame, HelloSame
          DEF RevokeLock, Acquire, HasRecord, files, history, tunnels
<1>2. ASSUME NEW id \in Ids, RevokeLine(c, id) PROVE TypeInv'
  <2>1. /\ cmd' \in [Terminals -> CmdRec] /\ cmd'[c].pc = "r_lines"
        /\ \A d \in Terminals \ {c} : cmd'[d] = cmd[d]
    BY <1>2 DEF RevokeLine, CmdRec
  <2> QED BY <1>2, <2>1, CmdFrame, HelloSame DEF RevokeLine, RemoveLine, HasRecord, history, tunnels
<1>3. CASE RevokeKill(c)
  <2>1. cmd' \in [Terminals -> CmdRec] /\ CmdHolds'
    BY <1>3, GotoType, CmdFrame DEF RevokeKill, CmdPc, HasRecord
  <2>2. signalled' \subseteq Hellos
    BY <1>3 DEF RevokeKill, Kill, Alive, HostMap, HostRec
  <2>3. HelloHolds'
    BY <1>3 DEF RevokeKill, Kill, HelloHolds
  <2> QED BY <1>3, <2>1, <2>2, <2>3 DEF RevokeKill, Kill, files, history
<1>4. CASE RevokeConfig(c)
  <2>1. sshConfig' \subseteq [name: Names, port: Ports]
    BY <1>4, AllGoneType, BlocksType DEF RevokeConfig
  <2>2. cmd' \in [Terminals -> CmdRec] /\ CmdHolds'
    BY <1>4, GotoType, CmdFrame DEF RevokeConfig, CmdPc, HasRecord
  <2> QED BY <1>4, <2>1, <2>2, HelloSame DEF RevokeConfig, history, tunnels
<1>5. CASE RevokeSave(c)
  <2>1. HostMap(hosts')
    BY <1>5, AllGoneType DEF RevokeSave
  <2>2. /\ cmd' \in [Terminals -> CmdRec] /\ cmd'[c].pc = "revoked"
        /\ \A d \in Terminals \ {c} : cmd'[d] = cmd[d]
    BY <1>5 DEF RevokeSave, CmdRec, CmdPc, Idle
  <2> QED BY <1>5, <2>1, <2>2, CmdFrame, HelloSame DEF RevokeSave, Release, HasRecord, tunnels
<1> QED BY <1>1, <1>2, <1>3, <1>4, <1>5 DEF Revoke

LEMMA HelloTypeInv ==
  ASSUME TypeInv, NEW p \in Hellos, Hello(p)
  PROVE  TypeInv'
<1> USE NoneAssumption DEF TypeInv, TypeOK
<1> DEFINE Keyed == hello[p].id \in Ids /\ hello[p].port \in Ports
<1>1. ASSUME NEW l \in relayLines, HelloConnect(p, l) PROVE TypeInv'
  <2>1. l.id \in Ids /\ l.port \in Ports
    OBVIOUS
  <2>2. /\ hello' \in [Hellos -> HelloRec] /\ hello'[p].pc = "connected"
        /\ hello'[p].id = l.id /\ hello'[p].port = l.port
        /\ \A q \in Hellos \ {p} : hello'[q] = hello[q]
    BY <1>1, <2>1 DEF HelloConnect, HelloRec, HelloPc
  <2>3. bound' \subseteq bound \cup {p}
    BY <1>1 DEF HelloConnect
  <2>4. HelloHolds'
    BY <2>1, <2>2, <2>3, HelloFrame
  <2> QED BY <1>1, <2>2, <2>3, <2>4, CmdSame DEF HelloConnect, files, history
<1>2. CASE HelloRefused(p)
  BY <1>2, EndsType, HelloFrame, CmdSame DEF HelloRefused, Quiet, files, history
<1>3. ASSUME NEW n \in Names, HelloAccept(p, n) PROVE TypeInv'
  <2>1. hosts[n] \in HostRec /\ n \in DOMAIN hosts
    BY <1>3 DEF HelloAccept, Recorded, HostMap
  <2>2. HostMap(hosts')
    <3>1. Mark(hosts[n], "online", p) \in HostRec
      BY <2>1, MarkType DEF Status
    <3> QED BY <1>3, <3>1, PutType DEF HelloAccept
  <2>3. hello[p].pc = "connected" /\ Keyed
    BY <1>3 DEF HelloAccept, HelloHolds, Quiet
  <2>4. /\ hello' \in [Hellos -> HelloRec] /\ hello'[p].name = n
        /\ hello'[p].id = hello[p].id /\ hello'[p].port = hello[p].port
        /\ \A q \in Hellos \ {p} : hello'[q] = hello[q]
    BY <1>3 DEF HelloAccept, HelloRec, HelloPc
  <2>5. HelloHolds'
    BY <1>3, <2>3, <2>4, HelloFrame DEF HelloAccept
  <2>6. revived' \subseteq Ids
    BY <1>3, <2>1 DEF HelloAccept, HostRec
  <2> QED BY <1>3, <2>2, <2>4, <2>5, <2>6, CmdSame DEF HelloAccept, Acquire
<1>4. CASE HelloPin(p)
  <2>1. Keyed /\ hello[p].name \in Names
    BY <1>4 DEF HelloPin, HelloHolds, Quiet
  <2>2. hello' \in [Hellos -> HelloRec] /\ HelloHolds'
    BY <1>4, <2>1, HelloGotoType, HelloFrame DEF HelloPin, HelloPc
  <2>3. knownHosts' \in [Ports -> Names \cup {None}]
    BY <1>4, <2>1 DEF HelloPin
  <2> QED BY <1>4, <2>2, <2>3, CmdSame DEF HelloPin, history
<1>5. CASE HelloConfig(p)
  <2>1. Keyed /\ hello[p].name \in Names
    BY <1>5 DEF HelloConfig, HelloHolds, Quiet
  <2>2. hello' \in [Hellos -> HelloRec] /\ HelloHolds'
    BY <1>5, <2>1, HelloGotoType, HelloFrame DEF HelloConfig, HelloPc
  <2>3. sshConfig' \subseteq [name: Names, port: Ports]
    BY <1>5, BlocksType DEF HelloConfig
  <2> QED BY <1>5, <2>2, <2>3, CmdSame DEF HelloConfig, Release
<1>6. CASE HelloServe(p)
  <2>1. Keyed /\ hello[p].name \in Names
    BY <1>6 DEF HelloServe, HelloHolds, Quiet
  <2>2. hello' \in [Hellos -> HelloRec] /\ HelloHolds'
    BY <1>6, <2>1, HelloGotoType, HelloFrame DEF HelloServe, HelloPc
  <2> QED BY <1>6, <2>2, CmdSame DEF HelloServe, files, history
<1>7. CASE SignalKills(p)
  BY <1>7, EndsType, HelloFrame, CmdSame DEF SignalKills, Release, Quiet, files
<1>8. CASE SignalRunsBye(p)
  <2>1. Keyed /\ hello[p].name \in Names
    BY <1>8 DEF SignalRunsBye, HelloHolds, Quiet
  <2>2. PICK pc \in {"stuck", "bye"} : HelloGoto(p, pc)
    BY <1>8 DEF SignalRunsBye
  <2>3. hello' \in [Hellos -> HelloRec] /\ HelloHolds'
    BY <1>8, <2>1, <2>2, HelloGotoType, HelloFrame DEF SignalRunsBye, HelloPc
  <2> QED BY <1>8, <2>3, CmdSame DEF SignalRunsBye, files, history
<1>9. CASE ByeLock(p)
  <2>1. Keyed /\ hello[p].name \in Names
    BY <1>9 DEF ByeLock, HelloHolds, Quiet
  <2>2. hello' \in [Hellos -> HelloRec] /\ HelloHolds'
    BY <1>9, <2>1, HelloGotoType, HelloFrame DEF ByeLock, HelloPc
  <2> QED BY <1>9, <2>2, CmdSame DEF ByeLock, Acquire, files, history
<1>10. CASE ByeSave(p)
  <2>1. HostMap(hosts')
    <3>1. CASE OwnRecord(p)
      <4>1. hello[p].name \in Names
        BY <3>1 DEF OwnRecord, HostMap
      <4>2. Mark(hosts[hello[p].name], "offline", None) \in HostRec
        BY <3>1, MarkType DEF OwnRecord, HostMap, Status
      <4> QED BY <1>10, <3>1, <4>1, <4>2, PutType DEF ByeSave
    <3>2. CASE ~OwnRecord(p)
      BY <1>10, <3>2 DEF ByeSave
    <3> QED BY <3>1, <3>2
  <2> QED BY <1>10, <2>1, EndsType, HelloFrame, CmdSame DEF ByeSave, Release, Quiet, history
<1> QED BY <1>1, <1>2, <1>3, <1>4, <1>5, <1>6, <1>7, <1>8, <1>9, <1>10 DEF Hello

LEMMA EnvironmentTypeInv ==
  ASSUME TypeInv, Environment
  PROVE  TypeInv'
<1> USE NoneAssumption DEF TypeInv, TypeOK
<1>1. ASSUME NEW p \in Hellos, TunnelDrop(p) PROVE TypeInv'
  <2>1. HelloHolds'
    BY <1>1 DEF TunnelDrop, HelloHolds
  <2> QED BY <1>1, <2>1, CmdSame DEF TunnelDrop, files, history
<1>2. ASSUME NEW p \in Hellos, HelloCrash(p) PROVE TypeInv'
  BY <1>2, EndsType, HelloFrame, CmdSame DEF HelloCrash, Release, Quiet, files
<1>3. ASSUME NEW c \in Terminals, CommandCrash(c) PROVE TypeInv'
  <2>1. strays' \subseteq Ids
    BY <1>3 DEF CommandCrash, CmdHolds, HasRecord, HostRec
  <2> QED BY <1>3, <2>1, FinishType, CmdFrame, HelloSame
          DEF CommandCrash, Release, HasRecord, files, tunnels
<1> QED BY <1>1, <1>2, <1>3 DEF Environment

LEMMA NextTypeInv == TypeInv /\ [Next]_vars => TypeInv'
<1> SUFFICES ASSUME TypeInv, [Next]_vars PROVE TypeInv'
  OBVIOUS
<1>1. CASE UNCHANGED vars
  BY <1>1 DEF vars, files, history, tunnels, TypeInv, TypeOK, CmdHolds, HelloHolds
<1> QED BY <1>1, InviteTypeInv, TeardownTypeInv, ForgetTypeInv, RevokeTypeInv,
           HelloTypeInv, EnvironmentTypeInv DEF Next
-----------------------------------------------------------------------------
(* state.locked() at work: one process at a time is in a locked section.   *)
LEMMA LockCmd ==
  ASSUME LockHeld, NEW c \in Terminals, UNCHANGED hello,
         \A d \in Terminals \ {c} : cmd'[d] = cmd[d],
         \/ lock' = lock /\ (cmd'[c].pc \in InLockPc => lock = c)
         \/ lock = None /\ lock' = c
         \/ lock = c /\ lock' = None /\ cmd'[c].pc \notin InLockPc
  PROVE  LockHeld'
BY NoneAssumption, DisjointAssumption DEF LockHeld

LEMMA LockHello ==
  ASSUME LockHeld, NEW p \in Hellos, UNCHANGED cmd,
         \A q \in Hellos \ {p} : hello'[q] = hello[q],
         \/ lock' = lock /\ (hello'[p].pc \in HelloLockPc => lock = p)
         \/ lock = None /\ lock' = p
         \/ lock = p /\ lock' = None /\ hello'[p].pc \notin HelloLockPc
  PROVE  LockHeld'
BY NoneAssumption, DisjointAssumption DEF LockHeld

(* No invite is half-way while somebody else, or nobody, has the lock.     *)
LEMMA NoMinting ==
  ASSUME LockHeld', lock' \notin Terminals
  PROVE  Minting'
BY DEF LockHeld, InLockPc, Minting

(* A step that leaves hosts.json alone and starts no invite.               *)
LEMMA MintingSame ==
  ASSUME Minting, UNCHANGED hosts, NEW c \in Terminals,
         \A d \in Terminals \ {c} : cmd'[d] = cmd[d],
         cmd'[c].pc \notin {"minted", "lined"} \/ cmd'[c] = cmd[c]
  PROVE  Minting'
BY DEF Minting

LEMMA HostsSame ==
  ASSUME PortsDistinct, OnlineHasPid, UNCHANGED hosts, revived \subseteq revived'
  PROVE  PortsDistinct' /\ OnlineHasPid'
BY DEF PortsDistinct, OnlineHasPid

Agreed == LockHeld /\ Minting /\ PortsDistinct /\ OnlineHasPid

LEMMA InviteIInv ==
  ASSUME IInv, TypeInv', NEW c \in Terminals, Invite(c)
  PROVE  Agreed'
<1> USE DEF IInv, Agreed
<1> cmd \in [Terminals -> CmdRec]
  BY DEF TypeInv, TypeOK
<1>1. CASE InviteCheck(c)
  <2>1. cmd'[c].pc = "invite" /\ \A d \in Terminals \ {c} : cmd'[d] = cmd[d]
    BY <1>1 DEF InviteCheck, CmdRec, Idle
  <2> QED BY <1>1, <2>1, LockCmd, MintingSame, HostsSame
          DEF InviteCheck, InLockPc, files, history, tunnels
<1>2. CASE InviteRefused(c)
  BY <1>2, FinishType, LockCmd, MintingSame, HostsSame
     DEF InviteRefused, InLockPc, files, history, tunnels
<1>3. ASSUME NEW n \in Names, NEW id \in Ids, InviteMint(c, n, id) PROVE Agreed'
  <2>1. PICK port \in FreePorts : cmd' = [cmd EXCEPT ![c] =
            [pc |-> "minted", name |-> n, todo |-> {}, left |-> FALSE,
             h |-> [id |-> id, status |-> "invited", port |-> port, pid |-> None]]]
    BY <1>3 DEF InviteMint
  <2>2. /\ cmd'[c].h.status = "invited" /\ cmd'[c].h.pid = None /\ cmd'[c].h.port = port
        /\ \A d \in Terminals \ {c} : cmd'[d] = cmd[d]
    BY <2>1
  <2>3. LockHeld'
    BY <1>3, <2>2, LockCmd DEF InviteMint, Acquire, tunnels
  <2>4. \A m \in DOMAIN hosts : hosts[m].status # "gone" => hosts[m].port # port
    BY <2>1 DEF FreePorts, Used
  <2>5. \A d \in Terminals : cmd'[d].pc \in {"minted", "lined"} => d = c
    BY <1>3, <2>3 DEF InviteMint, Acquire, LockHeld, InLockPc
  <2>6. Minting'
    BY <1>3, <2>2, <2>4, <2>5 DEF Minting, InviteMint
  <2> QED BY <1>3, <2>3, <2>6, HostsSame DEF InviteMint
<1>4. CASE InviteAddLine(c)
  <2>1. /\ cmd'[c].pc = "lined" /\ cmd'[c].h = cmd[c].h
        /\ \A d \in Terminals \ {c} : cmd'[d] = cmd[d]
    BY <1>4, GotoType DEF InviteAddLine, CmdPc
  <2>2. lock = c
    BY <1>4 DEF InviteAddLine, LockHeld, InLockPc
  <2>3. Minting'
    BY <1>4, <2>1 DEF Minting, InviteAddLine
  <2> QED BY <1>4, <2>1, <2>2, <2>3, LockCmd, HostsSame DEF InviteAddLine, history, tunnels
<1>5. CASE InviteNoFunnel(c)
  <2>1. lock = c
    BY <1>5 DEF InviteNoFunnel, LockHeld, InLockPc
  <2> QED BY <1>5, <2>1, FinishType, LockCmd, MintingSame, HostsSame
          DEF InviteNoFunnel, Release, InLockPc, history, tunnels
<1>6. CASE InviteSave(c)
  <2>1. lock = c
    BY <1>6 DEF InviteSave, LockHeld, InLockPc
  <2>2. LockHeld'
    BY <1>6, <2>1, FinishType, LockCmd DEF InviteSave, Release, InLockPc, tunnels
  <2>3. Minting'
    BY <1>6, <2>2, NoMinting, NoneAssumption DEF InviteSave, Release
  <2> DEFINE n == cmd[c].name  rec == cmd[c].h
  <2>4. n \in Names /\ rec \in HostRec
    BY <1>6 DEF InviteSave, TypeInv, CmdHolds, HasRecord
  <2>5. /\ rec.status = "invited" /\ rec.pid = None
        /\ \A m \in DOMAIN hosts : hosts[m].status # "gone" => hosts[m].port # rec.port
    BY <1>6 DEF InviteSave, Minting
  <2> HIDE DEF n, rec
  <2>6. /\ DOMAIN hosts' = DOMAIN hosts \cup {n} /\ hosts'[n] = rec
        /\ \A m \in DOMAIN hosts \ {n} : hosts'[m] = hosts[m]
    BY <1>6, <2>4, PutType DEF InviteSave, n, rec, TypeInv, TypeOK
  <2>7. PortsDistinct'
    BY <1>6, <2>5, <2>6 DEF PortsDistinct, InviteSave, history
  <2>8. OnlineHasPid'
    BY <2>5, <2>6 DEF OnlineHasPid
  <2> QED BY <2>2, <2>3, <2>7, <2>8
<1> QED BY <1>1, <1>2, <1>3, <1>4, <1>5, <1>6 DEF Invite

LEMMA TeardownIInv ==
  ASSUME IInv, TypeInv', NEW c \in Terminals, Teardown(c)
  PROVE  Agreed'
<1> USE DEF IInv, Agreed
<1> cmd \in [Terminals -> CmdRec]
  BY DEF TypeInv, TypeOK
<1>1. ASSUME NEW n \in Names, TeardownAsk(c, n) PROVE Agreed'
  <2>1. cmd'[c].pc = "asked" /\ \A d \in Terminals \ {c} : cmd'[d] = cmd[d]
    BY <1>1 DEF TeardownAsk
  <2> QED BY <1>1, <2>1, LockCmd, MintingSame, HostsSame
          DEF TeardownAsk, InLockPc, files, history, tunnels
<1>2. CASE TeardownLine(c)
  BY <1>2, GotoType, LockCmd, MintingSame, HostsSame
     DEF TeardownLine, Acquire, CmdPc, history, tunnels
<1>3. CASE TeardownPin(c)
  <2>1. lock = c
    BY <1>3 DEF TeardownPin, LockHeld, InLockPc
  <2> QED BY <1>3, <2>1, GotoType, LockCmd, MintingSame, HostsSame
          DEF TeardownPin, CmdPc, history, tunnels
<1>4. CASE TeardownConfig(c)
  <2>1. lock = c
    BY <1>4 DEF TeardownConfig, LockHeld, InLockPc
  <2> QED BY <1>4, <2>1, GotoType, LockCmd, MintingSame, HostsSame
          DEF TeardownConfig, CmdPc, history, tunnels
<1>5. CASE TeardownSave(c)
  <2>1. lock = c /\ cmd[c].name \in Names
    BY <1>5 DEF TeardownSave, LockHeld, InLockPc, TypeInv, CmdHolds, HasRecord
  <2>2. LockHeld'
    BY <1>5, <2>1, GotoType, LockCmd DEF TeardownSave, Release, CmdPc, InLockPc, tunnels
  <2>3. Minting'
    BY <1>5, <2>2, NoMinting, NoneAssumption DEF TeardownSave, Release
  <2>4. /\ DOMAIN hosts' = DOMAIN hosts
        /\ \A m \in DOMAIN hosts :
             hosts'[m] = IF m = cmd[c].name THEN Mark(hosts[m], "gone", None) ELSE hosts[m]
    BY <1>5, <2>1, MarkGoneType DEF TeardownSave, TypeInv, TypeOK
  <2>5. ASSUME NEW m \in DOMAIN hosts
        PROVE  hosts'[m] = hosts[m] \/ (hosts'[m].status = "gone" /\ hosts'[m].pid = None)
    <3>1. hosts[m] \in HostRec /\ "gone" \in Status /\ None \in Hellos \cup {None}
      BY DEF TypeInv, TypeOK, HostMap, Status
    <3>2. Mark(hosts[m], "gone", None).status = "gone" /\ Mark(hosts[m], "gone", None).pid = None
      BY <3>1, MarkType
    <3> QED BY <2>4, <3>2
  <2>6. PortsDistinct'
    BY <1>5, <2>4, <2>5 DEF PortsDistinct, TeardownSave
  <2>7. OnlineHasPid'
    BY <2>4, <2>5 DEF OnlineHasPid
  <2> QED BY <2>2, <2>3, <2>6, <2>7
<1>6. CASE TeardownKill(c)
  BY <1>6, GotoType, LockCmd, MintingSame, HostsSame
     DEF TeardownKill, Kill, InLockPc, CmdPc, files, history
<1>7. CASE TeardownKeys(c)
  BY <1>7, GotoType, LockCmd, MintingSame, HostsSame
     DEF TeardownKeys, InLockPc, CmdPc, history, tunnels
<1>8. CASE TeardownVerify(c)
  <2>1. PICK pc \in {"clean", "residue"} : Goto(c, pc)
    BY <1>8 DEF TeardownVerify
  <2> QED BY <1>8, <2>1, GotoType, LockCmd, MintingSame, HostsSame
          DEF TeardownVerify, InLockPc, CmdPc, files, history, tunnels
<1>9. CASE TeardownTarget(c)
  BY <1>9, TargetType, LockCmd, MintingSame, HostsSame
     DEF TeardownTarget, InLockPc, files, history, tunnels
<1> QED BY <1>1, <1>2, <1>3, <1>4, <1>5, <1>6, <1>7, <1>8, <1>9 DEF Teardown

LEMMA ForgetIInv ==
  ASSUME IInv, TypeInv', NEW c \in Terminals, Forget(c)
  PROVE  Agreed'
<1> USE DEF IInv, Agreed
<1> cmd \in [Terminals -> CmdRec]
  BY DEF TypeInv, TypeOK
<1>1. CASE ForgetLock(c)
  <2>1. cmd'[c].pc = "f_lines" /\ \A d \in Terminals \ {c} : cmd'[d] = cmd[d]
    BY <1>1 DEF ForgetLock, Idle
  <2> QED BY <1>1, <2>1, LockCmd, MintingSame, HostsSame
          DEF ForgetLock, Acquire, files, history, tunnels
<1>2. ASSUME NEW n \in Names, ForgetLine(c, n) PROVE Agreed'
  <2>1. lock = c
    BY <1>2 DEF ForgetLine, LockHeld, InLockPc
  <2> QED BY <1>2, <2>1, LockCmd, MintingSame, HostsSame DEF ForgetLine, history, tunnels
<1>3. CASE ForgetConfig(c)
  <2>1. lock = c
    BY <1>3 DEF ForgetConfig, LockHeld, InLockPc
  <2> QED BY <1>3, <2>1, GotoType, LockCmd, MintingSame, HostsSame
          DEF ForgetConfig, CmdPc, history, tunnels
<1>4. CASE ForgetSave(c)
  <2>1. lock = c
    BY <1>4 DEF ForgetSave, LockHeld, InLockPc
  <2>2. LockHeld'
    BY <1>4, <2>1, FinishType, LockCmd DEF ForgetSave, Release, InLockPc, tunnels
  <2>3. Minting'
    BY <1>4, <2>2, NoMinting, NoneAssumption DEF ForgetSave, Release
  <2>4. /\ DOMAIN hosts' \subseteq DOMAIN hosts
        /\ \A m \in DOMAIN hosts' : hosts'[m] = hosts[m]
    BY <1>4, WithoutType DEF ForgetSave, TypeInv, TypeOK
  <2>5. PortsDistinct' /\ OnlineHasPid'
    BY <1>4, <2>4 DEF PortsDistinct, OnlineHasPid, ForgetSave
  <2> QED BY <2>2, <2>3, <2>5
<1> QED BY <1>1, <1>2, <1>3, <1>4 DEF Forget

LEMMA RevokeIInv ==
  ASSUME IInv, TypeInv', NEW c \in Terminals, Revoke(c)
  PROVE  Agreed'
<1> USE DEF IInv, Agreed
<1> cmd \in [Terminals -> CmdRec]
  BY DEF TypeInv, TypeOK
<1>1. CASE RevokeLock(c)
  <2>1. cmd'[c].pc = "r_lines" /\ \A d \in Terminals \ {c} : cmd'[d] = cmd[d]
    BY <1>1 DEF RevokeLock, Idle
  <2> QED BY <1>1, <2>1, LockCmd, MintingSame, HostsSame
          DEF RevokeLock, Acquire, files, history, tunnels
<1>2. ASSUME NEW id \in Ids, RevokeLine(c, id) PROVE Agreed'
  <2>1. lock = c
    BY <1>2 DEF RevokeLine, LockHeld, InLockPc
  <2>2. cmd'[c].pc = "r_lines" /\ \A d \in Terminals \ {c} : cmd'[d] = cmd[d]
    BY <1>2 DEF RevokeLine, CmdRec
  <2> QED BY <1>2, <2>1, <2>2, LockCmd, MintingSame, HostsSame DEF RevokeLine, history, tunnels
<1>3. CASE RevokeKill(c)
  <2>1. lock = c
    BY <1>3 DEF RevokeKill, LockHeld, InLockPc
  <2> QED BY <1>3, <2>1, GotoType, LockCmd, MintingSame, HostsSame
          DEF RevokeKill, Kill, CmdPc, files, history
<1>4. CASE RevokeConfig(c)
  <2>1. lock = c
    BY <1>4 DEF RevokeConfig, LockHeld, InLockPc
  <2> QED BY <1>4, <2>1, GotoType, LockCmd, MintingSame, HostsSame
          DEF RevokeConfig, CmdPc, history, tunnels
<1>5. CASE RevokeSave(c)
  <2>1. lock = c
    BY <1>5 DEF RevokeSave, LockHeld, InLockPc
  <2>2. cmd'[c].pc = "revoked" /\ \A d \in Terminals \ {c} : cmd'[d] = cmd[d]
    BY <1>5 DEF RevokeSave, Idle
  <2>3. LockHeld'
    BY <1>5, <2>1, <2>2, LockCmd DEF RevokeSave, Release, InLockPc, tunnels
  <2>4. Minting'
    BY <1>5, <2>3, NoMinting, NoneAssumption DEF RevokeSave, Release
  <2>5. /\ DOMAIN hosts' = DOMAIN hosts
        /\ \A m \in DOMAIN hosts : /\ hosts'[m].status = "gone"
                                   /\ hosts'[m] = hosts[m] \/ hosts'[m].pid = None
    BY <1>5, AllGoneType, MarkType DEF RevokeSave, TypeInv, TypeOK, HostMap, Status
  <2>6. PortsDistinct' /\ OnlineHasPid'
    BY <2>5 DEF PortsDistinct, OnlineHasPid
  <2> QED BY <2>3, <2>4, <2>6
<1> QED BY <1>1, <1>2, <1>3, <1>4, <1>5 DEF Revoke

(* A hello never touches a command, and one step of it needs the lock or   *)
(* leaves hosts.json alone.                                                *)
LEMMA HelloQuiet ==
  ASSUME Minting, UNCHANGED <<hosts, cmd>>
  PROVE  Minting'
BY DEF Minting

LEMMA HelloIInv ==
  ASSUME IInv, TypeInv', NEW p \in Hellos, Hello(p)
  PROVE  Agreed'
<1> USE DEF IInv, Agreed
<1> hello \in [Hellos -> HelloRec]
  BY DEF TypeInv, TypeOK
<1>1. ASSUME NEW l \in relayLines, HelloConnect(p, l) PROVE Agreed'
  <2>1. hello'[p].pc = "connected" /\ \A q \in Hellos \ {p} : hello'[q] = hello[q]
    BY <1>1 DEF HelloConnect
  <2> QED BY <1>1, <2>1, LockHello, HelloQuiet, HostsSame
          DEF HelloConnect, HelloLockPc, files, history
<1>2. CASE HelloRefused(p)
  BY <1>2, EndsType, LockHello, HelloQuiet, HostsSame DEF HelloRefused, HelloLockPc, files, history
<1>3. ASSUME NEW n \in Names, HelloAccept(p, n) PROVE Agreed'
  <2>1. \A q \in Hellos \ {p} : hello'[q] = hello[q]
    BY <1>3 DEF HelloAccept
  <2>2. LockHeld'
    BY <1>3, <2>1, LockHello DEF HelloAccept, Acquire
  <2>3. Minting'
    BY <1>3, <2>2, NoMinting, DisjointAssumption DEF HelloAccept, Acquire
  <2>4. n \in DOMAIN hosts /\ hosts[n] \in HostRec
    BY <1>3 DEF HelloAccept, Recorded, TypeInv, TypeOK, HostMap
  <2>5. p \in Hellos \cup {None} /\ "online" \in Status
    BY DEF Status
  <2>6. /\ DOMAIN hosts' = DOMAIN hosts
        /\ hosts'[n].status = "online" /\ hosts'[n].pid = p
        /\ hosts'[n].port = hosts[n].port /\ hosts'[n].id = hosts[n].id
        /\ \A m \in DOMAIN hosts \ {n} : hosts'[m] = hosts[m]
    BY <1>3, <2>4, <2>5, MarkOne DEF HelloAccept, TypeInv, TypeOK
  <2>7. revived \subseteq revived' /\ (hosts[n].status = "gone" => hosts[n].id \in revived')
    BY <1>3 DEF HelloAccept
  <2>8. PortsDistinct'
    BY <2>4, <2>6, <2>7 DEF PortsDistinct
  <2>9. OnlineHasPid'
    BY <2>6, NoneAssumption DEF OnlineHasPid
  <2> QED BY <2>2, <2>3, <2>8, <2>9
<1>4. CASE HelloPin(p)
  <2>1. lock = p
    BY <1>4 DEF HelloPin, LockHeld, HelloLockPc
  <2> QED BY <1>4, <2>1, HelloGotoType, LockHello, HelloQuiet, HostsSame DEF HelloPin, HelloPc, history
<1>5. CASE HelloConfig(p)
  <2>1. lock = p
    BY <1>5 DEF HelloConfig, LockHeld, HelloLockPc
  <2> QED BY <1>5, <2>1, HelloGotoType, LockHello, HelloQuiet, HostsSame
          DEF HelloConfig, Release, HelloPc, HelloLockPc
<1>6. CASE HelloServe(p)
  BY <1>6, HelloGotoType, LockHello, HelloQuiet, HostsSame
     DEF HelloServe, HelloPc, HelloLockPc, files, history
<1>7. CASE SignalKills(p)
  <2>1. LockHeld'
    BY <1>7, EndsType, LockHello DEF SignalKills, Release, HelloLockPc
  <2> QED BY <1>7, <2>1, HelloQuiet, HostsSame DEF SignalKills, files
<1>8. CASE SignalRunsBye(p)
  <2>1. PICK pc \in {"stuck", "bye"} : /\ HelloGoto(p, pc)
                                       /\ pc = "stuck" => lock = p
    BY <1>8 DEF SignalRunsBye, LockHeld, HelloLockPc
  <2>2. LockHeld'
    BY <1>8, <2>1, HelloGotoType, LockHello DEF SignalRunsBye, HelloPc, HelloLockPc
  <2> QED BY <1>8, <2>2, HelloQuiet, HostsSame DEF SignalRunsBye, files, history
<1>9. CASE ByeLock(p)
  BY <1>9, HelloGotoType, LockHello, HelloQuiet, HostsSame
     DEF ByeLock, Acquire, HelloPc, files, history
<1>10. CASE ByeSave(p)
  <2>1. lock = p
    BY <1>10 DEF ByeSave, LockHeld, HelloLockPc
  <2>2. LockHeld'
    BY <1>10, <2>1, EndsType, LockHello DEF ByeSave, Release, HelloLockPc
  <2>3. Minting'
    BY <1>10, <2>2, NoMinting, NoneAssumption DEF ByeSave, Release
  <2>4. CASE ~OwnRecord(p)
    BY <1>10, <2>2, <2>3, <2>4, HostsSame DEF ByeSave, history
  <2>5. CASE OwnRecord(p)
    <3> DEFINE n == hello[p].name
    <3>1. n \in DOMAIN hosts /\ hosts[n].status = "online"
      BY <2>5, NoneAssumption DEF OwnRecord, OnlineHasPid
    <3>2. None \in Hellos \cup {None} /\ "offline" \in Status
      BY DEF Status
    <3>3. /\ DOMAIN hosts' = DOMAIN hosts
          /\ hosts'[n].status = "offline" /\ hosts'[n].pid = None
          /\ hosts'[n].port = hosts[n].port /\ hosts'[n].id = hosts[n].id
          /\ \A m \in DOMAIN hosts \ {n} : hosts'[m] = hosts[m]
      BY <1>10, <2>5, <3>1, <3>2, MarkOne DEF ByeSave, TypeInv, TypeOK
    <3> HIDE DEF n
    <3>4. PortsDistinct'
      BY <1>10, <3>1, <3>3 DEF PortsDistinct, ByeSave, history
    <3>5. OnlineHasPid'
      BY <3>3 DEF OnlineHasPid
    <3> QED BY <2>2, <2>3, <3>4, <3>5
  <2> QED BY <2>4, <2>5
<1> QED BY <1>1, <1>2, <1>3, <1>4, <1>5, <1>6, <1>7, <1>8, <1>9, <1>10 DEF Hello

LEMMA EnvironmentIInv ==
  ASSUME IInv, TypeInv', Environment
  PROVE  Agreed'
<1> USE DEF IInv, Agreed
<1> cmd \in [Terminals -> CmdRec] /\ hello \in [Hellos -> HelloRec]
  BY DEF TypeInv, TypeOK
<1>1. ASSUME NEW p \in Hellos, TunnelDrop(p) PROVE Agreed'
  BY <1>1, LockHello, HelloQuiet, HostsSame DEF TunnelDrop, LockHeld, files, history
<1>2. ASSUME NEW p \in Hellos, HelloCrash(p) PROVE Agreed'
  <2>1. LockHeld'
    BY <1>2, EndsType, LockHello DEF HelloCrash, Release, HelloLockPc
  <2> QED BY <1>2, <2>1, HelloQuiet, HostsSame DEF HelloCrash, files
<1>3. ASSUME NEW c \in Terminals, CommandCrash(c) PROVE Agreed'
  <2>1. LockHeld'
    BY <1>3, FinishType, LockCmd DEF CommandCrash, Release, InLockPc, tunnels
  <2> QED BY <1>3, <2>1, FinishType, MintingSame, HostsSame DEF CommandCrash, files
<1> QED BY <1>1, <1>2, <1>3 DEF Environment

LEMMA NextIInv == IInv /\ [Next]_vars => IInv'
<1> SUFFICES ASSUME IInv, [Next]_vars PROVE IInv'
  OBVIOUS
<1>1. TypeInv'
  BY NextTypeInv DEF IInv
<1>2. CASE UNCHANGED vars
  <2>1. Agreed'
    BY <1>2 DEF vars, files, history, tunnels, IInv, Agreed, LockHeld, Minting, PortsDistinct,
       OnlineHasPid
  <2> QED BY <1>1, <2>1 DEF IInv, Agreed
<1>3. CASE Next
  <2>1. Agreed'
    BY <1>1, <1>3, InviteIInv, TeardownIInv, ForgetIInv, RevokeIInv, HelloIInv, EnvironmentIInv
       DEF Next
  <2> QED BY <1>1, <2>1 DEF IInv, Agreed
<1> QED BY <1>2, <1>3

-----------------------------------------------------------------------------
(* The inductive invariant holds of every behaviour.                       *)
THEOREM Invariant == Spec => []IInv
BY InitIInv, NextIInv, PTL DEF Spec

(* Every file and every process keeps its type: nothing is written back    *)
(* that was not a record before (state.save_hosts).                        *)
THEOREM Typing == Spec => []TypeOK
BY Invariant, PTL DEF IInv, TypeInv

(* However many terminals invite, and whatever dies half-way, allocate_port *)
(* gives two hosts one tunnel port only if a hello revived one of them.    *)
THEOREM DistinctPorts == Spec => []PortsDistinct
BY Invariant, PTL DEF IInv

(* The status of a host and the process recorded for it agree.             *)
THEOREM PidWhenOnline == Spec => []OnlineHasPid
BY Invariant, PTL DEF IInv

-----------------------------------------------------------------------------
(* Where the relay's lines come from.  What a command in its locked        *)
(* section knows of them:                                                  *)
Section(c) ==
  /\ cmd[c].pc \in {"minted", "lined"} => cmd[c].name \notin DOMAIN hosts
  /\ cmd[c].pc \in {"t_pin", "t_config", "t_save"} => cmd[c].h.id \notin OpenInvites
  /\ cmd[c].pc = "f_save" =>
       \A n \in cmd[c].todo \cap DOMAIN hosts : hosts[n].id \notin OpenInvites
  /\ cmd[c].pc = "r_lines" => OpenInvites \subseteq cmd[c].todo
  /\ cmd[c].pc \in {"r_config", "r_save"} => OpenInvites = {}

Sections == \A c \in Terminals : Section(c)

(* A line has a record, or one on the way, or is a stray.                  *)
Listed == {hosts[n].id : n \in {m \in DOMAIN hosts : hosts[m].status # "gone"}}
OnTheWay == {cmd[c].h.id : c \in {d \in Terminals : cmd[d].pc = "lined"}}
Accounted == OpenInvites \subseteq Listed \cup OnTheWay \cup strays

LInv == Sections /\ Accounted

LEMMA OthersOutside ==
  ASSUME LockHeld', NEW c \in Terminals, lock' \notin Terminals \ {c}, Section(c)'
  PROVE  Sections'
BY DEF LockHeld, InLockPc, Sections, Section

LEMMA AllOutside ==
  ASSUME LockHeld', lock' \notin Terminals
  PROVE  Sections'
BY DEF LockHeld, InLockPc, Sections, Section

LEMMA SectionsSame ==
  ASSUME Sections, UNCHANGED <<hosts, relayLines>>, NEW c \in Terminals,
         \A d \in Terminals \ {c} : cmd'[d] = cmd[d],
         Section(c)'
  PROVE  Sections'
BY DEF Sections, Section, OpenInvites

(* A step that leaves the files alone and takes no line out of a command's *)
(* hands.                                                                  *)
LEMMA AccountedSame ==
  ASSUME Accounted, UNCHANGED <<hosts, relayLines>>, strays \subseteq strays',
         NEW c \in Terminals, \A d \in Terminals \ {c} : cmd'[d] = cmd[d],
         cmd[c].pc = "lined" => cmd[c].h.id \in strays'
  PROVE  Accounted'
BY DEF Accounted, OpenInvites, Listed, OnTheWay

LEMMA LinesGoAway ==
  ASSUME Accounted, UNCHANGED <<hosts, strays>>, relayLines' \subseteq relayLines,
         NEW c \in Terminals, \A d \in Terminals \ {c} : cmd'[d] = cmd[d],
         cmd[c].pc = "lined" => cmd[c].h.id \notin OpenInvites'
  PROVE  Accounted'
BY DEF Accounted, OpenInvites, Listed, OnTheWay

LEMMA RemoveLineGone ==
  ASSUME NEW id, relayLines' = RemoveLine(id)
  PROVE  /\ relayLines' \subseteq relayLines
         /\ OpenInvites' = OpenInvites \ {id}
BY DEF RemoveLine, OpenInvites

LEMMA InviteLInv ==
  ASSUME IInv, IInv', LInv, NEW c \in Terminals, Invite(c)
  PROVE  LInv'
<1> USE DEF LInv
<1> cmd \in [Terminals -> CmdRec] /\ LockHeld /\ LockHeld'
  BY DEF IInv, TypeInv, TypeOK
<1>1. CASE InviteCheck(c)
  <2>1. /\ cmd'[c].pc = "invite" /\ \A d \in Terminals \ {c} : cmd'[d] = cmd[d]
        /\ cmd[c].pc # "lined"
    BY <1>1 DEF InviteCheck, CmdRec, Idle, AtRest
  <2> QED BY <1>1, <2>1, SectionsSame, AccountedSame DEF InviteCheck, Section, files, history
<1>2. CASE InviteRefused(c)
  BY <1>2, FinishType, SectionsSame, AccountedSame DEF InviteRefused, Section, files, history
<1>3. ASSUME NEW n \in Names, NEW id \in Ids, InviteMint(c, n, id) PROVE LInv'
  <2>1. /\ cmd'[c].pc = "minted" /\ cmd'[c].name = n
        /\ \A d \in Terminals \ {c} : cmd'[d] = cmd[d]
    BY <1>3 DEF InviteMint
  <2>2. Section(c)'
    BY <1>3, <2>1 DEF InviteMint, Section
  <2> QED BY <1>3, <2>1, <2>2, SectionsSame, AccountedSame DEF InviteMint
<1>4. CASE InviteAddLine(c)
  <2>1. /\ cmd'[c].pc = "lined" /\ cmd'[c].h = cmd[c].h /\ cmd'[c].name = cmd[c].name
        /\ \A d \in Terminals \ {c} : cmd'[d] = cmd[d]
    BY <1>4, GotoType DEF InviteAddLine, CmdPc
  <2>2. lock' = c
    BY <1>4 DEF InviteAddLine, LockHeld, InLockPc
  <2>3. Section(c)'
    BY <1>4, <2>1 DEF InviteAddLine, Section, Sections
  <2>4. OpenInvites' \subseteq OpenInvites \cup {cmd[c].h.id}
    BY <1>4 DEF InviteAddLine, RemoveLine, OpenInvites
  <2>5. OnTheWay' = OnTheWay \cup {cmd[c].h.id}
    BY <1>4, <2>1 DEF InviteAddLine, OnTheWay
  <2>6. Accounted'
    BY <1>4, <2>4, <2>5 DEF InviteAddLine, Accounted, Listed, history
  <2> QED BY <2>2, <2>3, <2>6, OthersOutside
<1>5. CASE InviteNoFunnel(c)
  <2>1. Sections'
    BY <1>5, AllOutside, NoneAssumption DEF InviteNoFunnel, Release
  <2> QED BY <1>5, <2>1, FinishType, LinesGoAway, RemoveLineGone DEF InviteNoFunnel, history
<1>6. CASE InviteSave(c)
  <2>1. Sections'
    BY <1>6, AllOutside, NoneAssumption DEF InviteSave, Release
  <2> DEFINE n == cmd[c].name  rec == cmd[c].h
  <2>2. n \in Names /\ rec \in HostRec /\ HostMap(hosts)
    BY <1>6 DEF InviteSave, IInv, TypeInv, TypeOK, CmdHolds, HasRecord
  <2>3. n \notin DOMAIN hosts /\ rec.status = "invited"
    BY <1>6 DEF InviteSave, Section, Sections, IInv, Minting
  <2> HIDE DEF n, rec
  <2>4. /\ DOMAIN hosts' = DOMAIN hosts \cup {n} /\ hosts'[n] = rec
        /\ \A m \in DOMAIN hosts \ {n} : hosts'[m] = hosts[m]
    BY <1>6, <2>2, PutType DEF InviteSave, n, rec
  <2>5. Listed \cup {rec.id} \subseteq Listed'
    BY <2>3, <2>4 DEF Listed
  <2>6. OnTheWay \subseteq OnTheWay' \cup {rec.id}
    BY <1>6, FinishType DEF InviteSave, OnTheWay, rec
  <2>7. Accounted'
    BY <1>6, <2>5, <2>6 DEF InviteSave, Accounted, OpenInvites, history
  <2> QED BY <2>1, <2>7
<1> QED BY <1>1, <1>2, <1>3, <1>4, <1>5, <1>6 DEF Invite

LEMMA TeardownLInv ==
  ASSUME IInv, IInv', LInv, NEW c \in Terminals, Teardown(c)
  PROVE  LInv'
<1> USE DEF LInv
<1> cmd \in [Terminals -> CmdRec] /\ LockHeld /\ LockHeld'
  BY DEF IInv, TypeInv, TypeOK
<1>1. ASSUME NEW n \in Names, TeardownAsk(c, n) PROVE LInv'
  <2>1. /\ cmd'[c].pc = "asked" /\ \A d \in Terminals \ {c} : cmd'[d] = cmd[d]
        /\ cmd[c].pc # "lined"
    BY <1>1 DEF TeardownAsk, AtRest
  <2> QED BY <1>1, <2>1, SectionsSame, AccountedSame DEF TeardownAsk, Section, files, history
<1>2. CASE TeardownLine(c)
  <2>1. /\ cmd'[c].pc = "t_pin" /\ cmd'[c].h = cmd[c].h /\ cmd[c].pc # "lined"
        /\ \A d \in Terminals \ {c} : cmd'[d] = cmd[d]
    BY <1>2, GotoType DEF TeardownLine, CmdPc
  <2>2. Section(c)'
    BY <1>2, <2>1, RemoveLineGone DEF TeardownLine, Section
  <2>3. Sections'
    BY <1>2, <2>2, OthersOutside DEF TeardownLine, Acquire
  <2> QED BY <1>2, <2>1, <2>3, LinesGoAway, RemoveLineGone DEF TeardownLine, history
<1>3. CASE TeardownPin(c)
  <2>1. Section(c)'
    BY <1>3, GotoType DEF TeardownPin, Section, Sections, CmdPc, OpenInvites
  <2> QED BY <1>3, <2>1, GotoType, SectionsSame, AccountedSame DEF TeardownPin, CmdPc, history
<1>4. CASE TeardownConfig(c)
  <2>1. Section(c)'
    BY <1>4, GotoType DEF TeardownConfig, Section, Sections, CmdPc, OpenInvites
  <2> QED BY <1>4, <2>1, GotoType, SectionsSame, AccountedSame DEF TeardownConfig, CmdPc, history
<1>5. CASE TeardownSave(c)
  <2>1. Sections'
    BY <1>5, AllOutside, NoneAssumption DEF TeardownSave, Release
  <2> DEFINE n == cmd[c].name
  <2>2. /\ n \in Names /\ HostMap(hosts)
        /\ cmd[c].h.id \notin OpenInvites
    BY <1>5 DEF TeardownSave, IInv, TypeInv, TypeOK, CmdHolds, HasRecord, Section, Sections
  <2>3. /\ DOMAIN hosts' = DOMAIN hosts
        /\ \A m \in DOMAIN hosts : m # n => hosts'[m] = hosts[m]
    BY <1>5, <2>2, MarkGoneType DEF TeardownSave
  <2>4. \A m \in DOMAIN hosts : hosts[m].status # "gone" =>
          hosts[m].id \in Listed' \cup {cmd[c].h.id} \cup Overtaken(c)
    BY <2>3 DEF Listed, Overtaken
  <2>5. OpenInvites' = OpenInvites /\ OnTheWay \subseteq OnTheWay'
    BY <1>5, GotoType DEF TeardownSave, OpenInvites, OnTheWay, CmdPc
  <2>6. Listed \subseteq Listed' \cup {cmd[c].h.id} \cup Overtaken(c)
    BY <2>4 DEF Listed
  <2>7. Accounted'
    BY <1>5, <2>2, <2>5, <2>6 DEF TeardownSave, Accounted
  <2> QED BY <2>1, <2>7
<1>6. CASE TeardownKill(c)
  BY <1>6, GotoType, SectionsSame, AccountedSame DEF TeardownKill, Section, CmdPc, files, history
<1>7. CASE TeardownKeys(c)
  BY <1>7, GotoType, SectionsSame, AccountedSame DEF TeardownKeys, Section, CmdPc, history
<1>8. CASE TeardownVerify(c)
  <2>1. PICK pc \in {"clean", "residue"} : Goto(c, pc)
    BY <1>8 DEF TeardownVerify
  <2> QED BY <1>8, <2>1, GotoType, SectionsSame, AccountedSame
          DEF TeardownVerify, Section, CmdPc, files, history
<1>9. CASE TeardownTarget(c)
  BY <1>9, TargetType, SectionsSame, AccountedSame DEF TeardownTarget, Section, files, history
<1> QED BY <1>1, <1>2, <1>3, <1>4, <1>5, <1>6, <1>7, <1>8, <1>9 DEF Teardown

LEMMA ForgetLInv ==
  ASSUME IInv, IInv', LInv, NEW c \in Terminals, Forget(c)
  PROVE  LInv'
<1> USE DEF LInv
<1> cmd \in [Terminals -> CmdRec] /\ LockHeld /\ LockHeld'
  BY DEF IInv, TypeInv, TypeOK
<1>1. CASE ForgetLock(c)
  <2>1. /\ cmd'[c].pc = "f_lines" /\ \A d \in Terminals \ {c} : cmd'[d] = cmd[d]
        /\ cmd[c].pc # "lined"
    BY <1>1 DEF ForgetLock, Idle, AtRest
  <2> QED BY <1>1, <2>1, SectionsSame, AccountedSame DEF ForgetLock, Section, files, history
<1>2. ASSUME NEW n \in Names, ForgetLine(c, n) PROVE LInv'
  <2>1. lock' = c /\ cmd' = cmd /\ cmd[c].pc = "f_lines"
    BY <1>2 DEF ForgetLine, LockHeld, InLockPc
  <2>2. Sections'
    BY <2>1, OthersOutside DEF Section
  <2> QED BY <1>2, <2>1, <2>2, LinesGoAway, RemoveLineGone DEF ForgetLine, history
<1>3. CASE ForgetConfig(c)
  <2>1. Section(c)'
    BY <1>3, GotoType DEF ForgetConfig, Section, CmdPc, OpenInvites
  <2> QED BY <1>3, <2>1, GotoType, SectionsSame, AccountedSame DEF ForgetConfig, CmdPc, history
<1>4. CASE ForgetSave(c)
  <2>1. Sections'
    BY <1>4, AllOutside, NoneAssumption DEF ForgetSave, Release
  <2>2. \A n \in cmd[c].todo \cap DOMAIN hosts : hosts[n].id \notin OpenInvites
    BY <1>4 DEF ForgetSave, Section, Sections
  <2>3. \A n \in DOMAIN hosts \ cmd[c].todo : n \in DOMAIN hosts' /\ hosts'[n] = hosts[n]
    BY <1>4 DEF ForgetSave, Without
  <2>4. OpenInvites \cap Listed \subseteq Listed'
    BY <2>2, <2>3 DEF Listed
  <2>5. OpenInvites' = OpenInvites /\ OnTheWay \subseteq OnTheWay' /\ strays' = strays
    BY <1>4, FinishType DEF ForgetSave, OpenInvites, OnTheWay
  <2>6. Accounted'
    BY <2>4, <2>5 DEF Accounted
  <2> QED BY <2>1, <2>6
<1> QED BY <1>1, <1>2, <1>3, <1>4 DEF Forget

LEMMA RevokeLInv ==
  ASSUME IInv, IInv', LInv, NEW c \in Terminals, Revoke(c)
  PROVE  LInv'
<1> USE DEF LInv
<1> cmd \in [Terminals -> CmdRec] /\ LockHeld /\ LockHeld'
  BY DEF IInv, TypeInv, TypeOK
<1>1. CASE RevokeLock(c)
  <2>1. /\ cmd'[c].pc = "r_lines" /\ cmd'[c].todo = OpenInvites
        /\ \A d \in Terminals \ {c} : cmd'[d] = cmd[d]
        /\ cmd[c].pc # "lined"
    BY <1>1 DEF RevokeLock, Idle, AtRest
  <2>2. Section(c)'
    BY <1>1, <2>1 DEF RevokeLock, Section, OpenInvites, files
  <2> QED BY <1>1, <2>1, <2>2, SectionsSame, AccountedSame DEF RevokeLock, files, history
<1>2. ASSUME NEW id \in Ids, RevokeLine(c, id) PROVE LInv'
  <2>1. /\ cmd'[c].pc = "r_lines" /\ cmd'[c].todo = cmd[c].todo \ {id}
        /\ \A d \in Terminals \ {c} : cmd'[d] = cmd[d]
        /\ cmd[c].pc # "lined" /\ lock' = c
    BY <1>2 DEF RevokeLine, CmdRec, LockHeld, InLockPc
  <2>2. Section(c)'
    BY <1>2, <2>1, RemoveLineGone DEF RevokeLine, Section, Sections
  <2> QED BY <1>2, <2>1, <2>2, OthersOutside, LinesGoAway, RemoveLineGone DEF RevokeLine, history
<1>3. CASE RevokeKill(c)
  <2>1. Section(c)'
    BY <1>3, GotoType DEF RevokeKill, Section, Sections, CmdPc, OpenInvites, files
  <2> QED BY <1>3, <2>1, GotoType, SectionsSame, AccountedSame
          DEF RevokeKill, CmdPc, files, history
<1>4. CASE RevokeConfig(c)
  <2>1. Section(c)'
    BY <1>4, GotoType DEF RevokeConfig, Section, Sections, CmdPc, OpenInvites
  <2> QED BY <1>4, <2>1, GotoType, SectionsSame, AccountedSame DEF RevokeConfig, CmdPc, history
<1>5. CASE RevokeSave(c)
  <2>1. Sections'
    BY <1>5, AllOutside, NoneAssumption DEF RevokeSave, Release
  <2>2. OpenInvites' = {}
    BY <1>5 DEF RevokeSave, Section, Sections, OpenInvites
  <2> QED BY <2>1, <2>2 DEF Accounted
<1> QED BY <1>1, <1>2, <1>3, <1>4, <1>5 DEF Revoke

(* A hello changes no line; the host it takes online was listed or becomes *)
(* so, and the host it takes offline stays listed.                         *)
LEMMA HelloListed ==
  ASSUME Accounted, UNCHANGED <<relayLines, strays, cmd>>, Listed \subseteq Listed'
  PROVE  Accounted'
BY DEF Accounted, OpenInvites, OnTheWay

LEMMA HelloOutside ==
  ASSUME Sections, UNCHANGED <<hosts, relayLines, cmd>>
  PROVE  Sections'
BY DEF Sections, Section, OpenInvites

LEMMA HelloLInv ==
  ASSUME IInv, IInv', LInv, NEW p \in Hellos,
         Hello(p) \/ TunnelDrop(p) \/ HelloCrash(p)
  PROVE  LInv'
<1> USE DEF LInv
<1> LockHeld' /\ HostMap(hosts) /\ OnlineHasPid
  BY DEF IInv, TypeInv, TypeOK
<1>1. CASE UNCHANGED <<hosts, relayLines, cmd, strays>>
  BY <1>1, HelloListed, HelloOutside DEF Listed
<1>2. ASSUME NEW n \in Names, HelloAccept(p, n) PROVE LInv'
  <2>1. Sections'
    BY <1>2, AllOutside, DisjointAssumption DEF HelloAccept, Acquire
  <2>2. n \in DOMAIN hosts /\ p \in Hellos \cup {None} /\ "online" \in Status
    BY <1>2 DEF HelloAccept, Recorded, Status
  <2>3. /\ DOMAIN hosts' = DOMAIN hosts
        /\ hosts'[n].status = "online" /\ hosts'[n].id = hosts[n].id
        /\ \A m \in DOMAIN hosts \ {n} : hosts'[m] = hosts[m]
    BY <1>2, <2>2, MarkOne DEF HelloAccept
  <2>4. Listed \subseteq Listed'
    BY <2>3 DEF Listed
  <2> QED BY <1>2, <2>1, <2>4, HelloListed DEF HelloAccept
<1>3. CASE ByeSave(p) /\ OwnRecord(p)
  <2>1. Sections'
    BY <1>3, AllOutside, NoneAssumption DEF ByeSave, Release
  <2> DEFINE n == hello[p].name
  <2>2. n \in DOMAIN hosts /\ None \in Hellos \cup {None} /\ "offline" \in Status
    BY <1>3 DEF OwnRecord, Status
  <2>3. /\ DOMAIN hosts' = DOMAIN hosts
        /\ hosts'[n].status = "offline" /\ hosts'[n].id = hosts[n].id
        /\ \A m \in DOMAIN hosts \ {n} : hosts'[m] = hosts[m]
    BY <1>3, <2>2, MarkOne DEF ByeSave
  <2>4. Listed \subseteq Listed'
    BY <2>3 DEF Listed
  <2> QED BY <1>3, <2>1, <2>4, HelloListed DEF ByeSave, history
<1>4. ByeSave(p) /\ ~OwnRecord(p) => UNCHANGED <<hosts, relayLines, cmd, strays>>
  BY DEF ByeSave, history
<1>5. \/ \E l \in relayLines : HelloConnect(p, l)
      \/ HelloRefused(p) \/ HelloPin(p) \/ HelloConfig(p) \/ HelloServe(p)
      \/ SignalKills(p) \/ SignalRunsBye(p) \/ ByeLock(p) \/ TunnelDrop(p) \/ HelloCrash(p)
      => UNCHANGED <<hosts, relayLines, cmd, strays>>
  BY DEF HelloConnect, HelloRefused, HelloPin, HelloConfig, HelloServe, SignalKills,
         SignalRunsBye, ByeLock, TunnelDrop, HelloCrash, files, history
<1> QED BY <1>1, <1>2, <1>3, <1>4, <1>5 DEF Hello

LEMMA CrashLInv ==
  ASSUME IInv, IInv', LInv, NEW c \in Terminals, CommandCrash(c)
  PROVE  LInv'
<1> cmd \in [Terminals -> CmdRec]
  BY DEF IInv, TypeInv, TypeOK
<1> QED BY FinishType, SectionsSame, AccountedSame DEF LInv, CommandCrash, Section, files

LEMMA InitLInv == Init => LInv
BY DEF Init, LInv, Sections, Section, Accounted, OpenInvites, Idle

LEMMA NextLInv == IInv /\ IInv' /\ LInv /\ [Next]_vars => LInv'
<1> SUFFICES ASSUME IInv, IInv', LInv, [Next]_vars PROVE LInv'
  OBVIOUS
<1>1. CASE UNCHANGED vars
  BY <1>1 DEF vars, files, history, LInv, Sections, Section, Accounted, OpenInvites, Listed, OnTheWay
<1> QED BY <1>1, InviteLInv, TeardownLInv, ForgetLInv, RevokeLInv, HelloLInv, CrashLInv
        DEF Next, Environment

-----------------------------------------------------------------------------
LEMMA LineInvariant == Spec => []LInv
BY Invariant, InitLInv, NextLInv, PTL DEF Spec

(* No key opens the relay without a listed host, but for the strays that   *)
(* LinesBelong names, however the commands of any number of terminals are  *)
(* interleaved and cut short.                                              *)
THEOREM LinesHaveHosts == Spec => []LinesBelong
<1>1. IInv /\ LInv => LinesBelong
  <2> SUFFICES ASSUME IInv, LInv, lock = None PROVE OpenInvites \subseteq Listed \cup strays
    BY DEF LinesBelong, Listed
  <2>1. OnTheWay = {}
    BY NoneAssumption DEF IInv, LockHeld, InLockPc, OnTheWay
  <2> QED BY <2>1 DEF LInv, Accounted
<1> QED BY <1>1, Invariant, LineInvariant, PTL

(* revoke --all, when it is done, has closed every line and every host,    *)
(* with any number of invites, hellos and teardowns around it.             *)
THEOREM RevokeCloses == Spec => RevokeClosesEverything
<1> DEFINE Closed == \A c \in Terminals : cmd[c].pc = "r_save" /\ cmd'[c].pc = "revoked" =>
                       /\ relayLines' = {}
                       /\ \A n \in DOMAIN hosts' : hosts'[n].status = "gone"
<1>1. IInv /\ LInv /\ [Next]_vars => [Closed]_vars
  <2> SUFFICES ASSUME IInv, LInv, Next, NEW c \in Terminals,
                      cmd[c].pc = "r_save", cmd'[c].pc = "revoked"
               PROVE  /\ relayLines' = {}
                      /\ \A n \in DOMAIN hosts' : hosts'[n].status = "gone"
    BY DEF Closed
  <2> cmd \in [Terminals -> CmdRec] /\ HostMap(hosts)
    BY DEF IInv, TypeInv, TypeOK
  <2>1. RevokeSave(c)
    <3>1. ASSUME NEW d \in Terminals, Invite(d) PROVE RevokeSave(c)
      BY <3>1, FinishType, GotoType
         DEF Invite, InviteCheck, InviteRefused, InviteMint, InviteAddLine, InviteNoFunnel,
             InviteSave, Idle, CmdPc
    <3>2. ASSUME NEW d \in Terminals, Teardown(d) PROVE RevokeSave(c)
      BY <3>2, GotoType, TargetType
         DEF Teardown, TeardownAsk, TeardownTarget, TeardownLine, TeardownPin, TeardownConfig, TeardownSave,
             TeardownKill, TeardownKeys, TeardownVerify, CmdPc
    <3>3. ASSUME NEW d \in Terminals, Forget(d) PROVE RevokeSave(c)
      BY <3>3, FinishType, GotoType
         DEF Forget, ForgetLock, ForgetLine, ForgetConfig, ForgetSave, Idle, CmdPc
    <3>4. ASSUME NEW d \in Terminals, Revoke(d) PROVE RevokeSave(c)
      BY <3>4, GotoType
         DEF Revoke, RevokeLock, RevokeLine, RevokeKill, RevokeConfig, RevokeSave, Idle, CmdPc
    <3>5. ASSUME NEW p \in Hellos, Hello(p) \/ TunnelDrop(p) \/ HelloCrash(p) PROVE cmd' = cmd
      BY <3>5
         DEF Hello, HelloConnect, HelloRefused, HelloAccept, HelloPin, HelloConfig, HelloServe,
             SignalKills, SignalRunsBye, ByeLock, ByeSave, TunnelDrop, HelloCrash
    <3>6. ASSUME NEW d \in Terminals, CommandCrash(d) PROVE RevokeSave(c)
      BY <3>6, FinishType DEF CommandCrash
    <3> QED BY <3>1, <3>2, <3>3, <3>4, <3>5, <3>6 DEF Next, Environment
  <2>2. OpenInvites = {}
    BY DEF LInv, Sections, Section
  <2>3. relayLines = {}
    BY <2>2 DEF OpenInvites
  <2> QED BY <2>1, <2>3, AllGoneType DEF RevokeSave
<1>2. [][Closed]_vars => RevokeClosesEverything
  BY PTL DEF RevokeClosesEverything
<1> QED BY <1>1, <1>2, Invariant, LineInvariant, PTL DEF Spec

-----------------------------------------------------------------------------
(* The cap on open invites.  An invite that has looked at the list and has *)
(* not written its line yet is pending: the lines and the pending invites  *)
(* together stay within the bound, whoever looked first.                   *)
Pending == {c \in Terminals : cmd[c].pc \in {"invite", "minted"}}
CapInv ==
  /\ IsFiniteSet(OpenInvites)
  /\ Cardinality(OpenInvites) + Cardinality(Pending) <= MaxOpen + Cardinality(Terminals) - 1

LEMMA PendingFinite ==
  /\ IsFiniteSet(Pending) /\ Cardinality(Pending) \in Nat
  /\ Cardinality(Terminals) \in Nat /\ Cardinality(Pending) <= Cardinality(Terminals)
<1>1. Pending \in SUBSET Terminals
  BY DEF Pending
<1> QED BY <1>1, TerminalsAssumption, FS_Subset, FS_CardinalityType

(* Fewer lines and fewer pending invites.                                  *)
LEMMA CapFewer ==
  ASSUME CapInv, OpenInvites' \subseteq OpenInvites, Pending' \subseteq Pending
  PROVE  CapInv'
<1>1. IsFiniteSet(OpenInvites') /\ Cardinality(OpenInvites') <= Cardinality(OpenInvites)
  BY FS_Subset DEF CapInv
<1>2. Cardinality(Pending') <= Cardinality(Pending) /\ IsFiniteSet(Pending')
  BY PendingFinite, FS_Subset
<1>3. /\ Cardinality(OpenInvites) \in Nat /\ Cardinality(OpenInvites') \in Nat
      /\ Cardinality(Pending) \in Nat /\ Cardinality(Pending') \in Nat
      /\ Cardinality(Terminals) \in Nat /\ MaxOpen \in Nat
  BY <1>1, <1>2, PendingFinite, CapAssumption, FS_CardinalityType DEF CapInv
<1> QED BY <1>1, <1>2, <1>3 DEF CapInv

LEMMA CapCheck ==
  ASSUME CapInv, NEW c \in Terminals, InviteCheck(c)
  PROVE  CapInv'
<1>1. OpenInvites' = OpenInvites /\ Cardinality(OpenInvites) < MaxOpen
  BY DEF InviteCheck, files, OpenInvites
<1>2. /\ IsFiniteSet(Pending') /\ Cardinality(Pending') \in Nat
      /\ Cardinality(Pending') <= Cardinality(Terminals)
  <2>1. Pending' \in SUBSET Terminals
    BY DEF Pending
  <2> QED BY <2>1, TerminalsAssumption, FS_Subset, FS_CardinalityType
<1>3. Cardinality(OpenInvites) \in Nat /\ Cardinality(Terminals) \in Nat /\ MaxOpen \in Nat
  BY PendingFinite, CapAssumption, FS_CardinalityType DEF CapInv
<1> QED BY <1>1, <1>2, <1>3 DEF CapInv

LEMMA CapLine ==
  ASSUME CapInv, cmd \in [Terminals -> CmdRec], NEW c \in Terminals, InviteAddLine(c)
  PROVE  CapInv'
<1>1. OpenInvites' \subseteq OpenInvites \cup {cmd[c].h.id}
  BY DEF InviteAddLine, OpenInvites, RemoveLine
<1>2. c \in Pending /\ Pending' \subseteq Pending \ {c}
  BY GotoType DEF InviteAddLine, Pending, CmdPc
<1>3. /\ IsFiniteSet(OpenInvites \cup {cmd[c].h.id})
      /\ Cardinality(OpenInvites \cup {cmd[c].h.id}) <= Cardinality(OpenInvites) + 1
  <2>1. IsFiniteSet(OpenInvites) /\ Cardinality(OpenInvites) \in Nat
    BY FS_CardinalityType DEF CapInv
  <2>2. /\ IsFiniteSet(OpenInvites \cup {cmd[c].h.id})
        /\ Cardinality(OpenInvites \cup {cmd[c].h.id}) =
             IF cmd[c].h.id \in OpenInvites THEN Cardinality(OpenInvites)
             ELSE Cardinality(OpenInvites) + 1
    BY <2>1, FS_AddElement, Zenon
  <2> QED BY <2>1, <2>2
<1>4. /\ IsFiniteSet(OpenInvites')
      /\ Cardinality(OpenInvites') <= Cardinality(OpenInvites \cup {cmd[c].h.id})
  BY <1>1, <1>3, FS_Subset
<1>5. IsFiniteSet(Pending \ {c}) /\ Cardinality(Pending \ {c}) = Cardinality(Pending) - 1
  BY <1>2, PendingFinite, FS_RemoveElement
<1>6. IsFiniteSet(Pending') /\ Cardinality(Pending') <= Cardinality(Pending \ {c})
  BY <1>2, <1>5, FS_Subset
<1>7. /\ Cardinality(OpenInvites) \in Nat /\ Cardinality(OpenInvites') \in Nat
      /\ Cardinality(OpenInvites \cup {cmd[c].h.id}) \in Nat
      /\ Cardinality(Pending) \in Nat /\ Cardinality(Pending') \in Nat
      /\ Cardinality(Terminals) \in Nat /\ MaxOpen \in Nat
  BY <1>3, <1>4, <1>6, PendingFinite, CapAssumption, FS_CardinalityType DEF CapInv
<1> QED BY <1>3, <1>4, <1>5, <1>6, <1>7 DEF CapInv

LEMMA NextCap == CapInv /\ TypeOK /\ [Next]_vars => CapInv'
<1> SUFFICES ASSUME CapInv, TypeOK, [Next]_vars PROVE CapInv'
  OBVIOUS
<1> DEFINE Fewer == OpenInvites' \subseteq OpenInvites /\ Pending' \subseteq Pending
<1> cmd \in [Terminals -> CmdRec]
  BY DEF TypeOK
<1>1. CASE UNCHANGED vars
  BY <1>1, CapFewer DEF vars, files, OpenInvites, Pending
<1>2. ASSUME NEW c \in Terminals, Invite(c) PROVE CapInv'
  <2>1. CASE InviteCheck(c)
    BY <2>1, CapCheck
  <2>2. CASE InviteAddLine(c)
    BY <2>2, CapLine
  <2>3. CASE InviteRefused(c) \/ InviteNoFunnel(c) \/ InviteSave(c)
    <3>1. Fewer
      BY <2>3, FinishType
         DEF InviteRefused, InviteNoFunnel, InviteSave, OpenInvites, RemoveLine, Pending, files, Idle
    <3> QED BY <3>1, CapFewer
  <2>4. CASE \E n \in Names, id \in Ids : InviteMint(c, n, id)
    <3>1. Fewer
      BY <2>4 DEF InviteMint, OpenInvites, Pending
    <3> QED BY <3>1, CapFewer
  <2> QED BY <1>2, <2>1, <2>2, <2>3, <2>4 DEF Invite
<1>3. ASSUME NEW c \in Terminals, Teardown(c) PROVE CapInv'
  <2>1. Fewer
    BY <1>3, GotoType, TargetType
       DEF Teardown, TeardownAsk, TeardownTarget, TeardownLine, TeardownPin, TeardownConfig, TeardownSave,
           TeardownKill, TeardownKeys, TeardownVerify, CmdPc, OpenInvites, RemoveLine, Pending,
           files
  <2> QED BY <2>1, CapFewer
<1>4. ASSUME NEW c \in Terminals, Forget(c) PROVE CapInv'
  <2>1. OpenInvites' \subseteq OpenInvites
    BY <1>4
       DEF Forget, ForgetLock, ForgetLine, ForgetConfig, ForgetSave, OpenInvites, RemoveLine, files
  <2>2. Pending' \subseteq Pending
    <3>1. CASE ForgetLock(c) \/ \E n \in Names : ForgetLine(c, n)
      BY <3>1 DEF ForgetLock, ForgetLine, Pending, Idle
    <3>2. CASE ForgetConfig(c)
      BY <3>2, GotoType DEF ForgetConfig, Pending, CmdPc
    <3>3. CASE ForgetSave(c)
      BY <3>3, FinishType DEF ForgetSave, Pending
    <3> QED BY <1>4, <3>1, <3>2, <3>3 DEF Forget
  <2> QED BY <2>1, <2>2, CapFewer
<1>5. ASSUME NEW c \in Terminals, Revoke(c) PROVE CapInv'
  <2>1. OpenInvites' \subseteq OpenInvites
    BY <1>5
       DEF Revoke, RevokeLock, RevokeLine, RevokeKill, RevokeConfig, RevokeSave, OpenInvites,
           RemoveLine, files
  <2>2. Pending' \subseteq Pending
    <3>1. CASE RevokeLock(c)
      BY <3>1 DEF RevokeLock, Pending, Idle
    <3>2. CASE \E id \in Ids : RevokeLine(c, id)
      <4>1. \A d \in Terminals : cmd'[d].pc = cmd[d].pc
        BY <3>2 DEF RevokeLine, CmdRec
      <4> QED BY <4>1 DEF Pending
    <3>3. CASE RevokeSave(c)
      BY <3>3 DEF RevokeSave, Pending, Idle
    <3>4. CASE RevokeKill(c) \/ RevokeConfig(c)
      BY <3>4, GotoType DEF RevokeKill, RevokeConfig, Pending, CmdPc
    <3> QED BY <1>5, <3>1, <3>2, <3>3, <3>4 DEF Revoke
  <2> QED BY <2>1, <2>2, CapFewer
<1>6. ASSUME NEW p \in Hellos, Hello(p) \/ TunnelDrop(p) \/ HelloCrash(p) PROVE CapInv'
  <2>1. UNCHANGED <<relayLines, cmd>>
    BY <1>6
       DEF Hello, HelloConnect, HelloRefused, HelloAccept, HelloPin, HelloConfig, HelloServe,
           SignalKills, SignalRunsBye, ByeLock, ByeSave, TunnelDrop, HelloCrash, files
  <2> QED BY <2>1, CapFewer DEF OpenInvites, Pending
<1>7. ASSUME NEW c \in Terminals, CommandCrash(c) PROVE CapInv'
  <2>1. Fewer
    BY <1>7, FinishType DEF CommandCrash, OpenInvites, Pending, files, Idle
  <2> QED BY <2>1, CapFewer
<1> QED BY <1>1, <1>2, <1>3, <1>4, <1>5, <1>6, <1>7 DEF Next, Environment

(* What the cap comes to when every other invite has looked at the list    *)
(* before this one wrote to it.                                            *)
InviteBound == Cardinality(OpenInvites) <= MaxOpen + Cardinality(Terminals) - 1

(* "at most 5 open invites" holds up to one less than the number of        *)
(* terminals that invite at the same time, and with one terminal as it     *)
(* stands: invite.create looks at the list before it asks for the lock.    *)
THEOREM OpenInvitesBounded == Spec => []InviteBound
<1>1. Init => CapInv
  <2> SUFFICES ASSUME Init PROVE CapInv
    OBVIOUS
  <2>1. OpenInvites = {} /\ Pending = {}
    BY DEF Init, OpenInvites, Pending, Idle
  <2> QED BY <2>1, FS_EmptySet, PendingFinite, CapAssumption DEF CapInv
<1>2. CapInv => InviteBound
  <2> SUFFICES ASSUME CapInv PROVE InviteBound
    OBVIOUS
  <2>1. /\ Cardinality(OpenInvites) \in Nat /\ Cardinality(Pending) \in Nat
        /\ Cardinality(Terminals) \in Nat /\ MaxOpen \in Nat
    BY PendingFinite, CapAssumption, FS_CardinalityType DEF CapInv
  <2> QED BY <2>1 DEF CapInv, InviteBound
<1> QED BY <1>1, <1>2, Typing, NextCap, PTL DEF Spec

-----------------------------------------------------------------------------
(* The ssh config.  Unless a process died with the lock and nothing has    *)
(* been rewritten since, the config is that of hosts.json: always when     *)
(* nobody has the lock, and inside a locked section until it is rewritten, *)
(* which is for the hosts.json that the section saves next.                *)
Settled == ~torn => sshConfig = Blocks(hosts)
Told(c) ==
  /\ cmd[c].pc \in {"minted", "lined", "t_pin", "t_config", "f_lines", "r_lines", "r_config"} => Settled
  /\ cmd[c].pc = "t_save" => sshConfig = Blocks(MarkGone(cmd[c].name))
  /\ cmd[c].pc = "f_save" => sshConfig = Blocks(Without(cmd[c].todo))
  /\ cmd[c].pc = "r_save" => sshConfig = Blocks(AllGone)

ByeTold(p) == hello[p].pc \in {"bye_locked", "stuck"} => Settled

ConfigInv ==
  /\ lock = None => Settled
  /\ \A c \in Terminals : Told(c)
  /\ \A p \in Hellos : ByeTold(p)

(* Two hosts.json with the same connected hosts have the same config.      *)
LEMMA BlocksSame ==
  ASSUME NEW f, NEW g,
         \A n \in DOMAIN f : f[n].status \in {"online", "offline"} =>
           n \in DOMAIN g /\ g[n].status \in {"online", "offline"} /\ g[n].port = f[n].port,
         \A n \in DOMAIN g : g[n].status \in {"online", "offline"} =>
           n \in DOMAIN f /\ f[n].status \in {"online", "offline"} /\ f[n].port = g[n].port
  PROVE  Blocks(f) = Blocks(g)
BY DEF Blocks

(* Who has the lock after a step decides what has to be shown of it.       *)
LEMMA ConfigNobody ==
  ASSUME LockHeld', lock' = None, Settled'
  PROVE  ConfigInv'
BY NoneAssumption DEF LockHeld, InLockPc, HelloLockPc, ConfigInv, Told, ByeTold

LEMMA ConfigCommand ==
  ASSUME LockHeld', NEW c \in Terminals, lock' = c, Told(c)'
  PROVE  ConfigInv'
BY NoneAssumption, DisjointAssumption
   DEF LockHeld, InLockPc, HelloLockPc, ConfigInv, Told, ByeTold

LEMMA ConfigHello ==
  ASSUME LockHeld', NEW p \in Hellos, lock' = p, ByeTold(p)'
  PROVE  ConfigInv'
BY NoneAssumption, DisjointAssumption
   DEF LockHeld, InLockPc, HelloLockPc, ConfigInv, Told, ByeTold

(* A step outside every locked section.                                    *)
LEMMA ConfigSame ==
  ASSUME ConfigInv, UNCHANGED <<hosts, sshConfig, torn, lock>>,
         \A c \in Terminals : cmd'[c].pc \in InLockPc => cmd'[c] = cmd[c],
         \A p \in Hellos : hello'[p].pc \in HelloLockPc => hello'[p] = hello[p]
  PROVE  ConfigInv'
<1>1. Settled' <=> Settled
  BY DEF Settled
<1>2. ASSUME NEW c \in Terminals PROVE Told(c)'
  <2>1. CASE cmd'[c] = cmd[c]
    BY <1>1, <2>1 DEF ConfigInv, Told, MarkGone, Put, Without, AllGone
  <2>2. CASE cmd'[c].pc \notin InLockPc
    BY <2>2 DEF Told, InLockPc
  <2> QED BY <2>1, <2>2
<1>3. ASSUME NEW p \in Hellos PROVE ByeTold(p)'
  BY <1>1 DEF ConfigInv, ByeTold, HelloLockPc
<1> QED BY <1>1, <1>2, <1>3 DEF ConfigInv

LEMMA InviteConfig ==
  ASSUME IInv, IInv', LInv, ConfigInv, NEW c \in Terminals, Invite(c)
  PROVE  ConfigInv'
<1> cmd \in [Terminals -> CmdRec] /\ LockHeld /\ LockHeld'
  BY DEF IInv, TypeInv, TypeOK
<1>1. CASE InviteCheck(c)
  BY <1>1, ConfigSame DEF InviteCheck, Idle, InLockPc, files, history, tunnels
<1>2. CASE InviteRefused(c)
  BY <1>2, FinishType, ConfigSame DEF InviteRefused, InLockPc, files, history, tunnels
<1>3. ASSUME NEW n \in Names, NEW id \in Ids, InviteMint(c, n, id) PROVE ConfigInv'
  <2>1. cmd'[c].pc = "minted" /\ lock' = c /\ Settled'
    BY <1>3 DEF InviteMint, Acquire, ConfigInv, Settled
  <2> QED BY <2>1, ConfigCommand DEF Told
<1>4. CASE InviteAddLine(c)
  <2>1. cmd'[c].pc = "lined" /\ lock' = c /\ Settled'
    BY <1>4, GotoType
       DEF InviteAddLine, CmdPc, LockHeld, InLockPc, ConfigInv, Told, Settled, history
  <2> QED BY <2>1, ConfigCommand DEF Told
<1>5. CASE InviteNoFunnel(c)
  <2>1. lock' = None /\ Settled'
    BY <1>5 DEF InviteNoFunnel, Release, ConfigInv, Told, Settled, history
  <2> QED BY <2>1, ConfigNobody
<1>6. CASE InviteSave(c)
  <2> DEFINE n == cmd[c].name  rec == cmd[c].h
  <2>1. n \in Names /\ rec \in HostRec /\ HostMap(hosts)
    BY <1>6 DEF InviteSave, IInv, TypeInv, TypeOK, CmdHolds, HasRecord
  <2>2. n \notin DOMAIN hosts /\ rec.status = "invited"
    BY <1>6 DEF InviteSave, LInv, Section, Sections, IInv, Minting
  <2> HIDE DEF n, rec
  <2>3. /\ DOMAIN hosts' = DOMAIN hosts \cup {n} /\ hosts'[n] = rec
        /\ \A m \in DOMAIN hosts \ {n} : hosts'[m] = hosts[m]
    BY <1>6, <2>1, PutType DEF InviteSave, n, rec
  <2>4. Blocks(hosts') = Blocks(hosts)
    BY <2>2, <2>3, BlocksSame
  <2>5. lock' = None /\ Settled'
    BY <1>6, <2>4 DEF InviteSave, Release, ConfigInv, Told, Settled, history
  <2> QED BY <2>5, ConfigNobody
<1> QED BY <1>1, <1>2, <1>3, <1>4, <1>5, <1>6 DEF Invite

LEMMA TeardownConfigInv ==
  ASSUME IInv, IInv', ConfigInv, NEW c \in Terminals, Teardown(c)
  PROVE  ConfigInv'
<1> cmd \in [Terminals -> CmdRec] /\ LockHeld /\ LockHeld'
  BY DEF IInv, TypeInv, TypeOK
<1>1. ASSUME NEW n \in Names, TeardownAsk(c, n) PROVE ConfigInv'
  BY <1>1, ConfigSame DEF TeardownAsk, InLockPc, files, history, tunnels
<1>2. CASE TeardownLine(c)
  <2>1. cmd'[c].pc = "t_pin" /\ lock' = c /\ Settled'
    BY <1>2, GotoType DEF TeardownLine, CmdPc, Acquire, ConfigInv, Settled, history
  <2> QED BY <2>1, ConfigCommand DEF Told
<1>3. CASE TeardownPin(c)
  <2>1. cmd'[c].pc = "t_config" /\ lock' = c /\ Settled'
    BY <1>3, GotoType
       DEF TeardownPin, CmdPc, LockHeld, InLockPc, ConfigInv, Told, Settled, history
  <2> QED BY <2>1, ConfigCommand DEF Told
<1>4. CASE TeardownConfig(c)
  <2>1. cmd'[c].pc = "t_save" /\ cmd'[c].name = cmd[c].name /\ lock' = c
    BY <1>4, GotoType DEF TeardownConfig, CmdPc, LockHeld, InLockPc
  <2>2. Told(c)'
    BY <1>4, <2>1 DEF TeardownConfig, Told, MarkGone, Put
  <2> QED BY <2>1, <2>2, ConfigCommand
<1>5. CASE TeardownSave(c)
  <2>1. lock' = None /\ Settled'
    BY <1>5 DEF TeardownSave, Release, ConfigInv, Told, Settled
  <2> QED BY <2>1, ConfigNobody
<1>6. CASE TeardownKill(c)
  BY <1>6, GotoType, ConfigSame DEF TeardownKill, Kill, CmdPc, InLockPc, files, history
<1>7. CASE TeardownKeys(c)
  BY <1>7, GotoType, ConfigSame DEF TeardownKeys, CmdPc, InLockPc, history, tunnels
<1>8. CASE TeardownVerify(c)
  <2>1. PICK pc \in {"clean", "residue"} : Goto(c, pc)
    BY <1>8 DEF TeardownVerify
  <2> QED BY <1>8, <2>1, GotoType, ConfigSame
          DEF TeardownVerify, CmdPc, InLockPc, files, history, tunnels
<1>9. CASE TeardownTarget(c)
  BY <1>9, TargetType, ConfigSame DEF TeardownTarget, InLockPc, files, history, tunnels
<1> QED BY <1>1, <1>2, <1>3, <1>4, <1>5, <1>6, <1>7, <1>8, <1>9 DEF Teardown

LEMMA ForgetConfigInv ==
  ASSUME IInv, IInv', ConfigInv, NEW c \in Terminals, Forget(c)
  PROVE  ConfigInv'
<1> cmd \in [Terminals -> CmdRec] /\ LockHeld /\ LockHeld'
  BY DEF IInv, TypeInv, TypeOK
<1>1. CASE ForgetLock(c)
  <2>1. cmd'[c].pc = "f_lines" /\ lock' = c /\ Settled'
    BY <1>1 DEF ForgetLock, Idle, Acquire, ConfigInv, Settled, files, history
  <2> QED BY <2>1, ConfigCommand DEF Told
<1>2. ASSUME NEW n \in Names, ForgetLine(c, n) PROVE ConfigInv'
  BY <1>2, ConfigSame DEF ForgetLine, history, tunnels
<1>3. CASE ForgetConfig(c)
  <2>1. cmd'[c].pc = "f_save" /\ cmd'[c].todo = cmd[c].todo /\ lock' = c
    BY <1>3, GotoType DEF ForgetConfig, CmdPc, LockHeld, InLockPc
  <2>2. Told(c)'
    BY <1>3, <2>1 DEF ForgetConfig, Told, Without
  <2> QED BY <2>1, <2>2, ConfigCommand
<1>4. CASE ForgetSave(c)
  <2>1. lock' = None /\ Settled'
    BY <1>4 DEF ForgetSave, Release, ConfigInv, Told, Settled
  <2> QED BY <2>1, ConfigNobody
<1> QED BY <1>1, <1>2, <1>3, <1>4 DEF Forget

LEMMA RevokeConfigInv ==
  ASSUME IInv, IInv', ConfigInv, NEW c \in Terminals, Revoke(c)
  PROVE  ConfigInv'
<1> cmd \in [Terminals -> CmdRec] /\ LockHeld /\ LockHeld'
  BY DEF IInv, TypeInv, TypeOK
<1>1. CASE RevokeLock(c)
  <2>1. cmd'[c].pc = "r_lines" /\ lock' = c /\ Settled'
    BY <1>1 DEF RevokeLock, Idle, Acquire, ConfigInv, Settled, files, history
  <2> QED BY <2>1, ConfigCommand DEF Told
<1>2. ASSUME NEW id \in Ids, RevokeLine(c, id) PROVE ConfigInv'
  <2>1. cmd'[c].pc = "r_lines" /\ lock' = c /\ Settled'
    BY <1>2 DEF RevokeLine, CmdRec, LockHeld, InLockPc, ConfigInv, Told, Settled, history
  <2> QED BY <2>1, ConfigCommand DEF Told
<1>3. CASE RevokeKill(c)
  <2>1. cmd'[c].pc = "r_config" /\ lock' = c /\ Settled'
    BY <1>3, GotoType
       DEF RevokeKill, CmdPc, LockHeld, InLockPc, ConfigInv, Told, Settled, files, history
  <2> QED BY <2>1, ConfigCommand DEF Told
<1>4. CASE RevokeConfig(c)
  <2>1. cmd'[c].pc = "r_save" /\ lock' = c
    BY <1>4, GotoType DEF RevokeConfig, CmdPc, LockHeld, InLockPc
  <2>2. Told(c)'
    BY <1>4, <2>1 DEF RevokeConfig, Told, AllGone
  <2> QED BY <2>1, <2>2, ConfigCommand
<1>5. CASE RevokeSave(c)
  <2>1. lock' = None /\ Settled'
    BY <1>5 DEF RevokeSave, Release, ConfigInv, Told, Settled
  <2> QED BY <2>1, ConfigNobody
<1> QED BY <1>1, <1>2, <1>3, <1>4, <1>5 DEF Revoke

LEMMA HelloConfigInv ==
  ASSUME IInv, IInv', ConfigInv, NEW p \in Hellos, Hello(p)
  PROVE  ConfigInv'
<1> hello \in [Hellos -> HelloRec] /\ LockHeld /\ LockHeld' /\ HostMap(hosts) /\ OnlineHasPid
  BY DEF IInv, TypeInv, TypeOK
<1>1. ASSUME NEW l \in relayLines, HelloConnect(p, l) PROVE ConfigInv'
  BY <1>1, ConfigSame DEF HelloConnect, HelloLockPc, files, history
<1>2. CASE HelloRefused(p)
  BY <1>2, EndsType, ConfigSame DEF HelloRefused, HelloLockPc, files, history
<1>3. ASSUME NEW n \in Names, HelloAccept(p, n) PROVE ConfigInv'
  <2>1. hello'[p].pc = "pin" /\ lock' = p
    BY <1>3 DEF HelloAccept, Acquire, HelloRec
  <2> QED BY <2>1, ConfigHello DEF ByeTold
<1>4. CASE HelloPin(p)
  <2>1. hello'[p].pc = "config" /\ lock' = p
    BY <1>4, HelloGotoType DEF HelloPin, HelloPc, LockHeld, HelloLockPc
  <2> QED BY <2>1, ConfigHello DEF ByeTold
<1>5. CASE HelloConfig(p)
  <2>1. lock' = None /\ Settled'
    BY <1>5 DEF HelloConfig, Release, Settled
  <2> QED BY <2>1, ConfigNobody
<1>6. CASE HelloServe(p)
  BY <1>6, HelloGotoType, ConfigSame DEF HelloServe, HelloPc, HelloLockPc, files, history
<1>7. CASE SignalKills(p)
  <2>1. CASE lock = p
    <3>1. lock' = None /\ Settled'
      BY <1>7, <2>1 DEF SignalKills, Release, Settled
    <3> QED BY <3>1, ConfigNobody
  <2>2. CASE lock # p
    BY <1>7, <2>2, EndsType, ConfigSame DEF SignalKills, HelloLockPc, files
  <2> QED BY <2>1, <2>2
<1>8. CASE SignalRunsBye(p)
  <2>1. CASE hello[p].pc = "bye_locked"
    <3>1. hello'[p].pc = "stuck" /\ lock' = p /\ Settled'
      BY <1>8, <2>1, HelloGotoType
         DEF SignalRunsBye, HelloPc, LockHeld, HelloLockPc, ConfigInv, ByeTold, Settled, files,
             history
    <3> QED BY <3>1, ConfigHello DEF ByeTold
  <2>2. CASE hello[p].pc # "bye_locked"
    BY <1>8, <2>2, HelloGotoType, ConfigSame
       DEF SignalRunsBye, HelloPc, HelloLockPc, files, history
  <2> QED BY <2>1, <2>2
<1>9. CASE ByeLock(p)
  <2>1. hello'[p].pc = "bye_locked" /\ lock' = p /\ Settled'
    BY <1>9, HelloGotoType
       DEF ByeLock, HelloPc, Acquire, ConfigInv, Settled, files, history
  <2> QED BY <2>1, ConfigHello DEF ByeTold
<1>10. CASE ByeSave(p)
  <2>1. Blocks(hosts') = Blocks(hosts)
    <3>1. CASE OwnRecord(p)
      <4> DEFINE n == hello[p].name
      <4>1. /\ n \in DOMAIN hosts /\ hosts[n].status = "online"
            /\ None \in Hellos \cup {None} /\ "offline" \in Status
        BY <3>1, NoneAssumption DEF OwnRecord, OnlineHasPid, Status
      <4>2. hosts' = Put(n, Mark(hosts[n], "offline", None))
        BY <1>10, <3>1 DEF ByeSave
      <4>3. /\ DOMAIN hosts' = DOMAIN hosts
            /\ hosts'[n].status = "offline" /\ hosts'[n].port = hosts[n].port
            /\ \A m \in DOMAIN hosts \ {n} : hosts'[m] = hosts[m]
        BY <4>1, <4>2, MarkOne
      <4> HIDE DEF n
      <4> QED BY <4>1, <4>3, BlocksSame
    <3>2. CASE ~OwnRecord(p)
      BY <1>10, <3>2 DEF ByeSave
    <3> QED BY <3>1, <3>2
  <2>2. lock' = None /\ Settled'
    BY <1>10, <2>1 DEF ByeSave, Release, ConfigInv, ByeTold, Settled, history
  <2> QED BY <2>2, ConfigNobody
<1> QED BY <1>1, <1>2, <1>3, <1>4, <1>5, <1>6, <1>7, <1>8, <1>9, <1>10 DEF Hello

LEMMA EnvironmentConfig ==
  ASSUME IInv, IInv', ConfigInv, Environment
  PROVE  ConfigInv'
<1> /\ cmd \in [Terminals -> CmdRec] /\ hello \in [Hellos -> HelloRec]
    /\ LockHeld /\ LockHeld'
  BY DEF IInv, TypeInv, TypeOK
<1>1. ASSUME NEW p \in Hellos, TunnelDrop(p) PROVE ConfigInv'
  BY <1>1, ConfigSame DEF TunnelDrop, files, history
<1>2. ASSUME NEW p \in Hellos, HelloCrash(p) PROVE ConfigInv'
  <2>1. CASE lock = p
    <3>1. lock' = None /\ Settled'
      BY <1>2, <2>1 DEF HelloCrash, Release, Settled
    <3> QED BY <3>1, ConfigNobody
  <2>2. CASE lock # p
    BY <1>2, <2>2, EndsType, ConfigSame DEF HelloCrash, HelloLockPc, files
  <2> QED BY <2>1, <2>2
<1>3. ASSUME NEW c \in Terminals, CommandCrash(c) PROVE ConfigInv'
  <2>1. CASE lock = c
    <3>1. lock' = None /\ Settled'
      BY <1>3, <2>1 DEF CommandCrash, Release, Settled
    <3> QED BY <3>1, ConfigNobody
  <2>2. CASE lock # c
    BY <1>3, <2>2, FinishType, ConfigSame DEF CommandCrash, InLockPc, files, tunnels
  <2> QED BY <2>1, <2>2
<1> QED BY <1>1, <1>2, <1>3 DEF Environment

LEMMA NextConfig == IInv /\ IInv' /\ LInv /\ ConfigInv /\ [Next]_vars => ConfigInv'
<1> SUFFICES ASSUME IInv, IInv', LInv, ConfigInv, [Next]_vars PROVE ConfigInv'
  OBVIOUS
<1>1. CASE UNCHANGED vars
  BY <1>1, ConfigSame DEF vars, files, history, tunnels
<1> QED BY <1>1, InviteConfig, TeardownConfigInv, ForgetConfigInv, RevokeConfigInv,
           HelloConfigInv, EnvironmentConfig DEF Next

(* Whatever order the commands and the hellos take the lock in, the config *)
(* a person's ssh reads is that of hosts.json whenever the lock is free,   *)
(* but for a death inside the lock (tunnel.rewrite_ssh_config).            *)
THEOREM ConfigIsCurrent == Spec => []ConfigFollowsHosts
<1>1. Init => ConfigInv
  BY DEF Init, ConfigInv, Told, ByeTold, Settled, Blocks, Idle, Process
<1>2. ConfigInv => ConfigFollowsHosts
  BY DEF ConfigInv, Settled, ConfigFollowsHosts
<1> QED BY <1>1, <1>2, NextConfig, Invariant, LineInvariant, PTL DEF Spec

-----------------------------------------------------------------------------
(* hosts.json is saved by six actions, each of which ends or begins a      *)
(* locked section (state.save_hosts).                                      *)
HostsWrite ==
  \/ \E c \in Terminals : InviteSave(c) \/ TeardownSave(c) \/ ForgetSave(c) \/ RevokeSave(c)
  \/ \E p \in Hellos : ByeSave(p) \/ \E n \in Names : HelloAccept(p, n)

LEMMA HostsWriters ==
  ASSUME Next, hosts' # hosts
  PROVE  HostsWrite
BY DEF Next, HostsWrite, Environment,
   Invite, InviteCheck, InviteRefused, InviteMint, InviteAddLine, InviteNoFunnel,
   Teardown, TeardownAsk, TeardownTarget, TeardownLine, TeardownPin, TeardownConfig, TeardownKill, TeardownKeys,
   TeardownVerify, Forget, ForgetLock, ForgetLine, ForgetConfig,
   Revoke, RevokeLock, RevokeLine, RevokeKill, RevokeConfig,
   Hello, HelloConnect, HelloRefused, HelloPin, HelloConfig, HelloServe, SignalKills,
   SignalRunsBye, ByeLock, TunnelDrop, HelloCrash, CommandCrash, files

LEMMA HostsUnderLock ==
  ASSUME Next, lock' \in Terminals
  PROVE  hosts' = hosts
BY HostsWriters, NoneAssumption, DisjointAssumption
   DEF HostsWrite, InviteSave, TeardownSave, ForgetSave, RevokeSave, ByeSave, HelloAccept,
       Release, Acquire

-----------------------------------------------------------------------------
(* A record that is offline now and was online a step ago was marked by    *)
(* the hello process it names, on its own way out: no other command writes *)
(* "offline", and bye looks at hello_pid under the lock.                   *)
THEOREM OwnByeOnly == Spec => OfflineOnlyByOwnBye
<1> DEFINE Own == \A n \in DOMAIN hosts \cap DOMAIN hosts' :
                    /\ hosts[n].status = "online" /\ hosts'[n].status = "offline"
                    /\ hosts[n].id = hosts'[n].id
                    => hosts[n].pid # None /\ hello'[hosts[n].pid].pc = "dead"
<1>1. IInv /\ [Next]_vars => [Own]_vars
  <2> SUFFICES ASSUME IInv, Next, NEW n \in DOMAIN hosts \cap DOMAIN hosts',
                      hosts[n].status = "online", hosts'[n].status = "offline"
               PROVE  hosts[n].pid # None /\ hello'[hosts[n].pid].pc = "dead"
    BY DEF Own
  <2>1. /\ cmd \in [Terminals -> CmdRec] /\ hello \in [Hellos -> HelloRec] /\ HostMap(hosts)
        /\ hosts[n].pid # None /\ hosts[n] \in HostRec
        /\ hosts'[n] # hosts[n]
    BY DEF IInv, TypeInv, TypeOK, OnlineHasPid, HostMap
  <2>2. ASSUME NEW c \in Terminals, InviteSave(c) PROVE FALSE
    <3>1. /\ cmd[c].name \in Names /\ cmd[c].h \in HostRec /\ cmd[c].h.status = "invited"
          /\ hosts' = Put(cmd[c].name, cmd[c].h)
      BY <2>2 DEF InviteSave, IInv, TypeInv, CmdHolds, HasRecord, Minting
    <3>2. hosts'[n] = cmd[c].h \/ hosts'[n] = hosts[n]
      BY <2>1, <3>1, PutType
    <3> QED BY <2>1, <3>1, <3>2
  <2>3. ASSUME NEW c \in Terminals, TeardownSave(c) PROVE FALSE
    <3>1. cmd[c].name \in Names
      BY <2>3 DEF TeardownSave, IInv, TypeInv, CmdHolds, HasRecord
    <3>2. hosts'[n] = Mark(hosts[n], "gone", None)
      BY <2>1, <2>3, <3>1, MarkGoneType DEF TeardownSave
    <3> QED BY <2>1, <3>2, MarkType DEF Status
  <2>4. ASSUME NEW c \in Terminals, ForgetSave(c) PROVE FALSE
    BY <2>1, <2>4, WithoutType DEF ForgetSave
  <2>5. ASSUME NEW c \in Terminals, RevokeSave(c) PROVE FALSE
    BY <2>1, <2>5, AllGoneType DEF RevokeSave
  <2>6. ASSUME NEW p \in Hellos, NEW m \in Names, HelloAccept(p, m) PROVE FALSE
    <3>1. m \in DOMAIN hosts /\ p \in Hellos \cup {None} /\ "online" \in Status
      BY <2>6 DEF HelloAccept, Recorded, Status
    <3>2. hosts'[m].status = "online" /\ \A k \in DOMAIN hosts \ {m} : hosts'[k] = hosts[k]
      BY <2>1, <2>6, <3>1, MarkOne DEF HelloAccept
    <3> QED BY <2>1, <3>2
  <2>7. ASSUME NEW p \in Hellos, ByeSave(p) PROVE hello'[hosts[n].pid].pc = "dead"
    <3>1. OwnRecord(p)
      BY <2>1, <2>7 DEF ByeSave
    <3>2. /\ hello[p].name \in DOMAIN hosts /\ None \in Hellos \cup {None}
          /\ "offline" \in Status
          /\ hosts' = Put(hello[p].name, Mark(hosts[hello[p].name], "offline", None))
      BY <2>7, <3>1 DEF ByeSave, OwnRecord, Status
    <3>3. n = hello[p].name
      BY <2>1, <3>2, MarkOne
    <3> QED BY <2>1, <2>7, <3>1, <3>3, EndsType DEF ByeSave, OwnRecord
  <2> QED BY <2>1, <2>2, <2>3, <2>4, <2>5, <2>6, <2>7, HostsWriters DEF HostsWrite
<1>2. [][Own]_vars => OfflineOnlyByOwnBye
  BY PTL DEF OfflineOnlyByOwnBye
<1> QED BY <1>1, <1>2, Invariant, PTL DEF Spec

-----------------------------------------------------------------------------
(* Forget keeps off live hosts.  A recorded process has started, so none   *)
(* that is recorded comes to life while forget has the lock: a host it     *)
(* found not live when it began is not live when it drops the record.      *)
Started == \A n \in DOMAIN hosts : hosts[n].pid # None => hello[hosts[n].pid].pc # "none"
Spared ==
  \A c \in Terminals : cmd[c].pc \in {"f_lines", "f_save"} =>
    \A n \in cmd[c].todo \cap DOMAIN hosts : ~Live(hosts[n])
SpareInv == Started /\ Spared

(* No process starts twice, and none comes back.                           *)
LEMMA HelloMoves ==
  ASSUME TypeOK, Next, NEW q \in Hellos
  PROVE  /\ hello'[q].pc = "none" => hello[q].pc = "none"
         /\ hello'[q].pc \notin Quiet => hello[q].pc # "dead"
<1> hello \in [Hellos -> HelloRec]
  BY DEF TypeOK
<1>1. ASSUME NEW c \in Terminals, Invite(c) \/ Teardown(c) \/ Forget(c) \/ Revoke(c)
      PROVE  hello' = hello
  BY <1>1
     DEF Invite, InviteCheck, InviteRefused, InviteMint, InviteAddLine, InviteNoFunnel, InviteSave,
         Teardown, TeardownAsk, TeardownTarget, TeardownLine, TeardownPin, TeardownConfig, TeardownSave,
         TeardownKill, TeardownKeys, TeardownVerify, Kill,
         Forget, ForgetLock, ForgetLine, ForgetConfig, ForgetSave,
         Revoke, RevokeLock, RevokeLine, RevokeKill, RevokeConfig, RevokeSave, tunnels
<1>2. ASSUME NEW p \in Hellos, Hello(p) \/ HelloCrash(p)
      PROVE  /\ hello[p].pc # "dead" /\ hello'[p].pc # "none"
             /\ \A r \in Hellos \ {p} : hello'[r] = hello[r]
  <2>1. CASE \E l \in relayLines : HelloConnect(p, l)
    BY <2>1 DEF HelloConnect
  <2>2. CASE \E n \in Names : HelloAccept(p, n)
    BY <2>2 DEF HelloAccept, HelloRec
  <2>3. CASE HelloPin(p) \/ HelloConfig(p) \/ HelloServe(p) \/ ByeLock(p)
    BY <2>3, HelloGotoType DEF HelloPin, HelloConfig, HelloServe, ByeLock, HelloPc
  <2>4. CASE SignalRunsBye(p)
    <3>1. PICK pc \in {"stuck", "bye"} : HelloGoto(p, pc)
      BY <2>4 DEF SignalRunsBye
    <3> QED BY <2>4, <3>1, HelloGotoType DEF SignalRunsBye, HelloPc
  <2>5. CASE HelloRefused(p) \/ SignalKills(p) \/ ByeSave(p) \/ HelloCrash(p)
    BY <2>5, EndsType DEF HelloRefused, SignalKills, ByeSave, HelloCrash, Alive, Quiet
  <2> QED BY <1>2, <2>1, <2>2, <2>3, <2>4, <2>5 DEF Hello
<1>3. ASSUME NEW p \in Hellos, TunnelDrop(p) PROVE hello' = hello
  BY <1>3 DEF TunnelDrop
<1>4. ASSUME NEW c \in Terminals, CommandCrash(c) PROVE hello' = hello
  BY <1>4 DEF CommandCrash, tunnels
<1> QED BY <1>1, <1>2, <1>3, <1>4 DEF Next, Environment, Quiet

(* Who is recorded after a step: nobody new, but for the hello that is let *)
(* in.                                                                     *)
LEMMA PidMoves ==
  ASSUME IInv, Next, NEW n \in DOMAIN hosts'
  PROVE  \/ hosts'[n].pid = None
         \/ n \in DOMAIN hosts /\ hosts'[n].pid = hosts[n].pid
         \/ hosts'[n].pid \in Hellos /\ hello'[hosts'[n].pid].pc = "pin"
<1> DEFINE Goal == \/ hosts'[n].pid = None
                   \/ n \in DOMAIN hosts /\ hosts'[n].pid = hosts[n].pid
                   \/ hosts'[n].pid \in Hellos /\ hello'[hosts'[n].pid].pc = "pin"
<1>1. /\ cmd \in [Terminals -> CmdRec] /\ hello \in [Hellos -> HelloRec] /\ HostMap(hosts)
  BY DEF IInv, TypeInv, TypeOK
<1>2. CASE UNCHANGED hosts
  BY <1>2
<1>3. ASSUME NEW c \in Terminals, InviteSave(c) PROVE Goal
  <2>1. /\ cmd[c].name \in Names /\ cmd[c].h \in HostRec /\ cmd[c].h.pid = None
        /\ hosts' = Put(cmd[c].name, cmd[c].h)
    BY <1>3 DEF InviteSave, IInv, TypeInv, CmdHolds, HasRecord, Minting
  <2>2. /\ DOMAIN hosts' = DOMAIN hosts \cup {cmd[c].name}
        /\ hosts'[cmd[c].name] = cmd[c].h
        /\ \A m \in DOMAIN hosts \ {cmd[c].name} : hosts'[m] = hosts[m]
    BY <1>1, <2>1, PutType
  <2> QED BY <2>1, <2>2
<1>4. ASSUME NEW c \in Terminals, TeardownSave(c) PROVE Goal
  <2>1. cmd[c].name \in Names
    BY <1>4 DEF TeardownSave, IInv, TypeInv, CmdHolds, HasRecord
  <2>2. /\ n \in DOMAIN hosts
        /\ hosts'[n] = hosts[n] \/ hosts'[n] = Mark(hosts[n], "gone", None)
    BY <1>1, <1>4, <2>1, MarkGoneType DEF TeardownSave
  <2> QED BY <1>1, <2>2, MarkType DEF HostMap, Status
<1>5. ASSUME NEW c \in Terminals, ForgetSave(c) PROVE Goal
  BY <1>1, <1>5, WithoutType DEF ForgetSave
<1>6. ASSUME NEW c \in Terminals, RevokeSave(c) PROVE Goal
  <2>1. /\ n \in DOMAIN hosts
        /\ hosts'[n] = hosts[n] \/ hosts'[n] = Mark(hosts[n], "gone", None)
    BY <1>1, <1>6, AllGoneType DEF RevokeSave
  <2> QED BY <1>1, <2>1, MarkType DEF HostMap, Status
<1>7. ASSUME NEW p \in Hellos, NEW m \in Names, HelloAccept(p, m) PROVE Goal
  <2>1. m \in DOMAIN hosts /\ p \in Hellos \cup {None} /\ "online" \in Status
    BY <1>7 DEF HelloAccept, Recorded, Status
  <2>2. /\ DOMAIN hosts' = DOMAIN hosts
        /\ hosts'[m].pid = p /\ \A k \in DOMAIN hosts \ {m} : hosts'[k] = hosts[k]
    BY <1>1, <1>7, <2>1, MarkOne DEF HelloAccept
  <2>3. hello'[p].pc = "pin"
    BY <1>1, <1>7 DEF HelloAccept, HelloRec
  <2> QED BY <2>2, <2>3
<1>8. ASSUME NEW p \in Hellos, ByeSave(p) PROVE Goal
  <2>1. CASE OwnRecord(p)
    <3>1. /\ hello[p].name \in DOMAIN hosts /\ None \in Hellos \cup {None}
          /\ "offline" \in Status
          /\ hosts' = Put(hello[p].name, Mark(hosts[hello[p].name], "offline", None))
      BY <1>8, <2>1 DEF ByeSave, OwnRecord, Status
    <3>2. /\ DOMAIN hosts' = DOMAIN hosts /\ hosts'[hello[p].name].pid = None
          /\ \A k \in DOMAIN hosts \ {hello[p].name} : hosts'[k] = hosts[k]
      BY <1>1, <3>1, MarkOne
    <3> QED BY <3>2
  <2>2. CASE ~OwnRecord(p)
    BY <1>8, <2>2 DEF ByeSave
  <2> QED BY <2>1, <2>2
<1> QED BY <1>2, <1>3, <1>4, <1>5, <1>6, <1>7, <1>8, HostsWriters DEF HostsWrite

(* A forget goes on from its list, or has just made it.                    *)
LEMMA ForgetMoves ==
  ASSUME TypeOK, Next, NEW c \in Terminals, cmd'[c].pc \in {"f_lines", "f_save"}
  PROVE  \/ cmd[c].pc \in {"f_lines", "f_save"} /\ cmd'[c].todo = cmd[c].todo
         \/ ForgetLock(c)
<1> DEFINE Goal == \/ cmd[c].pc \in {"f_lines", "f_save"} /\ cmd'[c].todo = cmd[c].todo
                   \/ ForgetLock(c)
<1> cmd \in [Terminals -> CmdRec]
  BY DEF TypeOK
<1>1. CASE cmd'[c] = cmd[c]
  BY <1>1
<1>2. ASSUME NEW d \in Terminals, Invite(d) PROVE Goal
  BY <1>1, <1>2, FinishType, GotoType
     DEF Invite, InviteCheck, InviteRefused, InviteMint, InviteAddLine, InviteNoFunnel,
         InviteSave, Idle, CmdPc
<1>3. ASSUME NEW d \in Terminals, Teardown(d) PROVE Goal
  BY <1>1, <1>3, GotoType, TargetType
     DEF Teardown, TeardownAsk, TeardownTarget, TeardownLine, TeardownPin, TeardownConfig, TeardownSave,
         TeardownKill, TeardownKeys, TeardownVerify, CmdPc
<1>4. ASSUME NEW d \in Terminals, Forget(d) PROVE Goal
  BY <1>1, <1>4, FinishType, GotoType
     DEF Forget, ForgetLock, ForgetLine, ForgetConfig, ForgetSave, Idle, CmdPc
<1>5. ASSUME NEW d \in Terminals, Revoke(d) PROVE Goal
  <2>1. CASE \E id \in Ids : RevokeLine(d, id)
    BY <1>1, <2>1 DEF RevokeLine, CmdRec
  <2>2. CASE ~\E id \in Ids : RevokeLine(d, id)
    BY <1>1, <1>5, <2>2, GotoType
       DEF Revoke, RevokeLock, RevokeKill, RevokeConfig, RevokeSave, Idle, CmdPc
  <2> QED BY <2>1, <2>2
<1>6. ASSUME NEW p \in Hellos, Hello(p) \/ TunnelDrop(p) \/ HelloCrash(p) PROVE cmd' = cmd
  BY <1>6
     DEF Hello, HelloConnect, HelloRefused, HelloAccept, HelloPin, HelloConfig, HelloServe,
         SignalKills, SignalRunsBye, ByeLock, ByeSave, TunnelDrop, HelloCrash
<1>7. ASSUME NEW d \in Terminals, CommandCrash(d) PROVE Goal
  BY <1>1, <1>7, FinishType DEF CommandCrash
<1> QED BY <1>1, <1>2, <1>3, <1>4, <1>5, <1>6, <1>7 DEF Next, Environment

LEMMA NextSpare == IInv /\ IInv' /\ SpareInv /\ [Next]_vars => SpareInv'
<1> SUFFICES ASSUME IInv, IInv', SpareInv, [Next]_vars PROVE SpareInv'
  OBVIOUS
<1>1. CASE UNCHANGED vars
  BY <1>1 DEF vars, files, tunnels, SpareInv, Started, Spared, Live, Alive
<1>2. CASE Next
  <2>1. TypeOK /\ LockHeld' /\ HostMap(hosts) /\ HostMap(hosts')
    BY DEF IInv, TypeInv, TypeOK
  <2>2. Started'
    <3> SUFFICES ASSUME NEW n \in DOMAIN hosts', hosts'[n].pid # None
                 PROVE  hello'[hosts'[n].pid].pc # "none"
      BY DEF Started
    <3>1. hosts'[n].pid \in Hellos
      BY <2>1 DEF HostMap, HostRec
    <3> QED BY <1>2, <2>1, <3>1, PidMoves, HelloMoves DEF SpareInv, Started
  <2>3. ASSUME NEW c \in Terminals, cmd'[c].pc \in {"f_lines", "f_save"},
               NEW n \in cmd'[c].todo \cap DOMAIN hosts'
        PROVE  ~Live(hosts[n])'
    <3>1. hosts' = hosts
      BY <1>2, <2>1, <2>3, HostsUnderLock DEF LockHeld, InLockPc
    <3>2. ~Live(hosts[n])
      <4>1. CASE ForgetLock(c)
        BY <2>1, <2>3, <3>1, <4>1 DEF ForgetLock, ForgetTargets, NotLive, Gone, Live, Idle, TypeOK
      <4>2. CASE cmd[c].pc \in {"f_lines", "f_save"} /\ cmd'[c].todo = cmd[c].todo
        BY <2>3, <3>1, <4>2 DEF SpareInv, Spared
      <4> QED BY <1>2, <2>1, <2>3, <4>1, <4>2, ForgetMoves
    <3>3. hosts[n].pid \in Hellos \cup {None}
      BY <2>1, <2>3, <3>1 DEF HostMap, HostRec
    <3>4. CASE hosts[n].pid = None
      BY <3>1, <3>4 DEF Live, Alive
    <3>5. CASE hosts[n].pid \in Hellos /\ hosts[n].pid # None
      <4>1. hello[hosts[n].pid].pc # "none"
        BY <2>3, <3>1, <3>5 DEF SpareInv, Started
      <4>2. hello'[hosts[n].pid].pc \notin Quiet => hello[hosts[n].pid].pc \notin Quiet
        BY <1>2, <2>1, <3>5, <4>1, HelloMoves DEF Quiet
      <4> QED BY <3>1, <3>2, <4>2 DEF Live, Alive
    <3> QED BY <3>3, <3>4, <3>5
  <2> QED BY <2>2, <2>3 DEF SpareInv, Spared
<1> QED BY <1>1, <1>2

LEMMA SpareInvariant == Spec => []SpareInv
<1>1. Init => SpareInv
  BY DEF Init, SpareInv, Started, Spared, Idle
<1> QED BY <1>1, NextSpare, Invariant, PTL DEF Spec

(* "A live host is never stale": however long ago forget made its list,    *)
(* the record it drops is that of a host whose tunnel is not up.           *)
THEOREM LiveHostsStay == Spec => ForgetSparesLive
<1> DEFINE Spares == \A n \in DOMAIN hosts \ DOMAIN hosts' : ~Live(hosts[n])
<1>1. IInv /\ SpareInv /\ [Next]_vars => [Spares]_vars
  <2> SUFFICES ASSUME IInv, SpareInv, Next, NEW n \in DOMAIN hosts \ DOMAIN hosts'
               PROVE  ~Live(hosts[n])
    BY DEF Spares
  <2>1. HostMap(hosts)
    BY DEF IInv, TypeInv, TypeOK
  <2>2. ASSUME NEW c \in Terminals, InviteSave(c) PROVE FALSE
    BY <2>2 DEF InviteSave, Put
  <2>3. ASSUME NEW c \in Terminals, TeardownSave(c) PROVE FALSE
    <3>1. cmd[c].name \in Names
      BY <2>3 DEF TeardownSave, IInv, TypeInv, CmdHolds, HasRecord
    <3> QED BY <2>1, <2>3, <3>1, MarkGoneType DEF TeardownSave
  <2>4. ASSUME NEW c \in Terminals, ForgetSave(c) PROVE ~Live(hosts[n])
    BY <2>4 DEF ForgetSave, Without, SpareInv, Spared
  <2>5. ASSUME NEW c \in Terminals, RevokeSave(c) PROVE FALSE
    BY <2>1, <2>5, AllGoneType DEF RevokeSave
  <2>6. ASSUME NEW p \in Hellos, NEW m \in Names, HelloAccept(p, m) PROVE FALSE
    BY <2>6 DEF HelloAccept, Put
  <2>7. ASSUME NEW p \in Hellos, ByeSave(p) PROVE FALSE
    BY <2>7 DEF ByeSave, Put
  <2> QED BY <2>2, <2>3, <2>4, <2>5, <2>6, <2>7, HostsWriters DEF HostsWrite
<1>2. [][Spares]_vars => ForgetSparesLive
  BY PTL DEF ForgetSparesLive
<1> QED BY <1>1, <1>2, Invariant, SpareInvariant, PTL DEF Spec
=============================================================================
