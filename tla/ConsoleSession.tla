---------------------------- MODULE ConsoleSession ----------------------------
(***************************************************************************)
(* The console side of a csync session: hosts.json, the relay's            *)
(* authorized_keys, known_hosts, the ssh config and the invite keys, as    *)
(* csync/{invite,relay,tunnel,teardown,cli,state}.py read and write them.  *)
(*                                                                         *)
(* Two kinds of process run: in each of the Terminals one `csync` command  *)
(* after another (an invite, a teardown, a forget or a revoke), and one    *)
(* forced command `csync relay-hello` per tunnel a target brings up, an    *)
(* element of Hellos.  state.locked() is an flock, so a process that dies  *)
(* gives it back.  Inside the lock every file that is written is a step of *)
(* its own: a process may be killed between two of them, and some readers  *)
(* take no lock.                                                           *)
(***************************************************************************)
EXTENDS Integers, FiniteSets

CONSTANTS
  Names,      \* host names a person may type
  Ids,        \* invite ids; each is minted once (secrets.token_hex)
  Ports,      \* cfg["port_range"]
  Terminals,  \* where the CLI is run, one verb at a time
  Hellos,     \* process ids of relay-hello
  Verbs,      \* which verbs the terminals of this instance run
  MaxOpen,    \* the cap on open invites; 5 in the code
  None        \* no process, no name, nothing pinned

ASSUME SetAssumption ==
  /\ Ports \subseteq Nat
  /\ Verbs \subseteq {"invite", "teardown", "forget", "revoke"}

ASSUME CapAssumption == MaxOpen \in Nat \ {0}

ASSUME TerminalsAssumption == IsFiniteSet(Terminals)

ASSUME NoneAssumption == None \notin Names \cup Ids \cup Terminals \cup Hellos

ASSUME DisjointAssumption == Terminals \cap Hellos = {}

VARIABLES
  hosts,       \* hosts.json: a function from the recorded names
  relayLines,  \* relay authorized_keys: the lines' invite id and port
  knownHosts,  \* port -> the host whose sshd key is pinned for it
  sshConfig,   \* the Host blocks of the ssh config
  inviteKeys,  \* ids with a key directory under invites/
  lock,        \* who holds state.locked()
  cmd,         \* the commands
  hello,       \* the relay-hello processes
  bound,       \* those whose connection holds its reverse port
  signalled,   \* those with a signal not delivered yet
  minted,      \* history: ids handed out so far
  revived,     \* history: ids a hello brought back from "gone"
  torn,        \* history: a process died holding the lock, not yet repaired
  strays       \* history: ids whose record never came, or went without them

files == <<hosts, relayLines, knownHosts, sshConfig, inviteKeys>>
history == <<minted, revived, torn, strays>>
tunnels == <<hello, bound, signalled>>
vars == <<files, lock, cmd, tunnels, history>>

Status == {"invited", "online", "offline", "gone"}
HostRec == [id: Ids, status: Status, port: Ports, pid: Hellos \cup {None}]
HostMap(hs) == DOMAIN hs \subseteq Names /\ \A n \in DOMAIN hs : hs[n] \in HostRec

(* A command is waiting for its next step, named by pc; h is the record it *)
(* read or made, name the host it is about, todo what its loop has left.   *)
(* left says that a teardown found something it could not remove on the    *)
(* target.  At rest the last result is kept: "clean" and "residue" of a    *)
(* teardown, "revoked" of a revoke, "idle" for the rest.                   *)
CmdPc == {"idle", "invite", "minted", "lined",
          "asked", "reached", "t_pin", "t_config", "t_save", "t_kill", "t_keys", "t_verify",
          "f_lines", "f_config", "f_save",
          "r_lines", "r_config", "r_save", "clean", "residue", "revoked"}
InLockPc == {"minted", "lined", "t_pin", "t_config", "t_save", "f_lines", "f_config",
             "f_save", "r_lines", "r_config", "r_save"}
AtRest == {"idle", "clean", "residue", "revoked"}
CmdRec == [pc: CmdPc, name: Names \cup {None}, h: HostRec \cup {None},
           todo: SUBSET (Names \cup Ids), left: BOOLEAN]
Idle == [pc |-> "idle", name |-> None, h |-> None, todo |-> {}, left |-> FALSE]

HelloPc == {"none", "connected", "pin", "config", "greeted", "serving",
            "bye", "bye_locked", "stuck", "dead"}
HelloLockPc == {"pin", "config", "bye_locked", "stuck"}
Quiet == {"none", "dead"}
HelloRec == [pc: HelloPc, id: Ids \cup {None}, port: Ports \cup {None}, name: Names \cup {None}]
Process(pc) == [pc |-> pc, id |-> None, port |-> None, name |-> None]

-----------------------------------------------------------------------------
(* state.locked(): the flock, taken and given back.                        *)
Acquire(q) == lock = None /\ lock' = q
Release == lock' = None

(* A name written into or kept out of the dict hosts.json holds.           *)
Put(n, rec) == [m \in DOMAIN hosts \cup {n} |-> IF m = n THEN rec ELSE hosts[m]]
Without(gone) == [m \in DOMAIN hosts \ gone |-> hosts[m]]

(* tunnel.rewrite_ssh_config: a block for each host that has been online.  *)
Blocks(hs) ==
  {[name |-> n, port |-> hs[n].port] :
      n \in {m \in DOMAIN hs : hs[m].status \in {"online", "offline"}}}

RemoveLine(id) == {l \in relayLines : l.id # id}
OpenInvites == {l.id : l \in relayLines}

(* tunnel.hello_alive: os.kill(pid, 0).                                    *)
Alive(p) == p # None /\ hello[p].pc \notin Quiet
Live(h) == h.status = "online" /\ Alive(h.pid)

(* relay.listening: some tunnel holds the reverse port.                    *)
Listening == {hello[p].port : p \in bound}
OnlyOnline == {hosts[n].port : n \in {m \in DOMAIN hosts : hosts[m].status = "online"}}
Used == {hosts[n].port : n \in {m \in DOMAIN hosts : hosts[m].status # "gone"}}
PastTheRange == (Ports \cup {p + 1 : p \in Ports}) \ (Used \cup Listening)
FreePorts == Ports \ (Used \cup Listening)

(* forget takes the host that was named, or with --stale every gone host   *)
(* and those whose "expires" or "deadline" has passed.  The clock is not   *)
(* modelled: whether a time has passed is a choice wherever it is looked   *)
(* at.  No live host is taken either way.                                  *)
AnyRecord == DOMAIN hosts
NotLive == {n \in DOMAIN hosts : ~Live(hosts[n])}
Gone == {n \in DOMAIN hosts : hosts[n].status = "gone"}
ForgetTargets == {{n} : n \in NotLive} \cup {Gone \cup late : late \in SUBSET NotLive}

(* One record's status and hello_pid change together.                      *)
Mark(h, status, pid) == [h EXCEPT !.status = status, !.pid = pid]

HelloGoto(p, pc) == hello' = [hello EXCEPT ![p].pc = pc]
Goto(c, pc) == cmd' = [cmd EXCEPT ![c].pc = pc]
Finish(c) == cmd' = [cmd EXCEPT ![c] = Idle]

(* os.kill(pid, SIGTERM): the signal is pending until the process runs.    *)
Kill(pids) ==
  /\ signalled' = signalled \cup {p \in pids : Alive(p)}
  /\ UNCHANGED <<hello, bound>>

-----------------------------------------------------------------------------
(* csync invite.  The cap is looked at before the lock is asked for.       *)
InviteCheck(c) ==
  /\ "invite" \in Verbs /\ cmd[c].pc \in AtRest
  /\ Cardinality(OpenInvites) < MaxOpen
  /\ cmd' = [cmd EXCEPT ![c] = [Idle EXCEPT !.pc = "invite"]]
  /\ UNCHANGED <<files, lock, tunnels, history>>

InviteRefused(c) ==
  /\ cmd[c].pc = "invite" /\ lock = None
  /\ \E n \in Names : n \in DOMAIN hosts \/ FreePorts = {}
  /\ Finish(c)
  /\ UNCHANGED <<files, lock, tunnels, history>>

(* Lock, check the name, take the lowest free port, make the key pair.     *)
InviteMint(c, n, id) ==
  /\ cmd[c].pc = "invite" /\ n \notin DOMAIN hosts
  /\ Acquire(c)
  /\ \E port \in FreePorts :
       /\ \A other \in FreePorts : port <= other
       /\ cmd' = [cmd EXCEPT ![c] =
            [pc |-> "minted", name |-> n, todo |-> {}, left |-> FALSE,
             h |-> [id |-> id, status |-> "invited", port |-> port, pid |-> None]]]
  /\ id \notin minted
  /\ minted' = minted \cup {id}
  /\ inviteKeys' = inviteKeys \cup {id}
  /\ UNCHANGED <<hosts, relayLines, knownHosts, sshConfig, tunnels, revived, torn, strays>>

InviteAddLine(c) ==
  /\ cmd[c].pc = "minted"
  /\ relayLines' = RemoveLine(cmd[c].h.id) \cup {[id |-> cmd[c].h.id, port |-> cmd[c].h.port]}
  /\ Goto(c, "lined")
  /\ UNCHANGED <<hosts, knownHosts, sshConfig, inviteKeys, lock, tunnels, history>>

(* --route funnel and the Funnel is not publishing the relay.              *)
InviteNoFunnel(c) ==
  /\ cmd[c].pc = "lined"
  /\ relayLines' = RemoveLine(cmd[c].h.id)
  /\ Release /\ Finish(c)
  /\ UNCHANGED <<hosts, knownHosts, sshConfig, inviteKeys, tunnels, history>>

InviteSave(c) ==
  /\ cmd[c].pc = "lined"
  /\ hosts' = Put(cmd[c].name, cmd[c].h)
  /\ Release /\ Finish(c)
  /\ UNCHANGED <<relayLines, knownHosts, sshConfig, inviteKeys, tunnels, history>>

-----------------------------------------------------------------------------
(* csync teardown.  The record is read when the command starts; the        *)
(* question, the log copy and the target's own teardown come before the    *)
(* lock, so it may be old by then.  Anything left on either side, a target *)
(* that did not answer included, is residue, and the command fails.        *)
TeardownAsk(c, n) ==
  /\ "teardown" \in Verbs /\ cmd[c].pc \in AtRest
  /\ n \in DOMAIN hosts /\ hosts[n].status # "gone"
  /\ cmd' = [cmd EXCEPT ![c] = [pc |-> "asked", name |-> n, h |-> hosts[n], todo |-> {},
                                left |-> FALSE]]
  /\ UNCHANGED <<files, lock, tunnels, history>>

(* tunnel.reachable: a host that has said hello, by its block of the ssh   *)
(* config, when some tunnel holds the port and a key is pinned for it.     *)
Reachable(n, h) ==
  /\ h.status # "invited"
  /\ \E b \in sshConfig, p \in bound :
       b.name = n /\ hello[p].port = b.port /\ knownHosts[b.port] # None

(* The target's own teardown, through the tunnel: what it printed up to    *)
(* where the tunnel dropped is read, and nobody asks how it ended.  It may *)
(* name what it left behind; a target that does not answer has left all.   *)
TeardownTarget(c) ==
  /\ cmd[c].pc = "asked"
  /\ \E left \in BOOLEAN :
       /\ left \/ Reachable(cmd[c].name, cmd[c].h)
       /\ cmd' = [cmd EXCEPT ![c].pc = "reached", ![c].left = left]
  /\ UNCHANGED <<files, lock, tunnels, history>>

TeardownLine(c) ==
  /\ cmd[c].pc = "reached"
  /\ Acquire(c)
  /\ relayLines' = RemoveLine(cmd[c].h.id)
  /\ Goto(c, "t_pin")
  /\ UNCHANGED <<hosts, knownHosts, sshConfig, inviteKeys, tunnels, history>>

TeardownPin(c) ==
  /\ cmd[c].pc = "t_pin"
  /\ knownHosts' = [knownHosts EXCEPT ![cmd[c].h.port] = None]
  /\ Goto(c, "t_config")
  /\ UNCHANGED <<hosts, relayLines, sshConfig, inviteKeys, lock, tunnels, history>>

(* The record under the name is marked, whichever session it is by now.    *)
MarkGone(n) ==
  IF n \in DOMAIN hosts THEN Put(n, Mark(hosts[n], "gone", None))
  ELSE hosts

ConfigTooEarly(c) ==
  /\ cmd[c].pc = "t_config"
  /\ sshConfig' = Blocks(hosts)
  /\ Goto(c, "t_save")
  /\ UNCHANGED <<hosts, relayLines, knownHosts, inviteKeys, lock, tunnels, history>>

TeardownConfig(c) ==
  /\ cmd[c].pc = "t_config"
  /\ sshConfig' = Blocks(MarkGone(cmd[c].name))
  /\ Goto(c, "t_save")
  /\ UNCHANGED <<hosts, relayLines, knownHosts, inviteKeys, lock, tunnels, history>>

(* Not the session the person was asked about: forgotten and invited again.*)
Overtaken(c) ==
  {hosts[n].id : n \in {m \in DOMAIN hosts : m = cmd[c].name /\ hosts[m].id # cmd[c].h.id}}

TeardownSave(c) ==
  /\ cmd[c].pc = "t_save"
  /\ hosts' = MarkGone(cmd[c].name)
  /\ Release /\ Goto(c, "t_kill")
  /\ torn' = FALSE
  /\ strays' = strays \cup Overtaken(c)
  /\ UNCHANGED <<relayLines, knownHosts, sshConfig, inviteKeys, tunnels, minted, revived>>

(* The pid is the one read at the start.                                   *)
TeardownKill(c) ==
  /\ cmd[c].pc = "t_kill"
  /\ Kill({cmd[c].h.pid})
  /\ Goto(c, "t_keys")
  /\ UNCHANGED <<files, lock, history>>

TeardownKeys(c) ==
  /\ cmd[c].pc = "t_keys"
  /\ inviteKeys' = inviteKeys \ {cmd[c].h.id}
  /\ Goto(c, "t_verify")
  /\ UNCHANGED <<hosts, relayLines, knownHosts, sshConfig, lock, tunnels, history>>

TeardownVerify(c) ==
  LET h == cmd[c].h
      left == \/ h.id \in OpenInvites
              \/ \E b \in sshConfig : b.name = cmd[c].name
              \/ knownHosts[h.port] # None
              \/ h.id \in inviteKeys
              \/ cmd[c].left
  IN /\ cmd[c].pc = "t_verify"
     /\ Goto(c, IF left THEN "residue" ELSE "clean")
     /\ UNCHANGED <<files, lock, tunnels, history>>

-----------------------------------------------------------------------------
(* csync forget <name>, csync forget --stale.                              *)
ForgetLock(c) ==
  /\ "forget" \in Verbs /\ cmd[c].pc \in AtRest
  /\ Acquire(c)
  /\ \E targets \in ForgetTargets :
       cmd' = [cmd EXCEPT ![c] = [Idle EXCEPT !.pc = "f_lines", !.todo = targets]]
  /\ UNCHANGED <<files, tunnels, history>>

(* The loop over the targets: each line, then the record in memory.        *)
ForgetLine(c, n) ==
  /\ cmd[c].pc = "f_lines" /\ n \in cmd[c].todo
  /\ hosts[n].id \in OpenInvites
  /\ relayLines' = RemoveLine(hosts[n].id)
  /\ UNCHANGED <<hosts, knownHosts, sshConfig, inviteKeys, lock, cmd, tunnels, history>>

LinesKept(c) ==
  /\ cmd[c].pc = "f_lines"
  /\ sshConfig' = Blocks(Without(cmd[c].todo))
  /\ Goto(c, "f_save")
  /\ UNCHANGED <<hosts, relayLines, knownHosts, inviteKeys, lock, tunnels, history>>

ForgetConfig(c) ==
  /\ cmd[c].pc = "f_lines"
  /\ \A n \in cmd[c].todo : hosts[n].id \notin OpenInvites
  /\ sshConfig' = Blocks(Without(cmd[c].todo))
  /\ Goto(c, "f_save")
  /\ UNCHANGED <<hosts, relayLines, knownHosts, inviteKeys, lock, tunnels, history>>

ForgetSave(c) ==
  /\ cmd[c].pc = "f_save"
  /\ hosts' = Without(cmd[c].todo)
  /\ Release /\ Finish(c)
  /\ torn' = FALSE
  /\ UNCHANGED <<relayLines, knownHosts, sshConfig, inviteKeys, tunnels, minted, revived, strays>>

-----------------------------------------------------------------------------
(* csync revoke --all: every line, then every record, then the config.     *)
RevokeRecorded(c) ==
  /\ "revoke" \in Verbs /\ cmd[c].pc \in AtRest
  /\ Acquire(c)
  /\ cmd' = [cmd EXCEPT ![c] = [Idle EXCEPT !.pc = "r_lines",
                                           !.todo = {hosts[n].id : n \in DOMAIN hosts}]]
  /\ UNCHANGED <<files, tunnels, history>>

RevokeLock(c) ==
  /\ "revoke" \in Verbs /\ cmd[c].pc \in AtRest
  /\ Acquire(c)
  /\ cmd' = [cmd EXCEPT ![c] = [Idle EXCEPT !.pc = "r_lines", !.todo = OpenInvites]]
  /\ UNCHANGED <<files, tunnels, history>>

RevokeLine(c, id) ==
  /\ cmd[c].pc = "r_lines" /\ id \in cmd[c].todo
  /\ relayLines' = RemoveLine(id)
  /\ cmd' = [cmd EXCEPT ![c].todo = @ \ {id}]
  /\ UNCHANGED <<hosts, knownHosts, sshConfig, inviteKeys, lock, tunnels, history>>

AllGone ==
  [n \in DOMAIN hosts |->
     IF hosts[n].status = "gone" THEN hosts[n]
     ELSE Mark(hosts[n], "gone", None)]

RevokeKill(c) ==
  /\ cmd[c].pc = "r_lines" /\ cmd[c].todo = {}
  /\ Kill({hosts[n].pid : n \in {m \in DOMAIN hosts : hosts[m].status # "gone"}})
  /\ Goto(c, "r_config")
  /\ UNCHANGED <<files, lock, history>>

RevokeConfig(c) ==
  /\ cmd[c].pc = "r_config"
  /\ sshConfig' = Blocks(AllGone)
  /\ Goto(c, "r_save")
  /\ UNCHANGED <<hosts, relayLines, knownHosts, inviteKeys, lock, tunnels, history>>

RevokeSave(c) ==
  /\ cmd[c].pc = "r_save"
  /\ hosts' = AllGone
  /\ Release /\ cmd' = [cmd EXCEPT ![c] = [Idle EXCEPT !.pc = "revoked"]]
  /\ torn' = FALSE
  /\ UNCHANGED <<relayLines, knownHosts, sshConfig, inviteKeys, tunnels, minted, revived, strays>>

(* Ctrl-C, a kill, an exception that is not a refusal: the command ends    *)
(* where it is and the flock goes with it.                                 *)
CommandCrash(c) ==
  /\ cmd[c].pc \notin AtRest
  /\ Finish(c)
  /\ IF lock = c THEN Release /\ torn' = TRUE ELSE UNCHANGED <<lock, torn>>
  /\ strays' = strays \cup (IF cmd[c].pc = "lined" THEN {cmd[c].h.id} ELSE {})
  /\ UNCHANGED <<files, tunnels, minted, revived>>

-----------------------------------------------------------------------------
(* relay.hello_main, the forced command of one invite key.  sshd admits a  *)
(* key whose line it finds and binds the port the line permits if it is    *)
(* free; the process then starts.                                          *)
HelloConnect(p, l) ==
  /\ hello[p].pc = "none" /\ l \in relayLines
  /\ hello' = [hello EXCEPT ![p] = [pc |-> "connected", id |-> l.id, port |-> l.port,
                                    name |-> None]]
  /\ bound' = IF l.port \in Listening THEN bound ELSE bound \cup {p}
  /\ UNCHANGED <<files, lock, cmd, signalled, history>>

(* The process ends, and its connection with it.                           *)
Ends(p) ==
  /\ hello' = [hello EXCEPT ![p] = Process("dead")]
  /\ bound' = bound \ {p} /\ signalled' = signalled \ {p}

Recorded(p) == {n \in DOMAIN hosts : hosts[n].id = hello[p].id}

(* No record has the id, or the invite is past its "expires".              *)
HelloRefused(p) ==
  /\ hello[p].pc = "connected" /\ lock = None
  /\ Recorded(p) = {} \/ \E n \in Recorded(p) : hosts[n].status = "invited"
  /\ Ends(p)
  /\ UNCHANGED <<files, lock, cmd, history>>

HelloAccept(p, n) ==
  /\ hello[p].pc = "connected" /\ n \in Recorded(p)
  /\ Acquire(p)
  /\ hosts' = Put(n, Mark(hosts[n], "online", p))
  /\ hello' = [hello EXCEPT ![p].pc = "pin", ![p].name = n]
  /\ revived' = IF hosts[n].status = "gone" THEN revived \cup {hosts[n].id} ELSE revived
  /\ UNCHANGED <<relayLines, knownHosts, sshConfig, inviteKeys, cmd, bound, signalled, minted, torn, strays>>

(* The target's sshd may have no host key yet on its first hello.          *)
HelloPin(p) ==
  /\ hello[p].pc = "pin"
  /\ \/ knownHosts' = [knownHosts EXCEPT ![hello[p].port] = hello[p].name]
     \/ UNCHANGED knownHosts
  /\ HelloGoto(p, "config")
  /\ UNCHANGED <<hosts, relayLines, sshConfig, inviteKeys, lock, cmd, bound, signalled, history>>

HelloConfig(p) ==
  /\ hello[p].pc = "config"
  /\ sshConfig' = Blocks(hosts)
  /\ Release
  /\ torn' = FALSE
  /\ HelloGoto(p, "greeted")
  /\ UNCHANGED <<hosts, relayLines, knownHosts, inviteKeys, cmd, bound, signalled, minted, revived, strays>>

(* The journal entry and the notification come before the handlers.        *)
HelloServe(p) ==
  /\ hello[p].pc = "greeted"
  /\ HelloGoto(p, "serving")
  /\ UNCHANGED <<files, lock, cmd, bound, signalled, history>>

(* The connection is lost.  sshd may or may not tell the process.          *)
TunnelDrop(p) ==
  /\ p \in bound
  /\ bound' = bound \ {p}
  /\ signalled' = signalled \cup {p} \/ UNCHANGED signalled
  /\ UNCHANGED <<files, lock, cmd, hello, history>>

(* A pending signal is delivered.  Before the handlers it kills; after, it *)
(* runs bye, once more when bye is already running.  bye inside bye ends   *)
(* in os._exit if the outer one waits for the lock, and waits for ever if  *)
(* the outer one holds it: the inner flock is on a descriptor of its own.  *)
SignalKills(p) ==
  /\ p \in signalled /\ hello[p].pc \in {"connected", "pin", "config", "greeted"}
  /\ Ends(p)
  /\ IF lock = p THEN Release /\ torn' = TRUE ELSE UNCHANGED <<lock, torn>>
  /\ UNCHANGED <<files, cmd, minted, revived, strays>>

HandlersBeforeLock(p) ==
  /\ p \in signalled /\ hello[p].pc \in {"pin", "config", "greeted", "serving", "bye", "bye_locked"}
  /\ signalled' = signalled \ {p}
  /\ HelloGoto(p, IF hello[p].pc = "bye_locked" THEN "stuck" ELSE "bye")
  /\ UNCHANGED <<files, lock, cmd, bound, history>>

SignalRunsBye(p) ==
  /\ p \in signalled /\ hello[p].pc \in {"serving", "bye", "bye_locked"}
  /\ signalled' = signalled \ {p}
  /\ HelloGoto(p, IF hello[p].pc = "bye_locked" THEN "stuck" ELSE "bye")
  /\ UNCHANGED <<files, lock, cmd, bound, history>>

ByeLock(p) ==
  /\ hello[p].pc = "bye"
  /\ Acquire(p)
  /\ HelloGoto(p, "bye_locked")
  /\ UNCHANGED <<files, cmd, bound, signalled, history>>

AnyPid(p) == hello[p].name \in DOMAIN hosts
OwnRecord(p) == hello[p].name \in DOMAIN hosts /\ hosts[hello[p].name].pid = p

ByeSave(p) ==
  /\ hello[p].pc = "bye_locked"
  /\ hosts' = IF OwnRecord(p)
              THEN Put(hello[p].name, Mark(hosts[hello[p].name], "offline", None))
              ELSE hosts
  /\ Release
  /\ Ends(p)
  /\ UNCHANGED <<relayLines, knownHosts, sshConfig, inviteKeys, cmd, history>>

(* kill -9, or the console itself going down.                              *)
HelloCrash(p) ==
  /\ Alive(p)
  /\ Ends(p)
  /\ IF lock = p THEN Release /\ torn' = TRUE ELSE UNCHANGED <<lock, torn>>
  /\ UNCHANGED <<files, cmd, minted, revived, strays>>

-----------------------------------------------------------------------------
Init ==
  /\ hosts = [n \in {} |-> None]
  /\ relayLines = {} /\ sshConfig = {} /\ inviteKeys = {}
  /\ knownHosts = [q \in Ports |-> None]
  /\ lock = None
  /\ cmd = [c \in Terminals |-> Idle]
  /\ hello = [p \in Hellos |-> Process("none")] /\ bound = {} /\ signalled = {}
  /\ minted = {} /\ revived = {} /\ torn = FALSE /\ strays = {}

Invite(c) ==
  \/ InviteCheck(c) \/ InviteRefused(c)
  \/ \E n \in Names, id \in Ids : InviteMint(c, n, id)
  \/ InviteAddLine(c) \/ InviteNoFunnel(c) \/ InviteSave(c)

Teardown(c) ==
  \/ \E n \in Names : TeardownAsk(c, n)
  \/ TeardownTarget(c) \/ TeardownLine(c) \/ TeardownPin(c) \/ TeardownConfig(c) \/ TeardownSave(c)
  \/ TeardownKill(c) \/ TeardownKeys(c) \/ TeardownVerify(c)

Forget(c) ==
  \/ ForgetLock(c) \/ \E n \in Names : ForgetLine(c, n)
  \/ ForgetConfig(c) \/ ForgetSave(c)

Revoke(c) ==
  \/ RevokeLock(c) \/ \E id \in Ids : RevokeLine(c, id)
  \/ RevokeKill(c) \/ RevokeConfig(c) \/ RevokeSave(c)

Hello(p) ==
  \/ \E l \in relayLines : HelloConnect(p, l)
  \/ HelloRefused(p) \/ \E n \in Names : HelloAccept(p, n)
  \/ HelloPin(p) \/ HelloConfig(p) \/ HelloServe(p)
  \/ SignalKills(p) \/ SignalRunsBye(p) \/ ByeLock(p) \/ ByeSave(p)

Environment ==
  \/ \E p \in Hellos : TunnelDrop(p) \/ HelloCrash(p)
  \/ \E c \in Terminals : CommandCrash(c)

Next ==
  \/ \E c \in Terminals : Invite(c) \/ Teardown(c) \/ Forget(c) \/ Revoke(c)
  \/ \E p \in Hellos : Hello(p)
  \/ Environment

Spec == Init /\ [][Next]_vars

(* The kernel runs a process that has work to do, delivers its signals and *)
(* gives a waiter of flock its turn (SF: others may take the lock first).  *)
(* Nobody is obliged to start a command or a tunnel, and a command waiting *)
(* at the person's prompt need not go on.                                  *)
CommandStep(c) == lock = c /\ (Invite(c) \/ Teardown(c) \/ Forget(c) \/ Revoke(c))
HelloStep(p) == hello[p].pc # "none" /\ Hello(p)
FairSpec ==
  /\ Spec
  /\ \A c \in Terminals : WF_vars(CommandStep(c))
  /\ \A p \in Hellos : WF_vars(HelloStep(p)) /\ SF_vars(ByeLock(p))

-----------------------------------------------------------------------------
(* The type invariant: what the files hold, and what each process has in   *)
(* hand (state.save_hosts writes back only such records).                  *)
TypeOK ==
  /\ HostMap(hosts)
  /\ relayLines \subseteq [id: Ids, port: Ports]
  /\ knownHosts \in [Ports -> Names \cup {None}]
  /\ sshConfig \subseteq [name: Names, port: Ports]
  /\ inviteKeys \subseteq Ids
  /\ lock \in Terminals \cup Hellos \cup {None}
  /\ cmd \in [Terminals -> CmdRec]
  /\ hello \in [Hellos -> HelloRec]
  /\ bound \subseteq Hellos /\ signalled \subseteq Hellos
  /\ minted \subseteq Ids /\ revived \subseteq Ids /\ torn \in BOOLEAN /\ strays \subseteq Ids

(* allocate_port leaves two hosts one tunnel port only when a hello has    *)
(* brought a host back after it was torn down or revoked.                  *)
PortsDistinct ==
  \A n, m \in DOMAIN hosts :
    /\ n # m
    /\ hosts[n].status # "gone" /\ hosts[m].status # "gone"
    /\ hosts[n].port = hosts[m].port
    => hosts[n].id \in revived \/ hosts[m].id \in revived

(* hello, bye, teardown and revoke all write status and hello_pid: a host  *)
(* is online exactly when a hello process is recorded for it.              *)
OnlineHasPid ==
  \A n \in DOMAIN hosts : hosts[n].status = "online" <=> hosts[n].pid # None

(* The ssh config lists the hosts that have connected and nothing else,    *)
(* whenever nobody holds the lock and no process died half-way since the   *)
(* last time it was rewritten (tunnel.rewrite_ssh_config).                 *)
ConfigFollowsHosts == lock = None /\ ~torn => sshConfig = Blocks(hosts)

(* "at most 5 open invites" (docs/spec.md:306).                            *)
AtMostMaxOpen == Cardinality(OpenInvites) <= MaxOpen

(* A line that lets a key in belongs to a host csync ls lists, so that     *)
(* teardown and revoke can find it.  Only an invite that died between its  *)
(* line and its record, and a teardown that marked another session's       *)
(* record, leave one behind (forget, teardown, revoke: line before record).*)
LinesBelong ==
  lock = None =>
    OpenInvites \subseteq
      {hosts[n].id : n \in {m \in DOMAIN hosts : hosts[m].status # "gone"}} \cup strays

(* "the host record | csync ls no longer lists it": after a clean teardown *)
(* the session it ended is not listed again (docs/spec.md).                *)
TornDownStaysDown ==
  \A c \in Terminals : cmd[c].pc = "clean" =>
    \A n \in DOMAIN hosts : hosts[n].id = cmd[c].h.id => hosts[n].status = "gone"

(* A hello that ends takes a host offline only if it is the host's own     *)
(* current one: a reconnect that was faster than the old tunnel's end      *)
(* stays online (relay.bye).                                               *)
OfflineOnlyByOwnBye ==
  [][\A n \in DOMAIN hosts \cap DOMAIN hosts' :
       /\ hosts[n].status = "online" /\ hosts'[n].status = "offline"
       /\ hosts[n].id = hosts'[n].id
       => hosts[n].pid # None /\ hello'[hosts[n].pid].pc = "dead"]_vars

(* "A live host is never stale": the record of a host whose hello process  *)
(* runs is not dropped, however long the command held the lock (forget).   *)
ForgetSparesLive ==
  [][\A n \in DOMAIN hosts \ DOMAIN hosts' : ~Live(hosts[n])]_vars

(* When revoke --all is done, no line is left, not even one without a      *)
(* record, and no host is but gone.                                        *)
RevokeClosesEverything ==
  [][\A c \in Terminals : cmd[c].pc = "r_save" /\ cmd'[c].pc = "revoked" =>
       /\ relayLines' = {}
       /\ \A n \in DOMAIN hosts' : hosts'[n].status = "gone"]_vars

(* "marks the host offline when it drops": a hello process that has been   *)
(* told gets through its handler and ends, whoever else wants the lock     *)
(* (relay.hello_main).  One thing alone can keep it from that for ever: a  *)
(* second signal that interrupts a goodbye holding the lock, its own or    *)
(* another process's, which then waits for itself.                         *)
WaitsForItself(p) == hello[p].pc = "stuck"
ByeFinishes ==
  \A p \in Hellos : hello[p].pc = "bye" ~>
                      hello[p].pc = "dead" \/ \E q \in Hellos : WaitsForItself(q)
=============================================================================
