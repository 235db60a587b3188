\* One device online and one not, one file, a note, a pin and a capture; the assistant found the note.
SPECIFICATION Spec
CONSTANTS
  Devices = {on, off}
  Online = {on}
  Files = {file}
  ClipImage = file
  Words = Words
  None = None
  MaxSent = 1
  MaxItems = 1
  MaxNew = 1
  Reach = {"media", "share", "notes", "camera", "captures", "conversation"}
INVARIANTS TypeOK ShownExists NoticeIsTheLastTry
PROPERTIES AttachmentKept
