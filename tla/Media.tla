--------------------------------- MODULE Media --------------------------------
(***************************************************************************)
(* Media objects: the table that names them all (livemedia/media.c), the   *)
(* filters that own their input (framed_filter.c) and the source that      *)
(* reads a file (byte_stream_file_source.c).                               *)
(*                                                                         *)
(* Every object enters the table when it is made, under the next number,   *)
(* and leaves it only when it is closed by name.  The state is a record:   *)
(* the table, from names to objects, and the next number.                  *)
(***************************************************************************)
EXTENDS Integers, Functions, SequencesExt

CONSTANTS
  FileSize,   \* bytes in the file, when there is one
  BlockSize   \* the unit in which the C library fills the buffer of a stream

ASSUME FileAssumption == FileSize \in Nat /\ BlockSize \in Nat \ {0}

NoMedium == 0
NoFile == -1     \* what the system answers when there is no such file

NewMediaTable == [table |-> << >>, next |-> 1]

Medium(kind, input) ==
  [kind |-> kind, input |-> input, fid |-> NoFile, pos |-> 0,
   awaiting |-> FALSE, have_started_reading |-> FALSE, idling |-> FALSE]

GenerateNewName(m) == m.next

AddNew(m, obj) ==
  [table |-> [n \in DOMAIN m.table \cup {m.next} |-> IF n = m.next THEN obj ELSE m.table[n]],
   next |-> m.next + 1]

(* Mutant: a filter that is closed does not close what it reads from. *)
InputsAlone(m, name) == {}

(* Closing a filter closes its input. *)
Inputs(m, name) == {m.table[name].input} \ {NoMedium}

RemoveMedia(m, names) == [m EXCEPT !.table = Restrict(@, DOMAIN @ \ names)]

(* close(): by name, and nothing for a name the table does not hold.         *)
CloseMedium(m, name) ==
  IF name \in DOMAIN m.table THEN RemoveMedia(m, {name} \cup Inputs(m, name)) ELSE m

------------------------------------------------------------------------------
(* The file source. *)

(* open_input_file(): the request is returned whether or not the file was    *)
(* opened; what the system answered is inside.                               *)
OpenInputFile(exists) == IF exists THEN 0 ELSE NoFile

NewFileSource(m, fid) == AddNew(m, [Medium("file", NoMedium) EXCEPT !.fid = fid])

(* create_new(): NULL only for a request that is NULL.                       *)
CreateNewFileSource(m, exists) == NewFileSource(m, OpenInputFile(exists))

NewFilter(m, kind, input) == AddNew(m, Medium(kind, input))

(* The first thing a request for data does is to ask the stream it made on   *)
(* the descriptor for the end of the file; there is none without a file.     *)
Readable(m, name) == m.table[name].fid # NoFile

(* A request for data; an idle handle is made unless there should be one.    *)
DoGetNextFrame(m, name) ==
  LET o == m.table[name]
  IN  [m EXCEPT !.table[name] =
         [o EXCEPT !.awaiting = TRUE, !.have_started_reading = TRUE,
                   !.idling = o.idling \/ ~o.have_started_reading]]

(* Mutant: the idle handle is freed and its flag stays. *)
StopKeepingFlag(m, name) == [m EXCEPT !.table[name].idling = FALSE]

DoStopGettingFrames(m, name) ==
  [m EXCEPT !.table[name] = [@ EXCEPT !.idling = FALSE, !.have_started_reading = FALSE]]

(* fread() on a stream opened for this read: the library takes whole blocks  *)
(* and what the caller did not ask for is lost with the stream.              *)
Fread(pos, max_size) ==
  LET taken == pos + BlockSize * ((max_size + BlockSize - 1) \div BlockSize)
      got   == IF pos + max_size <= FileSize THEN max_size ELSE FileSize - pos
  IN  [got |-> got, pos |-> IF taken <= FileSize THEN taken ELSE FileSize]

AtEnd(m, name) == m.table[name].pos = FileSize

(* do_read_from_file(): with data or with the news of the end, the reader is *)
(* told, and no longer waits.                                                *)
DoReadFromFile(m, name, max_size) ==
  LET o == m.table[name]
  IN  [m EXCEPT !.table[name] = [o EXCEPT !.pos = Fread(o.pos, max_size).pos, !.awaiting = FALSE]]

(* The idle handle runs: nobody waits and it is taken down, or it reads.     *)
FileReadableHandler(m, name, max_size) ==
  IF m.table[name].awaiting THEN DoReadFromFile(m, name, max_size)
                            ELSE DoStopGettingFrames(m, name)
===============================================================================
