---------------------------- MODULE ServicesWatch ----------------------------
(***************************************************************************)
(* The watch task of the services.json config source                       *)
(* (ServicesJsonSource::watch in gateway/src/config_source.rs, with        *)
(* config_sources[].watch = true): one load at start-up, then a poll of    *)
(* the file's modification time every two seconds.  Module Discovery       *)
(* connects what it sends to the merge task.                               *)
(*                                                                         *)
(* The file is written by others, in two steps: a reader may find it half  *)
(* written.  Modification times never repeat.                              *)
(***************************************************************************)
EXTENDS Naturals

CONSTANT MaxEdits   \* bound: how often the file is rewritten

Torn == MaxEdits + 1       \* a half-written file, which does not parse
Nothing == MaxEdits + 2    \* nothing sent yet

VARIABLES
  content,   \* environment: the version in the file, or Torn
  edits,     \* environment: versions written so far
  mtime,     \* environment: the file's modification time
  pc,        \* where the watch task is
  last,      \* last_modified
  read,      \* the version of the routes it is about to send
  sent       \* the version of the routes sent last

file == <<content, edits, mtime>>
vars == <<file, pc, last, read, sent>>

(* Every variable has the shape the code's types give it, and the task     *)
(* never remembers a modification time the file has not had yet.           *)
TypeOK ==
  /\ content \in 0 .. Torn
  /\ edits \in 0 .. MaxEdits
  /\ mtime \in 0 .. 2 * MaxEdits
  /\ pc \in {"start", "startSend", "stat", "sleep", "load", "send"}
  /\ last \in 0 .. mtime
  /\ read \in 0 .. Nothing
  /\ sent \in 0 .. Nothing

Init ==
  /\ content = 0 /\ edits = 0 /\ mtime = 0
  /\ pc = "start" /\ last = 0 /\ read = Nothing /\ sent = Nothing

(* load: the file as it is now.  One that does not parse is not sent. *)
Load(toSend, skip) ==
  IF content = Torn THEN pc' = skip /\ UNCHANGED read
  ELSE pc' = toSend /\ read' = content

(* The initial load ... *)
InitialLoad ==
  /\ pc = "start"
  /\ Load("startSend", "stat")
  /\ UNCHANGED <<file, last, sent>>

(* ... and its send. *)
InitialSend ==
  /\ pc = "startSend"
  /\ sent' = read
  /\ pc' = "stat"
  /\ UNCHANGED <<file, last, read>>

(* Only then is the modification time read for the first time. *)
FirstStat ==
  /\ pc = "stat"
  /\ last' = mtime
  /\ pc' = "sleep"
  /\ UNCHANGED <<file, read, sent>>

(* The sleep is over and the modification time has changed. *)
Poll ==
  /\ pc = "sleep"
  /\ mtime # last
  /\ last' = mtime
  /\ pc' = "load"
  /\ UNCHANGED <<file, read, sent>>

(* The reload of a changed file. *)
Reload ==
  /\ pc = "load"
  /\ Load("send", "sleep")
  /\ UNCHANGED <<file, last, sent>>

(* tx.send: waits while the channel is full. *)
Send ==
  /\ pc = "send"
  /\ sent' = read
  /\ pc' = "sleep"
  /\ UNCHANGED <<file, last, read>>

(* Somebody starts to rewrite the file ... *)
BeginWrite ==
  /\ content # Torn /\ edits < MaxEdits
  /\ content' = Torn
  /\ mtime' = mtime + 1
  /\ UNCHANGED <<edits, pc, last, read, sent>>

(* ... and completes it. *)
EndWrite ==
  /\ content = Torn
  /\ edits' = edits + 1
  /\ content' = edits + 1
  /\ mtime' = mtime + 1
  /\ UNCHANGED <<pc, last, read, sent>>

(* The steps of the task that stay within it; its sends, InitialSend and   *)
(* Send, need room in the channel (module Discovery).                      *)
Look == InitialLoad \/ FirstStat \/ Poll \/ Reload
===============================================================================
