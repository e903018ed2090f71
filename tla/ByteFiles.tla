----------------------------- MODULE ByteFiles -----------------------------
(***************************************************************************)
(* What a process expects of the files it opens: a file is a sequence of   *)
(* bytes that nobody but its writers changes, a handle has a position in   *)
(* it, reading returns the bytes from there on, writing replaces or        *)
(* appends them.  Nothing here says where the bytes are kept.              *)
(***************************************************************************)
EXTENDS Integers, Sequences

CONSTANTS File, Handle, Data, Lengths,
          NoFile, Closed       \* not a content, not a cursor

VARIABLES content,   \* of a file: its bytes, NoFile when there is none
          cursor,    \* of a handle: its file and its position, or Closed
          got        \* what the last call read

vars == <<content, cursor, got>>

At(f, p) == [file |-> f, pos |-> p]
HandlesOn(f) == {h \in Handle : cursor[h] # Closed /\ cursor[h].file = f}

Init ==
  /\ content \in [File -> Seq(Data) \cup {NoFile}]
  /\ cursor = [h \in Handle |-> Closed]
  /\ got = <<>>

(* Opening creates the file when there is none; it may empty the file.     *)
Open(h, f) ==
  /\ cursor[h] = Closed
  /\ cursor' = [cursor EXCEPT ![h] = At(f, 0)]
  /\ got' = <<>>
  /\ \/ content' = [content EXCEPT ![f] = <<>>]
     \/ content[f] # NoFile /\ UNCHANGED content

Close(h) ==
  /\ cursor[h] # Closed
  /\ cursor' = [cursor EXCEPT ![h] = Closed]
  /\ got' = <<>> /\ UNCHANGED content

Remove(f) ==
  /\ HandlesOn(f) = {} /\ UNCHANGED cursor
  /\ content[f] # NoFile
  /\ content' = [content EXCEPT ![f] = NoFile]
  /\ got' = <<>>

Read(h, n) ==
  LET c == cursor[h] IN
  /\ c # Closed
  /\ cursor' = [cursor EXCEPT ![h].pos = @ + n]
  /\ c.pos + n <= Len(content[c.file])
  /\ got' = SubSeq(content[c.file], c.pos + 1, c.pos + n)
  /\ UNCHANGED content

Write(h, n, v) ==
  LET c == cursor[h]
      old == content[c.file]
      len == IF c.pos + n > Len(old) THEN c.pos + n ELSE Len(old)
  IN  /\ c # Closed
      /\ cursor' = [cursor EXCEPT ![h].pos = @ + n]
      /\ got' = <<>>
      /\ c.pos <= Len(old)
      /\ content' = [content EXCEPT ![c.file] =
                       [i \in 1..len |-> IF i \in (c.pos + 1)..(c.pos + n) THEN v ELSE old[i]]]

Next ==
  \/ \E h \in Handle, f \in File : Open(h, f)
  \/ \E h \in Handle : Close(h)
  \/ \E f \in File : Remove(f)
  \/ \E h \in Handle, n \in Lengths : Read(h, n)
  \/ \E h \in Handle, n \in Lengths, v \in Data : Write(h, n, v)

Spec == Init /\ [][Next]_vars
=============================================================================
