------------------------------ MODULE PathTree ------------------------------
(***************************************************************************)
(* What the file tree promises to those who address it by path (WebDAV,    *)
(* the sync client, search): a file system.  Each step leaves it alone,    *)
(* adds one whole subtree under a folder, takes one whole subtree away, or *)
(* moves one whole subtree to a free place outside of it.                  *)
(***************************************************************************)
EXTENDS Integers, Sequences, SequencesExt

VARIABLE fs     \* fs[p]: "folder" or "file", for every path p in use

\* The folder that holds the entry at p.
Dir(p) == Front(p)
Subtree(f, p) == {q \in DOMAIN f : IsPrefix(p, q)}

\* p is free in f and could hold an entry.
Room(f, p) == /\ p # <<>> /\ p \notin DOMAIN f
              /\ Dir(p) \in DOMAIN f /\ f[Dir(p)] = "folder"

Init == fs = [p \in {<<>>} |-> "folder"]

\* mkdir, put, and the restoring of what was removed.
Add ==
  \E p \in DOMAIN fs' :
    /\ Room(fs, p)
    /\ DOMAIN fs' = DOMAIN fs \cup Subtree(fs', p)
    /\ \A q \in DOMAIN fs : fs'[q] = fs[q]

TakeAway ==
  \E p \in DOMAIN fs \ {<<>>} :
    fs' = [q \in DOMAIN fs \ Subtree(fs, p) |-> fs[q]]

\* The place of q once the entry at from is at to.
Place(from, to, q) == IF IsPrefix(from, q) THEN to \o SubSeq(q, Len(from) + 1, Len(q))
                                           ELSE q
Move ==
  \E from \in DOMAIN fs \ {<<>>}, to \in DOMAIN fs' :
    /\ Room(fs, to) /\ ~IsPrefix(from, to)
    /\ DOMAIN fs' = {Place(from, to, q) : q \in DOMAIN fs}
    /\ \A q \in DOMAIN fs : fs'[Place(from, to, q)] = fs[q]

Next == Add \/ TakeAway \/ Move

Spec == Init /\ [][Next]_fs
=============================================================================
