------------------------------ MODULE Persister ------------------------------
(***************************************************************************)
(* The two files a Raft peer keeps (src/raft/persister.cpp): the Raft      *)
(* state, a fixed-size header followed by the encoded log entries, and the *)
(* state-machine snapshot.  A file record f is                             *)
(*   term, voted, snapIdx, snapTerm, count   the header,                   *)
(*   body                                    every entry in the file, the  *)
(*                                           header counts a prefix of it, *)
(*   data                                    the snapshot file.            *)
(* A peer n is any record with term, voted, snapIdx, snapTerm and log.     *)
(* Each Torn operator is the file a process leaves that dies between the   *)
(* writes of the operation it is named for; a flush reaches the operating  *)
(* system, so what was written before is there after the restart.  The     *)
(* in-memory copy m_raftState always equals the file, and is left out.     *)
(***************************************************************************)
EXTENDS Integers, Sequences

(* EncodePersistData and the rewrite or append-only branch of SaveRaftState: *)
(* both end with exactly the given state in the file.                        *)
SaveRaftState(f, n) ==
    [term |-> n.term, voted |-> n.voted, snapIdx |-> n.snapIdx, snapTerm |-> n.snapTerm,
     count |-> Len(n.log), body |-> n.log, data |-> f.data]

(* The entries of n.log past the first old ones, as EncodePersistTail. *)
NewEntries(n, old) == SubSeq(n.log, old + 1, Len(n.log))

(* AppendRaftState applies to a file with the same snapshot boundary whose  *)
(* header counts old entries; otherwise persistAppended saves everything.   *)
Appends(f, n, old) ==
    /\ old <= Len(n.log)
    /\ f.snapIdx = n.snapIdx
    /\ f.count = old

(* persistAppended: the tail goes to the end of the file, then the header  *)
(* is rewritten in place.                                                  *)
AppendRaftState(f, n, old) ==
    IF Appends(f, n, old)
    THEN [SaveRaftState(f, n) EXCEPT !.body = f.body \o NewEntries(n, old)]
    ELSE SaveRaftState(f, n)

(* The process dies in persistAppended after the tail, before the header. *)
TornAppend(f, n, old) ==
    IF Appends(f, n, old) THEN [f EXCEPT !.body = @ \o NewEntries(n, old)] ELSE f

(* Save: both files rewritten.  CommitStagedSnapshot: both staged files     *)
(* renamed, the snapshot first.                                             *)
Save(n, data) == [SaveRaftState([data |-> data], n) EXCEPT !.data = data]

(* The process dies in CommitStagedSnapshot between the two renames. *)
TornCommit(f, data) == [f EXCEPT !.data = data]

(* readPersist: the header, and as many entries as it counts. *)
ReadPersist(f) ==
    [term |-> f.term, voted |-> f.voted, snapIdx |-> f.snapIdx, snapTerm |-> f.snapTerm,
     log |-> SubSeq(f.body, 1, f.count)]

=============================================================================
