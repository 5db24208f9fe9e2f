------------------------------ MODULE RaftLog ------------------------------
(***************************************************************************)
(* The in-memory log of one node: class RaftLog of                         *)
(* embkv/include/raft/log.h and embkv/src/raft/log.cpp.                    *)
(*                                                                         *)
(* The vector entries_ is a sequence.  An entry carries an index of its    *)
(* own, chosen by the leader that created it; nothing in the class ties    *)
(* that index to the position at which the entry is stored, and            *)
(* last_log_index_ is the index of the entry appended last, not the length *)
(* of the vector.  start_index_ is always its default, 0.                  *)
(***************************************************************************)
EXTENDS Naturals, Sequences

\* EntryMeta: the serialized client request is abstracted to its request id.
Entry == [term : Nat, index : Nat, request_id : Nat]

Log == [entries : Seq(Entry), last_log_index : Nat, last_log_term : Nat]

EmptyLog == [entries |-> << >>, last_log_index |-> 0, last_log_term |-> 0]

\* entry_at(index).has_value(): positions are 1-based, 0 is never present.
has_entry(log, index) == index # 0 /\ index <= Len(log.entries)

\* entry_at(index).value()
entry_at(log, index) == log.entries[index]

append_entry(log, entry) ==
    [entries        |-> Append(log.entries, entry),
     last_log_index |-> entry.index,
     last_log_term  |-> entry.term]

\* The loop that calls append_entry for each entry of a request, in order.
append_entries(log, batch) ==
    IF batch = << >> THEN log
    ELSE [entries        |-> log.entries \o batch,
          last_log_index |-> batch[Len(batch)].index,
          last_log_term  |-> batch[Len(batch)].term]

=============================================================================
