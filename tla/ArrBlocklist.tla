---------------------------- MODULE ArrBlocklist ----------------------------
(***************************************************************************)
(* The arr_blocklist action (engine.ActionExecutor): one HTTP request per  *)
(* step to Sonarr or Radarr, whose queue moves on meanwhile.  The queue is *)
(* paged through, the torrent's records are deleted one by one, and one    *)
(* search asks for replacements of them all.                               *)
(***************************************************************************)
EXTENDS Naturals, Sequences, FiniteSets, SequencesExt, Sublists

CONSTANTS
    Torrent, NoTorrent,
    Record,         \* the records of the arr's queue
    DownloadOf,     \* downloadId: each record's torrent, or NoTorrent
    ArrQueues,      \* the queues considered: a record has an id, and is in one once
    PageSize        \* page_size

ASSUME ArrBlocklistAssumption ==
    /\ NoTorrent \notin Torrent
    /\ DownloadOf \in [Record -> Torrent \cup {NoTorrent}]
    /\ ArrQueues \subseteq Seq(Record)
    /\ \A q \in ArrQueues : IsInjective(q)
    /\ PageSize \in Nat \ {0}

VARIABLES
    arrQueue,       \* the arr's queue, in the order it pages
    call,           \* _execute_arr_blocklist: its step, page, and what it found
    blocklisted,    \* records deleted with blocklist=true so far
    searched        \* records a search was asked for so far

arrVars == <<arrQueue, call, blocklisted, searched>>

NoCall == [step |-> "none", page |-> 1, found |-> <<>>, next |-> 1]
RecordsOf(t) == {r \in Record : DownloadOf[r] = t}

ArrTypeOK ==
    /\ arrQueue \in Seq(Record) /\ IsInjective(arrQueue)
    /\ call \in [step : {"none", "query", "delete", "search", "done"}, page : Nat \ {0},
                 found : Seq(Record), next : Nat \ {0}]
    /\ {blocklisted, searched} \subseteq SUBSET Record

ArrInit ==
    /\ arrQueue \in ArrQueues
    /\ call = NoCall
    /\ blocklisted = {}
    /\ searched = {}

-----------------------------------------------------------------------------
BeginBlocklist ==
    /\ call' = [NoCall EXCEPT !.step = "query"]
    /\ UNCHANGED <<arrQueue, blocklisted, searched>>

\* Mutant of LastPage: pages are counted from zero in one place, from one in another.
LastPageEarly == (call.page + 1) * PageSize >= Len(arrQueue)

\* "not records" is the case of an empty queue, or of one that got shorter.
LastPage == call.page * PageSize >= Len(arrQueue)

Page ==
    LET last == call.page * PageSize
    IN SubSeq(arrQueue, last - PageSize + 1, IF last <= Len(arrQueue) THEN last ELSE Len(arrQueue))

\* _find_arr_queue_records; a torrent the arr does not know of is no error.
QueryPage(t) ==
    LET found == call.found \o Only(Page, RecordsOf(t))
    IN /\ call.step = "query"
       /\ call' = [call EXCEPT !.found = found,
                               !.page = IF LastPage THEN @ ELSE @ + 1,
                               !.step = IF ~LastPage THEN "query"
                                        ELSE IF found = <<>> THEN "done" ELSE "delete"]
       /\ UNCHANGED <<arrQueue, blocklisted, searched>>

record == call.found[call.next]
IsQueued(r) == r \in Range(arrQueue)
Deleted(r) ==
    /\ arrQueue' = Only(arrQueue, Record \ {r})
    /\ blocklisted' = blocklisted \cup {r}
    /\ UNCHANGED searched

DeleteRecord(search) ==
    /\ call.step = "delete"
    /\ IsQueued(record)
    /\ Deleted(record)
    /\ call' = [call EXCEPT !.next = @ + 1,
                            !.step = IF call.next < Len(call.found) THEN "delete"
                                     ELSE IF search THEN "search" ELSE "done"]

Search ==
    /\ call.step = "search"
    /\ searched' = searched \cup Range(call.found)
    /\ call' = [call EXCEPT !.step = "done"]
    /\ UNCHANGED <<arrQueue, blocklisted>>

\* Every error returns at once, whatever is left to do: a record that left the
\* queue since it was found (404), or a request that failed, obeyed or not.
RecordGone ==
    /\ call.step = "delete"
    /\ ~IsQueued(record)
    /\ call' = NoCall
    /\ UNCHANGED <<arrQueue, blocklisted, searched>>

RequestFails ==
    /\ call.step \in {"query", "delete", "search"}
    /\ call' = NoCall
    /\ \/ UNCHANGED <<arrQueue, blocklisted, searched>>
       \/ call.step = "delete" /\ IsQueued(record) /\ Deleted(record)
       \/ /\ call.step = "search"
          /\ searched' = searched \cup Range(call.found)
          /\ UNCHANGED <<arrQueue, blocklisted>>

\* The arr imports a download, or somebody removes it: the record leaves.
LeavesArr(r) ==
    /\ IsQueued(r)
    /\ arrQueue' = Only(arrQueue, Record \ {r})
    /\ UNCHANGED <<call, blocklisted, searched>>
=============================================================================
