------------------------- MODULE ConfigStoreProofs --------------------------
(***************************************************************************)
(* ConfigStore for any number of editors, texts, saves, edits from outside *)
(* and saves that die, and any length of the history.                      *)
(***************************************************************************)
EXTENDS ConfigStore, FiniteSetTheorems, SequenceTheorems, TLAPS

-----------------------------------------------------------------------------
(* The inductive invariant, by what each part relates.                     *)

Typed ==
    /\ file \in Readable \cup {Missing}
    /\ replaceable \in BOOLEAN
    /\ lock \in Client \cup {Nobody}
    /\ history \in Seq(Readable)
    /\ editor \in [Client -> Editor]
    /\ meddled \subseteq Client
    /\ ousted \in Text \cup {None}
    /\ {saves, reads, edits, faults} \subseteq Nat

\* The flock is held by the save that is past it, and by no other.
LockInv == \A c \in Client : editor[c].pc \in {"check"} \cup Writing <=> lock = c

\* What c has seen of the file, as long as nobody from outside wrote it meanwhile.
Seen(c) ==
    LET e == editor[c]
    IN /\ e.baseline.etag = e.baseline.content
       /\ e.pc \notin {"closed", "open"} => e.from.etag = e.from.content
       /\ e.pc \in {"backup", "prune", "replace", "create"} => Read = e.from.etag
       /\ e.pc = "rewrite" => file = Half
       /\ e.pc = "answer" => Read = e.text

SeenInv == \A c \in Client : c \notin meddled => Seen(c)

\* A history grows beyond Keep by the backup being pruned, and by saves that died.
Pruning == IF \E c \in Client : At(c, "prune") THEN 1 ELSE 0
LengthInv == Len(history) <= Keep + faults + Pruning

\* The file is torn, or about to be again by a save that found it so.
Torn ==
    \/ file = Half
    \/ \E c \in Client : editor[c].pc \in {"backup", "prune", "replace"} /\ editor[c].current = Half

\* How far back in the history the last whole text is: behind what dead saves put
\* there, and the backup of the save that is under way.
BackedUp == IF \E c \in Client : editor[c].pc \in {"prune", "replace", "rewrite"} THEN 1 ELSE 0

BackupInv ==
    /\ \A c \in Client : editor[c].pc \in {"prune", "replace"} =>
         Len(history) > 0 /\ history[1] = editor[c].current
    /\ Torn /\ ousted # None /\ faults < Keep =>
         \E i \in 1 .. Len(history) : i <= faults + BackedUp /\ history[i] = ousted

IInv == Typed /\ LockInv /\ SeenInv /\ LengthInv /\ BackupInv

LEMMA InitIInv == Init => IInv
  <1> SUFFICES ASSUME Init PROVE IInv
    OBVIOUS
  <1> USE ConfigStoreAssumption DEF Init, Closed, Pair, NoReply
  <1>1. Keep \in Nat
    OBVIOUS
  <1>2. history \in Seq(Readable) /\ Len(history) <= Keep
    <2>1. CASE history = <<>>
      BY <1>1, <2>1
    <2>2. CASE history = [i \in 1..Keep |-> Empty]
      <3>1. Empty \in Readable
        BY DEF Readable
      <3> QED
        BY <1>1, <2>2, <3>1
    <2> QED
      BY <2>1, <2>2
  <1>3. Typed
    BY <1>2 DEF Typed, Editor, Baseline, Readable, Reply
  <1>4. LockInv
    BY DEF LockInv, Writing
  <1>5. SeenInv
    BY DEF SeenInv, Seen
  <1>6. LengthInv
    BY <1>1, <1>2 DEF LengthInv, Pruning, At
  <1>7. BackupInv
    BY DEF BackupInv
  <1> QED
    BY <1>3, <1>4, <1>5, <1>6, <1>7 DEF IInv

\* A step by which only c's editor changes, outside the lock before and after, or
\* in nothing but its baseline and the reply it waits for.
LEMMA OutsideTheLock ==
  ASSUME IInv, NEW c \in Client, NEW e \in Editor, editor' = [editor EXCEPT ![c] = e],
         UNCHANGED <<file, replaceable, lock, history, ousted, faults>>,
         meddled' = meddled \/ meddled' = meddled \ {c},
         {saves', reads', edits'} \subseteq Nat,
         \/ {editor[c].pc, e.pc} \subseteq {"closed", "open", "lock"}
         \/ e.pc = editor[c].pc /\ e.current = editor[c].current,
         c \notin meddled' => Seen(c)'
  PROVE  IInv'
  <1>1. editor'[c] = e /\ \A d \in Client \ {c} : editor'[d] = editor[d]
    BY DEF IInv, Typed
  <1>2. Typed'
    BY DEF IInv, Typed
  <1>3. LockInv'
    BY <1>1 DEF IInv, LockInv, Writing
  <1>4. SeenInv'
    BY <1>1 DEF IInv, SeenInv, Seen, Read
  <1>5. LengthInv'
    <2>1. Pruning' = Pruning
      BY <1>1 DEF Pruning, At
    <2> QED
      BY <2>1 DEF IInv, LengthInv
  <1>6. BackupInv'
    <2>1. BackedUp' = BackedUp /\ Torn' = Torn
      BY <1>1 DEF BackedUp, Torn
    <2> QED
      BY <1>1, <2>1 DEF IInv, BackupInv
  <1> QED
    BY <1>2, <1>3, <1>4, <1>5, <1>6 DEF IInv

LEMMA OverIsAnEditor ==
  ASSUME Typed, NEW c \in Client
  PROVE  /\ Over(c) \in Editor
         /\ Over(c).pc = "open" /\ Over(c).baseline = editor[c].baseline
         /\ \A r \in Reply : [Over(c) EXCEPT !.reply = r] \in Editor
         /\ \A b \in Baseline : [Over(c) EXCEPT !.baseline = b] \in Editor
  BY ConfigStoreAssumption
  DEF Typed, Over, Closed, Pair, NoReply, Editor, Baseline, Readable, Reply

LEMMA ReadIsReadable == Typed => Read \in Readable
  BY ConfigStoreAssumption DEF Typed, Read, Readable

LEMMA OpenIInv ==
  ASSUME IInv, NEW c \in Client, Open(c)
  PROVE  IInv'
  <1> DEFINE e == [Closed EXCEPT !.pc = "open", !.baseline = Pair(Read)]
  <1>1. e \in Editor
    BY ConfigStoreAssumption, ReadIsReadable
    DEF IInv, Closed, Pair, NoReply, Editor, Baseline, Readable, Reply
  <1>2. editor' = [editor EXCEPT ![c] = e] /\ editor'[c] = e
    BY DEF Open, IInv, Typed
  <1>3. Seen(c)'
    <2>1. e.pc = "open" /\ e.baseline.etag = e.baseline.content
      BY DEF Closed, Pair
    <2> QED
      BY <1>2, <2>1 DEF Seen
  <1>4. {editor[c].pc, e.pc} \subseteq {"closed", "open", "lock"}
    BY DEF Open, At, Closed
  <1>5. {saves', reads', edits'} \subseteq Nat
    BY DEF Open, counters, IInv, Typed
  <1> QED
    BY <1>1, <1>2, <1>3, <1>4, <1>5, OutsideTheLock DEF Open, counters

\* A read that goes out changes what the save worked with, and no baseline.
LEMMA ReadsIInv ==
  ASSUME IInv, NEW c \in Client, At(c, "open") \/ At(c, "lock"),
         (Ends(c) /\ UNCHANGED reads) \/ \E why \in {"shown", "load"} : Reads(c, why),
         UNCHANGED <<file, replaceable, lock, history, meddled, ousted, saves, edits, faults>>
  PROVE  IInv'
  <1>1. PICK e \in Editor : /\ editor' = [editor EXCEPT ![c] = e]
                            /\ e.pc = "open" /\ e.baseline = editor[c].baseline
    <2>1. CASE Ends(c)
      BY <2>1, OverIsAnEditor DEF Ends, IInv
    <2>2. ASSUME NEW why \in {"shown", "load"}, Reads(c, why)
          PROVE  \E e \in Editor : /\ editor' = [editor EXCEPT ![c] = e]
                                   /\ e.pc = "open" /\ e.baseline = editor[c].baseline
      <3>1. [why |-> why, text |-> Read] \in Reply
        BY ReadIsReadable DEF Reply, IInv
      <3>2. [Over(c) EXCEPT !.reply = [why |-> why, text |-> Read]] \in Editor
        BY <3>1, OverIsAnEditor DEF IInv
      <3> QED
        BY <2>2, <3>2, OverIsAnEditor DEF Reads, Over, Closed, IInv
    <2> QED
      BY <2>1, <2>2
  <1>2. c \notin meddled' => Seen(c)'
    BY <1>1 DEF IInv, Typed, SeenInv, Seen
  <1>3. {saves', reads', edits'} \subseteq Nat
    BY DEF Reads, IInv, Typed
  <1>4. {editor[c].pc, e.pc} \subseteq {"closed", "open", "lock"}
    BY <1>1 DEF At
  <1> QED
    BY <1>1, <1>2, <1>3, <1>4, OutsideTheLock

LEMMA ArrivesIInv ==
  ASSUME IInv, NEW c \in Client, Arrives(c)
  PROVE  IInv'
  <1> DEFINE r == editor[c].reply
  <1>0. editor[c] \in Editor /\ r \in Reply /\ NoReply \in Reply
    BY ConfigStoreAssumption DEF IInv, Typed, Editor, Reply, NoReply, Readable
  <1>1. Pair(r.text) \in Baseline
    BY <1>0 DEF Pair, Baseline, Reply
  <1>2. {saves', reads', edits'} \subseteq Nat /\ UNCHANGED <<file, replaceable, lock, history, ousted, faults>>
    BY DEF Arrives, counters, IInv, Typed
  <1>3. CASE /\ editor' = [editor EXCEPT ![c].reply = NoReply, ![c].baseline = Pair(r.text)]
             /\ meddled' = IF At(c, "open") THEN meddled \ {c} ELSE meddled
    <2> DEFINE e == [editor[c] EXCEPT !.reply = NoReply, !.baseline = Pair(r.text)]
    <2>1. e \in Editor
      BY <1>0, <1>1 DEF Editor
    <2>2. editor' = [editor EXCEPT ![c] = e] /\ editor'[c] = e
      BY <1>3 DEF IInv, Typed
    <2>3. e.pc = editor[c].pc /\ e.current = editor[c].current /\ e.from = editor[c].from
          /\ e.text = editor[c].text /\ e.baseline = Pair(r.text)
      BY <1>0 DEF Editor
    <2>4. c \notin meddled' => Seen(c)'
      <3>1. e.baseline.etag = e.baseline.content
        BY <2>3 DEF Pair
      <3>2. e.pc # "open" => meddled' = meddled
        BY <1>3, <2>3 DEF At
      <3>3. CASE e.pc = "open"
        BY <2>2, <3>1, <3>3 DEF Seen
      <3>4. CASE e.pc # "open"
        BY <1>2, <2>2, <2>3, <3>1, <3>2, <3>4 DEF IInv, SeenInv, Seen, Read
      <3> QED
        BY <3>3, <3>4
    <2> QED
      BY <1>2, <1>3, <2>1, <2>2, <2>3, <2>4, OutsideTheLock
  <1>4. CASE editor' = [editor EXCEPT ![c].reply = NoReply] /\ UNCHANGED meddled
    <2> DEFINE e == [editor[c] EXCEPT !.reply = NoReply]
    <2>1. e \in Editor
      BY <1>0 DEF Editor
    <2>2. editor' = [editor EXCEPT ![c] = e] /\ editor'[c] = e
      BY <1>4 DEF IInv, Typed
    <2>3. e.pc = editor[c].pc /\ e.current = editor[c].current /\ e.from = editor[c].from
          /\ e.text = editor[c].text /\ e.baseline = editor[c].baseline
      BY <1>0 DEF Editor
    <2>4. c \notin meddled' => Seen(c)'
      BY <1>2, <1>4, <2>2, <2>3 DEF IInv, SeenInv, Seen, Read
    <2> QED
      BY <1>2, <1>4, <2>1, <2>2, <2>3, <2>4, OutsideTheLock
  <1> QED
    BY <1>3, <1>4 DEF Arrives

LEMMA SaveIInv ==
  ASSUME IInv, NEW c \in Client, NEW text \in Text, Save(c, text)
  PROVE  IInv'
  <1> DEFINE e == [editor[c] EXCEPT !.pc = "lock", !.text = text, !.from = editor[c].baseline]
  <1>1. e \in Editor /\ e.pc = "lock" /\ e.from = e.baseline /\ e.baseline = editor[c].baseline
    BY DEF IInv, Typed, Editor
  <1>2. editor' = [editor EXCEPT ![c] = e] /\ editor'[c] = e
    BY DEF Save, IInv, Typed
  <1>3. c \notin meddled' => Seen(c)'
    <2>1. meddled' = meddled
      BY DEF Save
    <2>2. c \notin meddled => editor[c].baseline.etag = editor[c].baseline.content
      BY DEF IInv, SeenInv, Seen
    <2> QED
      BY <1>1, <1>2, <2>1, <2>2 DEF Seen
  <1>4. {editor[c].pc, e.pc} \subseteq {"closed", "open", "lock"}
    BY <1>1 DEF Save, At
  <1>5. {saves', reads', edits'} \subseteq Nat
    BY DEF Save, IInv, Typed
  <1> QED
    BY <1>1, <1>2, <1>3, <1>4, <1>5, OutsideTheLock DEF Save
-----------------------------------------------------------------------------
(* Under the lock.                                                         *)

\* A step by which only c's editor changes, c holding the lock before or after: what
\* the parts of the invariant come to.  Nobody else is past the lock.
LEMMA UnderTheLock ==
  ASSUME IInv, NEW c \in Client, NEW e \in Editor, editor' = [editor EXCEPT ![c] = e],
         lock \in {c, Nobody}, lock' \in {c, Nobody}, UNCHANGED meddled,
         e.pc \in {"check"} \cup Writing <=> lock' = c,
         c \notin meddled => Seen(c)'
  PROVE  /\ LockInv'
         /\ SeenInv'
         /\ editor'[c] = e
         /\ Pruning = IF editor[c].pc = "prune" THEN 1 ELSE 0
         /\ Pruning' = IF e.pc = "prune" THEN 1 ELSE 0
         /\ BackedUp = IF editor[c].pc \in {"prune", "replace", "rewrite"} THEN 1 ELSE 0
         /\ BackedUp' = IF e.pc \in {"prune", "replace", "rewrite"} THEN 1 ELSE 0
         /\ Torn <=> file = Half \/ (editor[c].pc \in {"backup", "prune", "replace"} /\ editor[c].current = Half)
         /\ Torn' <=> file' = Half \/ (e.pc \in {"backup", "prune", "replace"} /\ e.current = Half)
         /\ \A d \in Client : d # c => editor'[d].pc \notin {"prune", "replace"}
  <1>1. editor'[c] = e /\ \A d \in Client : d # c => editor'[d] = editor[d]
    BY DEF IInv, Typed
  <1>2. \A d \in Client : d # c => editor[d].pc \notin {"check"} \cup Writing
    BY ConfigStoreAssumption DEF IInv, LockInv
  <1>3. LockInv'
    BY <1>1, <1>2, ConfigStoreAssumption DEF LockInv
  <1>4. SeenInv'
    BY <1>1, <1>2 DEF IInv, SeenInv, Seen, Writing
  <1>5. Pruning = IF editor[c].pc = "prune" THEN 1 ELSE 0
    BY <1>2 DEF Pruning, At, Writing
  <1>6. Pruning' = IF e.pc = "prune" THEN 1 ELSE 0
    BY <1>1, <1>2 DEF Pruning, At, Writing
  <1>7. BackedUp = IF editor[c].pc \in {"prune", "replace", "rewrite"} THEN 1 ELSE 0
    BY <1>2 DEF BackedUp, Writing
  <1>8. BackedUp' = IF e.pc \in {"prune", "replace", "rewrite"} THEN 1 ELSE 0
    BY <1>1, <1>2 DEF BackedUp, Writing
  <1>9. Torn <=> file = Half \/ (editor[c].pc \in {"backup", "prune", "replace"} /\ editor[c].current = Half)
    BY <1>2 DEF Torn, Writing
  <1>10. Torn' <=> file' = Half \/ (e.pc \in {"backup", "prune", "replace"} /\ e.current = Half)
    BY <1>1, <1>2 DEF Torn, Writing
  <1>11. \A d \in Client : d # c => editor'[d].pc \notin {"prune", "replace"}
    BY <1>1, <1>2 DEF Writing
  <1> QED
    BY <1>1, <1>3, <1>4, <1>5, <1>6, <1>7, <1>8, <1>9, <1>10, <1>11

LEMMA ConsHistory ==
  ASSUME NEW h \in Seq(Readable), NEW t \in Readable
  PROVE  /\ Cons(t, h) \in Seq(Readable)
         /\ Len(Cons(t, h)) = Len(h) + 1
         /\ Cons(t, h)[1] = t
         /\ \A i \in 1 .. Len(h) : Cons(t, h)[i + 1] = h[i]
  BY DEF Cons

\* c lets go of the lock with nothing written and no backup left behind it.
LEMMA LetsGo ==
  ASSUME IInv, NEW c \in Client, NEW b \in Baseline, lock = c, lock' = Nobody,
         editor' = [editor EXCEPT ![c] = [Over(c) EXCEPT !.baseline = b]],
         UNCHANGED <<file, replaceable, history, meddled, ousted, counters>>,
         c \notin meddled => b.etag = b.content,
         editor[c].pc # "prune",
         editor[c].pc \in {"replace", "rewrite"} => file # Half
  PROVE  IInv'
  <1> DEFINE e == [Over(c) EXCEPT !.baseline = b]
  <1>1. e \in Editor /\ e.pc = "open" /\ e.baseline = b
    BY OverIsAnEditor DEF IInv, Over, Closed
  <1>2. c \notin meddled => Seen(c)'
    BY <1>1 DEF Seen, IInv, Typed
  <1>3. Typed'
    BY <1>1 DEF IInv, Typed, counters
  <1>4. c # Nobody
    BY ConfigStoreAssumption
  <1>5. e.pc \notin {"check"} \cup Writing
    BY <1>1 DEF Writing
  <1>6. /\ LockInv' /\ SeenInv' /\ editor'[c] = e
        /\ Pruning = 0 /\ Pruning' = 0
        /\ BackedUp = IF editor[c].pc \in {"prune", "replace", "rewrite"} THEN 1 ELSE 0
        /\ BackedUp' = 0
        /\ (Torn' <=> file = Half) /\ (file = Half => Torn)
        /\ \A d \in Client : d # c => editor'[d].pc \notin {"prune", "replace"}
    BY <1>1, <1>2, <1>4, <1>5, UnderTheLock
  <1>7. LengthInv'
    BY <1>6 DEF IInv, LengthInv, counters
  <1>8. BackupInv'
    BY <1>1, <1>6 DEF IInv, BackupInv, counters
  <1> QED
    BY <1>3, <1>6, <1>7, <1>8 DEF IInv

LEMMA SaveDiesIInv ==
  ASSUME IInv, NEW c \in Client, SaveDies(c)
  PROVE  IInv'
  <1> DEFINE e == Over(c)
  <1>1. e \in Editor /\ e.pc = "open" /\ e.baseline = editor[c].baseline
    BY OverIsAnEditor DEF IInv
  <1>2. /\ lock = c /\ lock' = Nobody /\ editor' = [editor EXCEPT ![c] = e]
        /\ UNCHANGED <<file, replaceable, meddled, ousted, saves, reads, edits>>
        /\ faults' = faults + 1 /\ faults \in Nat /\ Keep \in Nat
    BY ConfigStoreAssumption DEF SaveDies, Ends, Release, IInv, Typed
  <1>3. c \notin meddled => Seen(c)'
    BY <1>1, <1>2 DEF Seen, SeenInv, IInv, Typed
  <1>4. /\ LockInv' /\ SeenInv' /\ editor'[c] = e
        /\ Pruning = IF editor[c].pc = "prune" THEN 1 ELSE 0
        /\ Pruning' = 0
        /\ BackedUp = IF editor[c].pc \in {"prune", "replace", "rewrite"} THEN 1 ELSE 0
        /\ BackedUp' = 0
        /\ (Torn' <=> file = Half) /\ (file = Half => Torn)
        /\ \A d \in Client : d # c => editor'[d].pc \notin {"prune", "replace"}
    <2>1. c # Nobody /\ e.pc \notin {"check"} \cup Writing
      BY <1>1, ConfigStoreAssumption DEF Writing
    <2> QED
      BY <1>1, <1>2, <1>3, <2>1, UnderTheLock
  <1>5. CASE history' = history
    <2>1. Typed'
      BY <1>1, <1>2, <1>5 DEF IInv, Typed
    <2>2. LengthInv'
      BY <1>2, <1>4, <1>5, LenProperties DEF IInv, Typed, LengthInv
    <2>3. BackupInv'
      BY <1>1, <1>2, <1>4, <1>5 DEF IInv, BackupInv
    <2> QED
      BY <1>4, <2>1, <2>2, <2>3 DEF IInv
  <1>6. CASE editor[c].pc = "backup" /\ history' = Cons(Half, history)
    <2>1. /\ history' \in Seq(Readable) /\ Len(history') = Len(history) + 1
          /\ \A i \in 1 .. Len(history) : history'[i + 1] = history[i]
      <3>1. history \in Seq(Readable) /\ Half \in Readable
        BY DEF IInv, Typed, Readable
      <3> QED
        BY <1>6, <3>1, ConsHistory
    <2>2. Len(history) \in Nat
      BY LenProperties DEF IInv, Typed
    <2>3. Typed'
      BY <1>1, <1>2, <2>1 DEF IInv, Typed
    <2>4. LengthInv'
      BY <1>2, <1>4, <1>6, <2>1, <2>2 DEF IInv, LengthInv
    <2>5. ASSUME file = Half, ousted # None, faults' < Keep
          PROVE  \E i \in 1 .. Len(history') : i <= faults' /\ history'[i] = ousted
      <3>1. PICK i \in 1 .. Len(history) : i <= faults /\ history[i] = ousted
        BY <1>2, <1>4, <1>6, <2>5 DEF IInv, BackupInv
      <3>2. i + 1 \in 1 .. Len(history') /\ i + 1 <= faults' /\ history'[i + 1] = ousted
        BY <1>2, <2>1, <2>2, <3>1
      <3> QED
        BY <3>2
    <2>6. BackupInv'
      BY <1>1, <1>2, <1>4, <2>5 DEF BackupInv
    <2> QED
      BY <1>4, <2>3, <2>4, <2>6 DEF IInv
  <1> QED
    BY <1>5, <1>6 DEF SaveDies, At
LEMMA LockIInv ==
  ASSUME IInv, NEW c \in Client, Lock(c)
  PROVE  IInv'
  <1> DEFINE e == [editor[c] EXCEPT !.pc = "check", !.existed = file # Missing]
  <1>1. /\ e \in Editor /\ e.pc = "check" /\ e.baseline = editor[c].baseline
        /\ e.from = editor[c].from
    BY DEF IInv, Typed, Editor
  <1>2. editor' = [editor EXCEPT ![c] = e] /\ editor'[c] = e
    BY DEF Lock, IInv, Typed
  <1>3. c \notin meddled => Seen(c)'
    <2>1. editor[c].pc = "lock" /\ meddled' = meddled
      BY DEF Lock, At
    <2>2. c \notin meddled => /\ editor[c].baseline.etag = editor[c].baseline.content
                              /\ editor[c].from.etag = editor[c].from.content
      BY <2>1 DEF IInv, SeenInv, Seen
    <2> QED
      BY <1>1, <1>2, <2>1, <2>2 DEF Seen
  <1>4. lock = Nobody /\ lock' = c /\ meddled' = meddled
    BY DEF Lock
  <1>5. /\ LockInv' /\ SeenInv'
        /\ Pruning = 0 /\ Pruning' = 0 /\ BackedUp = 0 /\ BackedUp' = 0
        /\ (Torn <=> file = Half) /\ (Torn' <=> file' = Half)
        /\ \A d \in Client : d # c => editor'[d].pc \notin {"prune", "replace"}
    BY <1>1, <1>2, <1>3, <1>4, UnderTheLock DEF Lock, At
  <1>6. Typed'
    BY <1>1, <1>2 DEF Lock, IInv, Typed, counters
  <1>7. LengthInv'
    BY <1>5 DEF Lock, IInv, LengthInv, counters
  <1>8. BackupInv'
    BY <1>1, <1>2, <1>5 DEF Lock, IInv, BackupInv, counters
  <1> QED
    BY <1>5, <1>6, <1>7, <1>8 DEF IInv

\* The two ways out of a conflict: what is there is shown, or all is left as it is.
LEMMA ConflictIInv ==
  ASSUME IInv, NEW c \in Client, editor[c].pc \in {"check", "create"}, Conflict(c),
         UNCHANGED <<file, replaceable, history, meddled, ousted, counters>>
  PROVE  IInv'
  <1>1. lock = c /\ lock' = Nobody
    BY DEF IInv, LockInv, Writing, Conflict, Release
  <1>2. CASE EndsWith(c, Pair(Read))
    <2>1. Pair(Read) \in Baseline
      BY ReadIsReadable DEF IInv, Pair, Baseline
    <2> QED
      BY <1>1, <1>2, <2>1, LetsGo DEF EndsWith, Pair
  <1>3. CASE Ends(c)
    <2>1. editor[c].baseline \in Baseline /\ Over(c).baseline = editor[c].baseline
      BY OverIsAnEditor DEF IInv, Typed, Editor
    <2>2. Over(c) = [Over(c) EXCEPT !.baseline = editor[c].baseline]
      BY <2>1 DEF Over, Closed
    <2>3. c \notin meddled => editor[c].baseline.etag = editor[c].baseline.content
      BY DEF IInv, SeenInv, Seen
    <2> QED
      BY <1>1, <1>3, <2>1, <2>2, <2>3, LetsGo DEF Ends
  <1> QED
    BY <1>2, <1>3 DEF Conflict

LEMMA CheckIInv ==
  ASSUME IInv, NEW c \in Client, Check(c)
  PROVE  IInv'
  <1>0. editor[c].pc = "check" /\ lock = c
    BY DEF Check, At, IInv, LockInv
  <1>1. CASE Conflict(c)
    BY <1>0, <1>1, ConflictIInv DEF Check
  <1>2. CASE EndsWith(c, Pair(Read)) /\ Release
    BY <1>0, <1>2, ConflictIInv DEF Check, Conflict
  <1>3. CASE editor[c].from.etag = Read /\ Proceeds(c) /\ UNCHANGED lock
    <2> DEFINE e == [editor[c] EXCEPT !.current = Read,
                                      !.pc = IF editor[c].existed THEN "backup" ELSE "create"]
    <2>1. /\ e \in Editor /\ e.pc \in {"backup", "create"} /\ e.current = Read
          /\ e.baseline = editor[c].baseline /\ e.from = editor[c].from
      BY ReadIsReadable DEF IInv, Typed, Editor, Writing
    <2>2. editor' = [editor EXCEPT ![c] = e] /\ editor'[c] = e
      BY <1>3 DEF Proceeds, IInv, Typed
    <2>3. /\ file' = file /\ history' = history /\ ousted' = ousted /\ faults' = faults
          /\ lock' = lock /\ meddled' = meddled /\ Read' = Read
      BY <1>3 DEF Check, counters, Read
    <2>4. c \notin meddled => Seen(c)'
      BY <1>0, <1>3, <2>1, <2>2, <2>3 DEF SeenInv, Seen, IInv
    <2>5. /\ LockInv' /\ SeenInv'
          /\ Pruning = 0 /\ Pruning' = 0 /\ BackedUp = 0 /\ BackedUp' = 0
          /\ (Torn <=> file = Half)
          /\ (Torn' <=> file' = Half \/ (e.pc \in {"backup", "prune", "replace"} /\ e.current = Half))
          /\ \A d \in Client : d # c => editor'[d].pc \notin {"prune", "replace"}
      <3>1. e.pc \in {"check"} \cup Writing <=> lock' = c
        BY <1>0, <2>1, <2>3 DEF Writing
      <3> QED
        BY <1>0, <2>1, <2>2, <2>3, <2>4, <3>1, UnderTheLock
    <2>6. Torn' => Torn
      BY <2>1, <2>3, <2>5, ConfigStoreAssumption DEF Read
    <2>7. Typed'
      BY <2>1, <2>2, <2>3 DEF Check, IInv, Typed, counters
    <2>8. LengthInv'
      BY <2>3, <2>5 DEF IInv, LengthInv
    <2>9. BackupInv'
      BY <2>1, <2>2, <2>3, <2>5, <2>6 DEF IInv, BackupInv
    <2> QED
      BY <2>5, <2>7, <2>8, <2>9 DEF IInv
  <1> QED
    BY <1>1, <1>2, <1>3 DEF Check
LEMMA BackupIInv ==
  ASSUME IInv, NEW c \in Client, Backup(c)
  PROVE  IInv'
  <1> DEFINE e == [editor[c] EXCEPT !.pc = "prune"]
  <1>0. editor[c].pc = "backup" /\ lock = c
    BY DEF Backup, At, IInv, LockInv, Writing
  <1>1. /\ e \in Editor /\ e.pc = "prune" /\ e.current = editor[c].current
        /\ e.baseline = editor[c].baseline /\ e.from = editor[c].from
    BY DEF IInv, Typed, Editor, Writing
  <1>2. editor' = [editor EXCEPT ![c] = e] /\ editor'[c] = e
    BY DEF Backup, Goes, IInv, Typed
  <1>3. UNCHANGED <<file, replaceable, lock, meddled, ousted, counters, Read>>
    BY DEF Backup, Read
  <1>4. c \notin meddled => Seen(c)'
    BY <1>0, <1>1, <1>2, <1>3 DEF SeenInv, Seen, IInv
  <1>5. /\ LockInv' /\ SeenInv'
        /\ Pruning = 0 /\ Pruning' = 1 /\ BackedUp = 0 /\ BackedUp' = 1
        /\ (Torn' <=> Torn)
        /\ \A d \in Client : d # c => editor'[d].pc \notin {"prune", "replace"}
    <2>1. e.pc \in {"check"} \cup Writing <=> lock' = c
      BY <1>0, <1>1, <1>3 DEF Writing
    <2> QED
      BY <1>0, <1>1, <1>2, <1>3, <1>4, <2>1, UnderTheLock
  <1>6. /\ history' \in Seq(Readable) /\ Len(history') = Len(history) + 1
        /\ history'[1] = e.current
        /\ \A i \in 1 .. Len(history) : history'[i + 1] = history[i]
    <2>1. history \in Seq(Readable) /\ editor[c].current \in Readable
      BY DEF IInv, Typed, Editor
    <2> QED
      BY <1>1, <2>1, ConsHistory DEF Backup
  <1>7. Len(history) \in Nat /\ faults \in Nat /\ faults' = faults
    BY <1>3, LenProperties DEF IInv, Typed, counters
  <1>8. Typed'
    BY <1>1, <1>2, <1>3, <1>6 DEF IInv, Typed, counters
  <1>9. LengthInv'
    BY <1>3, <1>5, <1>6, <1>7, ConfigStoreAssumption DEF IInv, LengthInv
  <1>10. ASSUME Torn, ousted # None, faults < Keep
         PROVE  \E i \in 1 .. Len(history') : i <= faults + 1 /\ history'[i] = ousted
    <2>1. PICK i \in 1 .. Len(history) : i <= faults /\ history[i] = ousted
      BY <1>5, <1>7, <1>10 DEF IInv, BackupInv
    <2>2. i + 1 \in 1 .. Len(history') /\ i + 1 <= faults + 1 /\ history'[i + 1] = ousted
      BY <1>6, <1>7, <2>1
    <2> QED
      BY <2>2
  <1>11. BackupInv'
    BY <1>2, <1>3, <1>5, <1>6, <1>7, <1>10 DEF BackupInv
  <1> QED
    BY <1>5, <1>8, <1>9, <1>11 DEF IInv

\* What is as far back as faults and the save under way can have put it is kept.
LEMMA PruneIInv ==
  ASSUME IInv, NEW c \in Client, Prune(c)
  PROVE  IInv'
  <1> DEFINE e == [editor[c] EXCEPT !.pc = "replace"]
             n == IF Len(history) > Keep THEN Keep ELSE Len(history)
  <1>0. editor[c].pc = "prune" /\ lock = c
    BY DEF Prune, At, IInv, LockInv, Writing
  <1>1. /\ e \in Editor /\ e.pc = "replace" /\ e.current = editor[c].current
        /\ e.baseline = editor[c].baseline /\ e.from = editor[c].from
    BY DEF IInv, Typed, Editor, Writing
  <1>2. editor' = [editor EXCEPT ![c] = e] /\ editor'[c] = e
    BY DEF Prune, Goes, IInv, Typed
  <1>3. UNCHANGED <<file, replaceable, lock, meddled, ousted, counters, Read>>
    BY DEF Prune, Read
  <1>4. c \notin meddled => Seen(c)'
    BY <1>0, <1>1, <1>2, <1>3 DEF SeenInv, Seen, IInv
  <1>5. /\ LockInv' /\ SeenInv'
        /\ Pruning' = 0 /\ BackedUp = 1 /\ BackedUp' = 1
        /\ (Torn' <=> Torn)
        /\ \A d \in Client : d # c => editor'[d].pc \notin {"prune", "replace"}
    <2>1. e.pc \in {"check"} \cup Writing <=> lock' = c
      BY <1>0, <1>1, <1>3 DEF Writing
    <2> QED
      BY <1>0, <1>1, <1>2, <1>3, <1>4, <2>1, UnderTheLock
  <1>6. /\ Len(history) \in Nat /\ faults \in Nat /\ faults' = faults
        /\ Keep \in Nat /\ Keep > 0 /\ Len(history) > 0
    BY <1>0, <1>3, LenProperties, ConfigStoreAssumption DEF IInv, Typed, BackupInv, counters
  <1>7. /\ history' \in Seq(Readable) /\ Len(history') = n
        /\ \A i \in 1 .. n : history'[i] = history[i]
    <2>1. n \in Int /\ 1 <= n /\ n <= Len(history)
      BY <1>6
    <2>2. \A i \in 1 .. n : history[i] \in Readable
      BY <1>6, <2>1, ElementOfSeq DEF IInv, Typed
    <2>3. history' = SubSeq(history, 1, n)
      BY DEF Prune
    <2> HIDE DEF n
    <2>4. /\ SubSeq(history, 1, n) \in Seq(Readable) /\ Len(SubSeq(history, 1, n)) = n - 1 + 1
          /\ \A i \in 1 .. n - 1 + 1 : SubSeq(history, 1, n)[i] = history[1 + i - 1]
      BY <2>1, <2>2, SubSeqProperties
    <2> QED
      BY <2>1, <2>3, <2>4
  <1>8. Typed'
    BY <1>1, <1>2, <1>3, <1>7 DEF IInv, Typed, counters
  <1>9. LengthInv'
    BY <1>3, <1>5, <1>6, <1>7 DEF LengthInv
  <1>10. ASSUME Torn, ousted # None, faults < Keep
         PROVE  \E i \in 1 .. Len(history') : i <= faults + 1 /\ history'[i] = ousted
    <2>1. PICK i \in 1 .. Len(history) : i <= faults + 1 /\ history[i] = ousted
      BY <1>5, <1>10 DEF IInv, BackupInv
    <2>2. i \in 1 .. n
      BY <1>6, <1>10, <2>1
    <2> QED
      BY <1>7, <2>1, <2>2
  <1>11. Len(history') > 0 /\ history'[1] = e.current
    <2>1. history[1] = editor[c].current
      BY <1>0 DEF IInv, BackupInv
    <2>2. 1 \in 1 .. n
      BY <1>6
    <2> QED
      BY <1>1, <1>6, <1>7, <2>1, <2>2
  <1>12. BackupInv'
    BY <1>2, <1>3, <1>5, <1>6, <1>10, <1>11 DEF BackupInv
  <1> QED
    BY <1>5, <1>8, <1>9, <1>12 DEF IInv
LEMMA ReplaceIInv ==
  ASSUME IInv, NEW c \in Client, Replace(c)
  PROVE  IInv'
  <1>0. /\ editor[c].pc = "replace" /\ lock = c
        /\ UNCHANGED <<replaceable, lock, history, meddled, counters>>
        /\ editor[c].text \in Text /\ editor[c].current \in Readable
    BY DEF Replace, At, IInv, LockInv, Writing, Typed, Editor
  <1>1. PICK pc \in {"answer", "rewrite"} :
           /\ editor' = [editor EXCEPT ![c].pc = pc]
           /\ file' = IF pc = "answer" THEN editor[c].text ELSE Half
    BY DEF Replace, Goes
  <1> DEFINE e == [editor[c] EXCEPT !.pc = pc]
  <1>2. /\ e \in Editor /\ e.pc = pc /\ e.text = editor[c].text
        /\ e.baseline = editor[c].baseline /\ e.from = editor[c].from
    BY DEF IInv, Typed, Editor, Writing
  <1>3. editor' = [editor EXCEPT ![c] = e] /\ editor'[c] = e
    BY <1>1 DEF IInv, Typed
  <1>4. c \notin meddled => Seen(c)'
    <2>1. c \notin meddled => /\ e.baseline.etag = e.baseline.content
                              /\ e.from.etag = e.from.content
      BY <1>0, <1>2 DEF IInv, SeenInv, Seen
    <2>2. pc = "answer" => Read' = editor[c].text
      BY <1>0, <1>1, ConfigStoreAssumption DEF Read
    <2> QED
      BY <1>0, <1>1, <1>2, <1>3, <2>1, <2>2 DEF Seen
  <1>5. /\ LockInv' /\ SeenInv'
        /\ Pruning = 0 /\ Pruning' = 0 /\ BackedUp = 1
        /\ BackedUp' = IF pc = "rewrite" THEN 1 ELSE 0
        /\ (Torn' <=> file' = Half)
        /\ editor[c].current = Half => Torn
        /\ \A d \in Client : d # c => editor'[d].pc \notin {"prune", "replace"}
    <2>1. e.pc \in {"check"} \cup Writing <=> lock' = c
      BY <1>0, <1>2 DEF Writing
    <2>2. /\ LockInv' /\ SeenInv'
          /\ Pruning = IF editor[c].pc = "prune" THEN 1 ELSE 0
          /\ Pruning' = IF e.pc = "prune" THEN 1 ELSE 0
          /\ BackedUp = IF editor[c].pc \in {"prune", "replace", "rewrite"} THEN 1 ELSE 0
          /\ BackedUp' = IF e.pc \in {"prune", "replace", "rewrite"} THEN 1 ELSE 0
          /\ Torn <=> file = Half \/ (editor[c].pc \in {"backup", "prune", "replace"} /\ editor[c].current = Half)
          /\ Torn' <=> file' = Half \/ (e.pc \in {"backup", "prune", "replace"} /\ e.current = Half)
          /\ \A d \in Client : d # c => editor'[d].pc \notin {"prune", "replace"}
      BY <1>0, <1>2, <1>3, <1>4, <2>1, UnderTheLock
    <2> QED
      BY <1>0, <1>2, <2>2
  <1>6. ousted' = IF editor[c].current = Half THEN ousted ELSE editor[c].current
    BY DEF Replace, Ousts
  <1>7. file' \in Readable \cup {Missing} /\ ousted' \in Text \cup {None}
    BY <1>0, <1>1, <1>6 DEF IInv, Typed, Readable
  <1>8. Typed'
    BY <1>0, <1>2, <1>3, <1>7 DEF IInv, Typed, counters
  <1>9. LengthInv'
    BY <1>0, <1>5 DEF IInv, LengthInv, counters
  <1>10. ASSUME pc = "rewrite", ousted' # None, faults < Keep
         PROVE  \E i \in 1 .. Len(history) : i <= faults + 1 /\ history[i] = ousted'
    <2>1. CASE editor[c].current = Half
      BY <1>5, <1>6, <1>10, <2>1 DEF IInv, BackupInv
    <2>2. CASE editor[c].current # Half
      <3>1. Len(history) > 0 /\ history[1] = editor[c].current
        BY <1>0 DEF IInv, BackupInv
      <3>2. Len(history) \in Nat /\ faults \in Nat
        BY LenProperties DEF IInv, Typed
      <3>3. 1 \in 1 .. Len(history) /\ 1 <= faults + 1
        BY <3>1, <3>2
      <3> QED
        BY <1>6, <2>2, <3>1, <3>3
    <2> QED
      BY <2>1, <2>2
  <1>11. file' = Half => pc = "rewrite"
    BY <1>0, <1>1, ConfigStoreAssumption
  <1>12. BackupInv'
    BY <1>0, <1>2, <1>3, <1>5, <1>10, <1>11 DEF BackupInv, counters
  <1> QED
    BY <1>5, <1>8, <1>9, <1>12 DEF IInv

\* c gives up with the lock: its baseline stays what it was.
LEMMA GivesUp ==
  ASSUME IInv, NEW c \in Client, lock = c, Ends(c), Release,
         UNCHANGED <<file, replaceable, history, meddled, ousted, counters>>,
         editor[c].pc # "prune",
         editor[c].pc \in {"replace", "rewrite"} => file # Half
  PROVE  IInv'
  <1>1. editor[c].baseline \in Baseline /\ Over(c).baseline = editor[c].baseline
    BY OverIsAnEditor DEF IInv, Typed, Editor
  <1>2. Over(c) = [Over(c) EXCEPT !.baseline = editor[c].baseline]
    BY <1>1 DEF Over, Closed
  <1>3. c \notin meddled => editor[c].baseline.etag = editor[c].baseline.content
    BY DEF IInv, SeenInv, Seen
  <1> QED
    BY <1>1, <1>2, <1>3, LetsGo DEF Ends, Release

LEMMA ReplaceNothingIInv ==
  ASSUME IInv, NEW c \in Client, ReplaceNothing(c)
  PROVE  IInv'
  <1>1. editor[c].pc = "replace" /\ lock = c
    BY DEF ReplaceNothing, At, IInv, LockInv, Writing
  <1> QED
    BY <1>1, GivesUp, ConfigStoreAssumption DEF ReplaceNothing

LEMMA CreateIInv ==
  ASSUME IInv, NEW c \in Client, Create(c)
  PROVE  IInv'
  <1>0. editor[c].pc = "create" /\ lock = c
    BY DEF Create, At, IInv, LockInv, Writing
  <1>1. CASE Conflict(c) /\ UNCHANGED <<file, ousted>>
    BY <1>0, <1>1, ConflictIInv DEF Create
  <1>2. CASE file = Missing /\ file' = Half /\ ousted' = None /\ Goes(c, "rewrite") /\ UNCHANGED lock
    <2> DEFINE e == [editor[c] EXCEPT !.pc = "rewrite"]
    <2>1. /\ e \in Editor /\ e.pc = "rewrite"
          /\ e.baseline = editor[c].baseline /\ e.from = editor[c].from
      BY DEF IInv, Typed, Editor, Writing
    <2>2. editor' = [editor EXCEPT ![c] = e] /\ editor'[c] = e
      BY <1>2 DEF Goes, IInv, Typed
    <2>3. UNCHANGED <<replaceable, lock, history, meddled, counters>>
      BY <1>2 DEF Create
    <2>4. c \notin meddled => Seen(c)'
      <3>1. c \notin meddled => /\ e.baseline.etag = e.baseline.content
                                /\ e.from.etag = e.from.content
        BY <1>0, <2>1 DEF IInv, SeenInv, Seen
      <3> QED
        BY <1>2, <2>1, <2>2, <3>1 DEF Seen
    <2>5. /\ LockInv' /\ SeenInv' /\ Pruning = 0 /\ Pruning' = 0
          /\ \A d \in Client : d # c => editor'[d].pc \notin {"prune", "replace"}
      <3>1. e.pc \in {"check"} \cup Writing <=> lock' = c
        BY <1>0, <2>1, <2>3 DEF Writing
      <3> QED
        BY <1>0, <2>1, <2>2, <2>3, <2>4, <3>1, UnderTheLock
    <2>6. Typed'
      BY <1>2, <2>1, <2>2, <2>3 DEF IInv, Typed, Readable, counters
    <2>7. LengthInv'
      BY <2>3, <2>5 DEF IInv, LengthInv, counters
    <2>8. BackupInv'
      BY <1>2, <2>1, <2>2, <2>5 DEF BackupInv
    <2> QED
      BY <2>5, <2>6, <2>7, <2>8 DEF IInv
  <1> QED
    BY <1>1, <1>2 DEF Create

LEMMA RewriteIInv ==
  ASSUME IInv, NEW c \in Client, Rewrite(c)
  PROVE  IInv'
  <1> DEFINE e == [editor[c] EXCEPT !.pc = "answer"]
  <1>0. /\ editor[c].pc = "rewrite" /\ lock = c /\ editor[c].text \in Text
        /\ UNCHANGED <<replaceable, lock, history, meddled, ousted, counters>>
    BY DEF Rewrite, At, IInv, LockInv, Writing, Typed, Editor
  <1>1. /\ e \in Editor /\ e.pc = "answer" /\ e.text = editor[c].text
        /\ e.baseline = editor[c].baseline /\ e.from = editor[c].from
    BY DEF IInv, Typed, Editor, Writing
  <1>2. editor' = [editor EXCEPT ![c] = e] /\ editor'[c] = e
    BY DEF Rewrite, Goes, IInv, Typed
  <1>3. /\ file' # Half /\ file' \in Readable \cup {Missing}
        /\ file = Half => file' = editor[c].text
    BY <1>0, ConfigStoreAssumption DEF Rewrite, IInv, Typed, Readable
  <1>4. c \notin meddled => Seen(c)'
    <2>1. c \notin meddled => /\ e.baseline.etag = e.baseline.content
                              /\ e.from.etag = e.from.content
                              /\ file = Half
      BY <1>0, <1>1 DEF IInv, SeenInv, Seen
    <2>2. file = Half => Read' = editor[c].text
      BY <1>0, <1>3, ConfigStoreAssumption DEF Read
    <2> QED
      BY <1>0, <1>1, <1>2, <2>1, <2>2 DEF Seen
  <1>5. /\ LockInv' /\ SeenInv' /\ Pruning = 0 /\ Pruning' = 0 /\ (Torn' <=> file' = Half)
        /\ \A d \in Client : d # c => editor'[d].pc \notin {"prune", "replace"}
    <2>1. e.pc \in {"check"} \cup Writing <=> lock' = c
      BY <1>0, <1>1 DEF Writing
    <2> QED
      BY <1>0, <1>1, <1>2, <1>4, <2>1, UnderTheLock
  <1>6. Typed'
    BY <1>0, <1>1, <1>2, <1>3 DEF IInv, Typed, counters
  <1>7. LengthInv'
    BY <1>0, <1>5 DEF IInv, LengthInv, counters
  <1>8. BackupInv'
    BY <1>1, <1>2, <1>3, <1>5 DEF BackupInv
  <1> QED
    BY <1>5, <1>6, <1>7, <1>8 DEF IInv

\* The page goes on showing what it sent, under the ETag of what was read back.
LEMMA AnswerIInv ==
  ASSUME IInv, NEW c \in Client, Answer(c)
  PROVE  IInv'
  <1> DEFINE b == [etag |-> Read, content |-> editor[c].text]
  <1>1. editor[c].pc = "answer" /\ lock = c
    BY DEF Answer, At, IInv, LockInv, Writing
  <1>2. b \in Baseline
    BY ReadIsReadable DEF IInv, Typed, Editor, Baseline, Readable
  <1>3. c \notin meddled => b.etag = b.content
    BY <1>1 DEF IInv, SeenInv, Seen
  <1> QED
    BY <1>1, <1>2, <1>3, LetsGo DEF Answer, EndsWith, Release

\* A write from outside never tears the file, and is put down to every save it
\* may come in the middle of.
LEMMA EditFileIInv ==
  ASSUME IInv, EditFile
  PROVE  IInv'
  <1>1. /\ UNCHANGED <<replaceable, lock, history, editor, ousted, saves, reads, faults>>
        /\ edits' = edits + 1
        /\ meddled' = meddled \cup {c \in Client : editor[c].pc \in Writing}
    BY DEF EditFile
  <1>2. file' \in Text \cup {Missing} /\ file' # Half
    BY ConfigStoreAssumption DEF EditFile
  <1>3. Typed'
    BY <1>1, <1>2 DEF IInv, Typed, Readable
  <1>4. LockInv'
    BY <1>1 DEF IInv, LockInv
  <1>5. SeenInv'
    <2> SUFFICES ASSUME NEW c \in Client, c \notin meddled' PROVE Seen(c)'
      BY DEF SeenInv
    <2>1. editor[c].pc \notin Writing /\ Seen(c)
      BY <1>1 DEF IInv, SeenInv
    <2> QED
      BY <1>1, <2>1 DEF Seen, Writing
  <1>6. LengthInv'
    <2>1. Pruning' = Pruning
      BY <1>1 DEF Pruning, At
    <2> QED
      BY <1>1, <2>1 DEF IInv, LengthInv
  <1>7. BackupInv'
    <2>1. BackedUp' = BackedUp /\ (Torn' => Torn)
      BY <1>1, <1>2 DEF BackedUp, Torn
    <2> QED
      BY <1>1, <2>1 DEF IInv, BackupInv
  <1> QED
    BY <1>3, <1>4, <1>5, <1>6, <1>7 DEF IInv
-----------------------------------------------------------------------------
(* The theorems.                                                           *)

LEMMA NextIInv == IInv /\ [Next]_vars => IInv'
  <1> SUFFICES ASSUME IInv, [Next]_vars PROVE IInv'
    OBVIOUS
  <1>1. ASSUME NEW c \in Client, Shown(c) \/ Refused(c) PROVE IInv'
    BY <1>1, ReadsIInv DEF Shown, Refused, NotWritable, NotValid
  <1>2. ASSUME NEW c \in Client, SaveStep(c) PROVE IInv'
    BY <1>2, CheckIInv, BackupIInv, PruneIInv, ReplaceIInv, ReplaceNothingIInv, CreateIInv,
       RewriteIInv, AnswerIInv DEF SaveStep
  <1>3. CASE UNCHANGED vars
    BY <1>3 DEF vars, counters, IInv, Typed, LockInv, SeenInv, Seen, Read, LengthInv, Pruning,
                At, BackupInv, Torn, BackedUp
  <1> QED
    BY <1>1, <1>2, <1>3, OpenIInv, ArrivesIInv, SaveIInv, LockIInv, SaveDiesIInv, EditFileIInv
    DEF Next

LEMMA SpecIInv == Spec => []IInv
  BY InitIInv, NextIInv, PTL DEF Spec

\* The types, and the history's length: saves never leave more in it than it is to
\* keep, but for those that died (write, _backup).
THEOREM StoreTypesOK == Spec => []TypeOK
  <1>1. ASSUME IInv PROVE TypeOK
    <2> DEFINE P == {c \in Client : At(c, "prune")}
    <2>1. Cardinality(P) = Pruning
      <3>1. CASE \E c \in Client : At(c, "prune")
        <4>1. PICK c \in Client : At(c, "prune")
          BY <3>1
        <4>2. P = {c}
          BY <1>1, <4>1 DEF IInv, LockInv, At, Writing
        <4> QED
          BY <4>1, <4>2, FS_Singleton DEF Pruning
      <3>2. CASE ~\E c \in Client : At(c, "prune")
        <4>1. P = {}
          BY <3>2
        <4> QED
          BY <3>2, <4>1, FS_EmptySet DEF Pruning
      <3> QED
        BY <3>1, <3>2
    <2> QED
      BY <1>1, <2>1 DEF IInv, Typed, LengthInv, TypeOK
  <1> QED
    BY <1>1, SpecIInv, PTL

\* The ETag the page sends next is that of the text it shows, unless somebody from
\* outside wrote the file between its save and the answer (editor.js doSave).
THEOREM StoreAnswersItsText == Spec => []AnsweredEtagIsOfTheText
  <1>1. IInv => AnsweredEtagIsOfTheText
    BY DEF IInv, SeenInv, Seen, AnsweredEtagIsOfTheText
  <1> QED
    BY <1>1, SpecIInv, PTL

\* While the file is torn, the last whole text a save took out of it is in the
\* history, for every length of the history and fewer dead saves than that.
THEOREM StoreKeepsABackup == Spec => []TornFileHasABackup
  <1>1. IInv => TornFileHasABackup
    BY DEF IInv, BackupInv, Torn, TornFileHasABackup, Contains
  <1> QED
    BY <1>1, SpecIInv, PTL

\* No save writes over a text its editor had not shown, unless that text came from
\* outside in the middle of it, with any number of editors (write, _create).
THEOREM StoreOverwritesOnlyWhatItShowed == Spec => OverwritesOnlyWhatItShowed
  <1>1. ASSUME IInv, NEW c \in Client, Overwrites(c), Unseen(c) PROVE c \in meddled
    <2>1. SUFFICES ASSUME c \notin meddled PROVE FALSE
      OBVIOUS
    <2>2. Read = editor[c].from.content
      BY <1>1, <2>1 DEF Overwrites, IInv, SeenInv, Seen
    <2> QED
      BY <1>1, <2>2 DEF Unseen, Read
  <1>2. IInv => [\A c \in Client : Overwrites(c) /\ Unseen(c) => c \in meddled]_vars
    BY <1>1
  <1> QED
    BY <1>2, SpecIInv, PTL DEF OverwritesOnlyWhatItShowed
=============================================================================
