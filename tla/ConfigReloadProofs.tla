------------------------- MODULE ConfigReloadProofs -------------------------
(***************************************************************************)
(* ConfigReload for any number of threads inside Config, any number of     *)
(* writes of rules.yml, and any choice of the versions that do not load or *)
(* do not resolve.                                                         *)
(***************************************************************************)
EXTENDS ConfigReload, TLAPS

-----------------------------------------------------------------------------
(* The inductive invariant.                                                *)

Assigning == {"rules", "resolver", "drop", "stamp"}
Reloading == {"stat", "compare", "read"} \cup Assigning
Resolving == {"first", "second", "store"}

\* What a thread carries, about to be assigned or stored, has been loaded as well.
CarriedInv ==
    \A t \in Thread :
        /\ call[t].pc \in Assigning => call[t].content \in Loadable
        /\ call[t].pc \in Resolving => {call[t].result.raw} \cup call[t].result.via \subseteq Loadable

LoadedInv == OnlyLoadedRulesServed /\ CarriedInv

\* A call without company, before its reload has ended and after.
Reloads(t) ==
    /\ call[t].pc \in {"compare", "read"} => call[t].stamp <= disk
    /\ call[t].pc \in Assigning => call[t].stamp <= call[t].content
    /\ call[t].pc \in {"resolver", "drop", "stamp"} => rules = call[t].content
    /\ call[t].pc \in {"drop", "stamp"} => resolver = call[t].content
    /\ call[t].pc = "stamp" => cache = None

Reloaded(t) ==
    /\ rules = call[t].content /\ resolver = call[t].content /\ rulesStamp <= rules
    /\ call[t].pc = "cached" => cache = None
    /\ call[t].pc \in Resolving => call[t].result.raw = rules
    /\ call[t].pc = "first" => call[t].result.via = {}
    /\ call[t].pc \in {"second", "store"} => call[t].result.via = {rules}
    /\ call[t].pc = "answer" => cache = [raw |-> rules, via |-> {rules}]

Alone(t) == \A u \in Thread \ {t} : At(u, "idle")

QuietInv ==
    \A t \in Thread :
        /\ call[t].pc \in Reloading => ~call[t].reloaded
        /\ call[t].pc # "idle" /\ call[t].quiet =>
             Alone(t) /\ Reloads(t) /\ (call[t].reloaded => Reloaded(t))

IInv == TypeOK /\ LoadedInv /\ QuietInv

LEMMA InitIInv == Init => IInv
  BY ConfigReloadAssumption
  DEF Init, IInv, TypeOK, LoadedInv, OnlyLoadedRulesServed, CarriedInv, QuietInv, Version, Loadable,
      NoCall, Call, Resolved, NoStamp, None, Assigning, Reloading, Resolving

LEMMA NoCallIsACall == NoCall \in Call
  BY ConfigReloadAssumption DEF NoCall, Call, Resolved, Version

\* A step of one thread in Config: what it leaves in its own locals is all there
\* is to look at, since a thread without company has none that step.
LEMMA OwnStep ==
  ASSUME IInv, NEW t \in Thread, ~At(t, "idle"),
         NEW c \in Call, call' = [call EXCEPT ![t] = c],
         c.pc \in Reloading => ~c.reloaded,
         c.pc # "idle" /\ c.quiet => call[t].quiet /\ Reloads(t)' /\ (c.reloaded => Reloaded(t)'),
         c.pc \in Assigning => c.content \in Loadable,
         c.pc \in Resolving => {c.result.raw} \cup c.result.via \subseteq Loadable
  PROVE  /\ call' \in [Thread -> Call]
         /\ CarriedInv'
         /\ QuietInv'
  <1>1. call \in [Thread -> Call]
    BY DEF IInv, TypeOK
  <1>2. call'[t] = c /\ \A u \in Thread \ {t} : call'[u] = call[u]
    BY <1>1
  <1>3. call' \in [Thread -> Call]
    BY <1>1
  <1>4. CarriedInv'
    BY <1>2 DEF IInv, LoadedInv, CarriedInv
  <1>5. ASSUME NEW u \in Thread \ {t}
        PROVE  /\ call'[u].pc \in Reloading => ~call'[u].reloaded
               /\ ~(call'[u].pc # "idle" /\ call'[u].quiet)
    BY <1>2 DEF IInv, QuietInv, Alone, At
  <1>6. call'[t].pc # "idle" /\ call'[t].quiet => Alone(t)'
    BY <1>2 DEF IInv, QuietInv, Alone, At
  <1> QED
    BY <1>2, <1>3, <1>4, <1>5, <1>6 DEF QuietInv

-----------------------------------------------------------------------------
(* One lemma per action, or per few of a kind.                             *)

LEMMA EditFileIInv ==
  ASSUME IInv, EditFile
  PROVE  IInv'
  <1> USE DEF IInv, EditFile, shared
  <1>1. disk' \in Version /\ disk < disk'
    OBVIOUS
  <1>2. TypeOK' /\ LoadedInv'
    BY <1>1 DEF TypeOK, LoadedInv, OnlyLoadedRulesServed, CarriedInv
  <1>3. \A t \in Thread : call[t].stamp <= disk => call[t].stamp <= disk'
    BY <1>1, ConfigReloadAssumption DEF TypeOK, Call, Version
  <1>4. \A t \in Thread : Alone(t)' = Alone(t) /\ (Reloads(t) => Reloads(t)') /\ Reloaded(t)' = Reloaded(t)
    BY <1>3 DEF Alone, Reloads, Reloaded, At
  <1>5. QuietInv'
    BY <1>4 DEF QuietInv
  <1> QED
    BY <1>2, <1>5

\* A call begins: whoever is in Config already has company from now on.
LEMMA EntersIInv ==
  ASSUME IInv, NEW t \in Thread, NEW force \in BOOLEAN, Enters(t, force),
         disk' \in Version, UNCHANGED <<shared, answered>>
  PROVE  IInv'
  <1> USE DEF IInv, Enters, shared
  <1>1. call \in [Thread -> Call] /\ answered \in Version
    BY DEF TypeOK
  <1>2. PICK q \in BOOLEAN : q = (\A u \in Thread \ {t} : At(u, "idle"))
    OBVIOUS
  <1> DEFINE begun == [NoCall EXCEPT !.pc = "stat", !.force = force, !.quiet = q, !.owed = answered]
             other(u) == IF At(u, "idle") THEN call[u] ELSE [call[u] EXCEPT !.quiet = FALSE]
  <1>3. begun \in Call
    BY <1>1, NoCallIsACall DEF NoCall, Call
  <1>4. begun.pc = "stat" /\ ~begun.reloaded /\ begun.quiet = q
    BY DEF NoCall
  <1>5. call'[t] = begun
    BY <1>2, Zenon
  <1>6. \A u \in Thread \ {t} : call'[u] = other(u)
    BY Zenon
  <1>7. ASSUME NEW u \in Thread \ {t}
        PROVE  /\ call'[u] \in Call
               /\ call'[u].pc = call[u].pc /\ call'[u].reloaded = call[u].reloaded
               /\ call'[u].content = call[u].content /\ call'[u].result = call[u].result
               /\ call'[u].pc # "idle" => ~call'[u].quiet
    BY <1>1, <1>6 DEF Call, At
  <1>8. call' \in [Thread -> Call]
    <2>1. call' = [u \in Thread |-> call'[u]]
      BY Zenon
    <2> QED
      BY <1>3, <1>5, <1>7, <2>1
  <1>9. TypeOK'
    BY <1>8 DEF TypeOK
  <1>10. LoadedInv'
    BY <1>4, <1>5, <1>7 DEF LoadedInv, OnlyLoadedRulesServed, CarriedInv, Assigning, Resolving
  <1>11. call'[t].quiet => Alone(t)'
    BY <1>2, <1>4, <1>5, <1>7 DEF Alone, At
  <1>12. /\ call'[t].pc \in Reloading => ~call'[t].reloaded
         /\ call'[t].quiet => Alone(t)' /\ Reloads(t)' /\ (call'[t].reloaded => Reloaded(t)')
    BY <1>4, <1>5, <1>11 DEF Reloads, Assigning
  <1>13. QuietInv'
    BY <1>7, <1>12 DEF QuietInv
  <1> QED
    BY <1>9, <1>10, <1>13

\* A call ends.
LEMMA ReturnsIInv ==
  ASSUME IInv, NEW t \in Thread, ~At(t, "idle"), Returns(t)
  PROVE  call' \in [Thread -> Call] /\ CarriedInv' /\ QuietInv'
  <1>1. NoCall \in Call
    BY NoCallIsACall
  <1>2. /\ NoCall.pc = "idle"
        /\ NoCall.pc \notin Reloading \cup Resolving
    BY DEF NoCall, Reloading, Assigning, Resolving
  <1> QED
    BY <1>1, <1>2, OwnStep DEF Returns, Reloading

LEMMA ReturnOnlyIInv ==
  ASSUME IInv, NEW t \in Thread, ~At(t, "idle"), Returns(t), UNCHANGED <<disk, shared>>, answered' \in Version
  PROVE  IInv'
  BY ReturnsIInv DEF IInv, TypeOK, LoadedInv, OnlyLoadedRulesServed, shared

\* A reload ends without having replaced anything.
LEMMA ReloadEndsIInv ==
  ASSUME IInv, NEW t \in Thread, call[t].pc \in {"compare", "read"}, ReloadEnds(t),
         UNCHANGED <<disk, shared, answered>>
  PROVE  IInv'
  <1> USE DEF IInv
  <1>1. CASE Returns(t)
    BY <1>1, ReturnOnlyIInv DEF TypeOK, At
  <1>2. CASE Goes(t, "cached")
    <2> DEFINE c == [call[t] EXCEPT !.pc = "cached"]
    <2>1. call[t] \in Call
      BY DEF TypeOK
    <2>2. c \in Call /\ c.pc = "cached" /\ ~c.reloaded /\ c.quiet = call[t].quiet
      BY <2>1 DEF Call, QuietInv, Reloading
    <2>3. call' = [call EXCEPT ![t] = c]
      BY <1>2 DEF Goes
    <2>4. call'[t] = c
      BY <2>3 DEF TypeOK
    <2>5. Reloads(t)'
      BY <2>2, <2>4 DEF Reloads, Assigning
    <2>6. call' \in [Thread -> Call] /\ CarriedInv' /\ QuietInv'
      BY <2>2, <2>3, <2>5, OwnStep DEF At, Reloading, Assigning, Resolving
    <2> QED
      BY <2>6 DEF TypeOK, LoadedInv, OnlyLoadedRulesServed, shared
  <1> QED
    BY <1>1, <1>2 DEF ReloadEnds

\* A step that puts c in the place of the thread's locals and keeps the rest.
LEMMA MovesIInv ==
  ASSUME IInv, NEW t \in Thread, ~At(t, "idle"),
         NEW c \in Call, call' = [call EXCEPT ![t] = c], UNCHANGED <<disk, shared, answered>>,
         c.quiet = call[t].quiet, c.pc \in Reloading => ~c.reloaded,
         c.quiet => Reloads(t)' /\ (c.reloaded => Reloaded(t)'),
         c.pc \in Assigning => c.content \in Loadable,
         c.pc \in Resolving => {c.result.raw} \cup c.result.via \subseteq Loadable
  PROVE  IInv'
  <1>1. call' \in [Thread -> Call] /\ CarriedInv' /\ QuietInv'
    BY OwnStep
  <1> QED
    BY <1>1 DEF IInv, TypeOK, LoadedInv, OnlyLoadedRulesServed, shared

LEMMA StampIInv ==
  ASSUME IInv, NEW t \in Thread, CurrentRulesStamp(t)
  PROVE  IInv'
  <1> DEFINE c == [call[t] EXCEPT !.pc = "compare", !.stamp = disk]
  <1>1. call[t] \in Call /\ disk \in Version
    BY DEF IInv, TypeOK
  <1>2. c \in Call /\ c.pc = "compare" /\ c.stamp = disk /\ ~c.reloaded /\ c.quiet = call[t].quiet
    BY <1>1 DEF Call, IInv, QuietInv, Reloading, CurrentRulesStamp, At
  <1>3. call' = [call EXCEPT ![t] = c]
    BY DEF CurrentRulesStamp
  <1>4. call'[t] = c
    BY <1>3 DEF IInv, TypeOK
  <1>5. disk <= disk /\ disk' = disk
    BY <1>1, ConfigReloadAssumption DEF CurrentRulesStamp, Version
  <1> HIDE DEF c
  <1>6. Reloads(t)'
    BY <1>2, <1>4, <1>5 DEF Reloads, Assigning
  <1> QED
    BY <1>2, <1>3, <1>6, MovesIInv DEF CurrentRulesStamp, At, Assigning, Resolving

LEMMA CompareIInv ==
  ASSUME IInv, NEW t \in Thread, CompareStamp(t)
  PROVE  IInv'
  <1> USE DEF CompareStamp
  <1>1. CASE ReloadEnds(t)
    BY <1>1, ReloadEndsIInv DEF At
  <1>2. CASE Goes(t, "read")
    <2> DEFINE c == [call[t] EXCEPT !.pc = "read"]
    <2>1. call[t] \in Call /\ call[t].pc = "compare"
      BY DEF IInv, TypeOK, At
    <2>2. /\ c \in Call /\ c.pc = "read" /\ c.stamp = call[t].stamp
          /\ ~c.reloaded /\ c.quiet = call[t].quiet
      BY <2>1 DEF Call, IInv, QuietInv, Reloading
    <2>3. call' = [call EXCEPT ![t] = c]
      BY <1>2 DEF Goes
    <2>4. call'[t] = c
      BY <2>3 DEF IInv, TypeOK
    <2>5. c.quiet => Reloads(t)'
      BY <2>1, <2>2, <2>4 DEF Reloads, Assigning, IInv, QuietInv
    <2> QED
      BY <2>1, <2>2, <2>3, <2>5, MovesIInv DEF At, Assigning, Resolving
  <1> QED
    BY <1>1, <1>2

LEMMA LoadRulesIInv ==
  ASSUME IInv, NEW t \in Thread, LoadRules(t)
  PROVE  IInv'
  <1> USE DEF LoadRules
  <1>1. CASE disk \in Broken
    BY <1>1, ReloadEndsIInv DEF At
  <1>2. CASE disk \notin Broken
    <2> DEFINE c == [call[t] EXCEPT !.pc = "rules", !.content = disk]
    <2>1. call[t] \in Call /\ call[t].pc = "read" /\ disk \in Version
      BY DEF IInv, TypeOK, At
    <2>2. /\ c \in Call /\ c.pc = "rules" /\ c.stamp = call[t].stamp /\ c.content = disk
          /\ ~c.reloaded /\ c.quiet = call[t].quiet
      BY <2>1 DEF Call, IInv, QuietInv, Reloading
    <2>3. call' = [call EXCEPT ![t] = c]
      BY <1>2
    <2>4. call'[t] = c
      BY <2>3 DEF IInv, TypeOK
    <2>5. c.quiet => Reloads(t)'
      BY <2>1, <2>2, <2>4 DEF Reloads, IInv, QuietInv
    <2>6. c.content \in Loadable
      BY <1>2, <2>1, <2>2 DEF Loadable
    <2> QED
      BY <2>1, <2>2, <2>3, <2>5, <2>6, MovesIInv DEF At, Resolving
  <1> QED
    BY <1>1, <1>2

LEMMA AssignRulesIInv ==
  ASSUME IInv, NEW t \in Thread, AssignRules(t)
  PROVE  IInv'
  <1> USE DEF AssignRules
  <1> DEFINE c == [call[t] EXCEPT !.pc = "resolver"]
  <1>1. call[t] \in Call /\ call[t].pc = "rules" /\ call[t].content \in Loadable
    BY DEF IInv, TypeOK, At, LoadedInv, CarriedInv, Assigning
  <1>2. /\ c \in Call /\ c.pc = "resolver" /\ c.stamp = call[t].stamp /\ c.content = call[t].content
        /\ ~c.reloaded /\ c.quiet = call[t].quiet
    BY <1>1 DEF Call, IInv, QuietInv, Reloading, Assigning
  <1>3. call' = [call EXCEPT ![t] = c]
    BY DEF Goes
  <1>4. call'[t] = c
    BY <1>3 DEF IInv, TypeOK
  <1>5. c.quiet => Reloads(t)'
    BY <1>1, <1>2, <1>4 DEF Reloads, IInv, QuietInv, Assigning
  <1>6. call' \in [Thread -> Call] /\ CarriedInv' /\ QuietInv'
    BY <1>1, <1>2, <1>3, <1>5, OwnStep DEF At, Resolving
  <1> QED
    BY <1>1, <1>6 DEF IInv, TypeOK, LoadedInv, OnlyLoadedRulesServed, Loadable

LEMMA AssignResolverIInv ==
  ASSUME IInv, NEW t \in Thread, AssignResolver(t)
  PROVE  IInv'
  <1> USE DEF AssignResolver
  <1> DEFINE c == [call[t] EXCEPT !.pc = "drop"]
  <1>1. call[t] \in Call /\ call[t].pc = "resolver" /\ call[t].content \in Loadable
    BY DEF IInv, TypeOK, At, LoadedInv, CarriedInv, Assigning
  <1>2. /\ c \in Call /\ c.pc = "drop" /\ c.stamp = call[t].stamp /\ c.content = call[t].content
        /\ ~c.reloaded /\ c.quiet = call[t].quiet
    BY <1>1 DEF Call, IInv, QuietInv, Reloading, Assigning
  <1>3. call' = [call EXCEPT ![t] = c]
    BY DEF Goes
  <1>4. call'[t] = c
    BY <1>3 DEF IInv, TypeOK
  <1>5. c.quiet => Reloads(t)'
    BY <1>1, <1>2, <1>4 DEF Reloads, IInv, QuietInv, Assigning
  <1>6. call' \in [Thread -> Call] /\ CarriedInv' /\ QuietInv'
    BY <1>1, <1>2, <1>3, <1>5, OwnStep DEF At, Resolving
  <1> QED
    BY <1>1, <1>6 DEF IInv, TypeOK, LoadedInv, OnlyLoadedRulesServed, Loadable

LEMMA DropCacheIInv ==
  ASSUME IInv, NEW t \in Thread, DropCache(t)
  PROVE  IInv'
  <1> USE DEF DropCache
  <1> DEFINE c == [call[t] EXCEPT !.pc = "stamp"]
  <1>1. call[t] \in Call /\ call[t].pc = "drop" /\ call[t].content \in Loadable
    BY DEF IInv, TypeOK, At, LoadedInv, CarriedInv, Assigning
  <1>2. /\ c \in Call /\ c.pc = "stamp" /\ c.stamp = call[t].stamp /\ c.content = call[t].content
        /\ ~c.reloaded /\ c.quiet = call[t].quiet
    BY <1>1 DEF Call, IInv, QuietInv, Reloading, Assigning
  <1>3. call' = [call EXCEPT ![t] = c]
    BY DEF Goes
  <1>4. call'[t] = c
    BY <1>3 DEF IInv, TypeOK
  <1>5. c.quiet => Reloads(t)'
    BY <1>1, <1>2, <1>4 DEF Reloads, IInv, QuietInv, Assigning
  <1>6. call' \in [Thread -> Call] /\ CarriedInv' /\ QuietInv'
    BY <1>1, <1>2, <1>3, <1>5, OwnStep DEF At, Resolving
  <1> QED
    BY <1>6 DEF IInv, TypeOK, LoadedInv, OnlyLoadedRulesServed

\* The stamp of a reload is that of what it read, or older.
LEMMA AssignStampIInv ==
  ASSUME IInv, NEW t \in Thread, AssignStamp(t)
  PROVE  IInv'
  <1> USE DEF AssignStamp
  <1>1. call[t] \in Call /\ call[t].pc = "stamp" /\ call[t].content \in Version
    BY DEF IInv, TypeOK, At, Call
  <1>2. rulesStamp' \in Version /\ answered' \in Version
    BY <1>1 DEF IInv, TypeOK, Call
  <1>3. CASE call[t].force
    <2>1. call' \in [Thread -> Call] /\ CarriedInv' /\ QuietInv'
      BY <1>1, <1>3, ReturnsIInv DEF At
    <2> QED
      BY <1>2, <2>1 DEF IInv, TypeOK, LoadedInv, OnlyLoadedRulesServed
  <1>4. CASE ~call[t].force
    <2> DEFINE c == [call[t] EXCEPT !.pc = "cached", !.reloaded = TRUE]
    <2>1. /\ c \in Call /\ c.pc = "cached" /\ c.stamp = call[t].stamp /\ c.content = call[t].content
          /\ c.quiet = call[t].quiet
      BY <1>1 DEF Call
    <2>2. call' = [call EXCEPT ![t] = c]
      BY <1>4
    <2>3. call'[t] = c
      BY <2>2 DEF IInv, TypeOK
    <2>4. c.quiet => Reloads(t)' /\ Reloaded(t)'
      BY <1>1, <2>1, <2>3 DEF Reloads, Reloaded, IInv, QuietInv, Assigning, Resolving
    <2>5. call' \in [Thread -> Call] /\ CarriedInv' /\ QuietInv'
      BY <1>1, <2>1, <2>2, <2>4, OwnStep DEF At, Resolving, Reloading, Assigning
    <2> QED
      BY <1>2, <2>5 DEF IInv, TypeOK, LoadedInv, OnlyLoadedRulesServed
  <1> QED
    BY <1>3, <1>4

LEMMA TestCacheIInv ==
  ASSUME IInv, NEW t \in Thread, TestCache(t)
  PROVE  IInv'
  <1> USE DEF TestCache
  <1>1. call[t] \in Call /\ call[t].pc = "cached" /\ rules \in Version
    BY DEF IInv, TypeOK, At
  <1>2. CASE cache # None
    <2> DEFINE c == [call[t] EXCEPT !.pc = "answer"]
    <2>1. /\ c \in Call /\ c.pc = "answer" /\ c.quiet = call[t].quiet /\ c.reloaded = call[t].reloaded
      BY <1>1 DEF Call
    <2>2. call' = [call EXCEPT ![t] = c]
      BY <1>2 DEF Goes
    <2>3. call'[t] = c
      BY <2>2 DEF IInv, TypeOK
    <2>4. c.quiet => ~c.reloaded
      BY <1>1, <1>2, <2>1 DEF IInv, QuietInv, Reloaded
    <2>5. Reloads(t)'
      BY <2>1, <2>3 DEF Reloads, Assigning
    <2> QED
      BY <1>1, <2>1, <2>2, <2>4, <2>5, MovesIInv DEF At, Assigning, Resolving, Reloading
  <1>3. CASE cache = None
    <2> DEFINE c == [call[t] EXCEPT !.pc = "first", !.result = [raw |-> rules, via |-> {}]]
    <2>1. /\ c \in Call /\ c.pc = "first" /\ c.quiet = call[t].quiet /\ c.reloaded = call[t].reloaded
          /\ c.content = call[t].content /\ c.result.raw = rules /\ c.result.via = {}
      BY <1>1 DEF Call, Resolved
    <2>2. call' = [call EXCEPT ![t] = c]
      BY <1>3
    <2>3. call'[t] = c
      BY <2>2 DEF IInv, TypeOK
    <2>4. c.quiet => Reloads(t)' /\ (c.reloaded => Reloaded(t)')
      BY <1>1, <2>1, <2>3 DEF IInv, QuietInv, Reloads, Reloaded, Assigning, shared
    <2>5. {c.result.raw} \cup c.result.via \subseteq Loadable
      BY <2>1 DEF IInv, LoadedInv, OnlyLoadedRulesServed
    <2> HIDE DEF c
    <2> QED
      BY <1>1, <2>1, <2>2, <2>4, <2>5, MovesIInv DEF At, Assigning, Reloading
  <1> QED
    BY <1>2, <1>3

LEMMA ResolveRuleIInv ==
  ASSUME IInv, NEW t \in Thread, ResolveRule(t)
  PROVE  IInv'
  <1> USE DEF ResolveRule
  <1>1. call[t] \in Call /\ call[t].pc \in {"first", "second"} /\ resolver \in Version
    BY DEF IInv, TypeOK, At
  <1>2. CASE Returns(t)
    BY <1>1, <1>2, ReturnOnlyIInv DEF At, IInv, TypeOK
  <1>3. CASE call' = [call EXCEPT ![t].pc = IF @ = "first" THEN "second" ELSE "store",
                                  ![t].result.via = @ \cup {resolver}]
    <2> DEFINE c == [call[t] EXCEPT !.pc = IF @ = "first" THEN "second" ELSE "store",
                                    !.result.via = @ \cup {resolver}]
    <2>1. /\ c \in Call /\ c.pc \in {"second", "store"}
          /\ c.quiet = call[t].quiet /\ c.reloaded = call[t].reloaded /\ c.content = call[t].content
          /\ c.result.raw = call[t].result.raw /\ c.result.via = call[t].result.via \cup {resolver}
      BY <1>1 DEF Call, Resolved
    <2>2. call' = [call EXCEPT ![t] = c]
      BY <1>3 DEF IInv, TypeOK
    <2>3. call'[t] = c
      BY <2>2 DEF IInv, TypeOK
    <2>4. c.quiet => Reloads(t)' /\ (c.reloaded => Reloaded(t)')
      BY <1>1, <2>1, <2>3 DEF IInv, QuietInv, Reloads, Reloaded, Assigning, Resolving, shared
    <2>5. {c.result.raw} \cup c.result.via \subseteq Loadable
      BY <1>1, <2>1 DEF IInv, LoadedInv, OnlyLoadedRulesServed, CarriedInv, Resolving
    <2> QED
      BY <1>1, <2>1, <2>2, <2>4, <2>5, MovesIInv DEF At, Assigning, Reloading
  <1> QED
    BY <1>2, <1>3

LEMMA StoreCacheIInv ==
  ASSUME IInv, NEW t \in Thread, StoreCache(t)
  PROVE  IInv'
  <1> USE DEF StoreCache
  <1> DEFINE c == [call[t] EXCEPT !.pc = "answer"]
  <1>1. call[t] \in Call /\ call[t].pc = "store"
    BY DEF IInv, TypeOK, At
  <1>2. /\ c \in Call /\ c.pc = "answer" /\ c.quiet = call[t].quiet /\ c.reloaded = call[t].reloaded
        /\ c.content = call[t].content
    BY <1>1 DEF Call
  <1>3. call' = [call EXCEPT ![t] = c]
    BY DEF Goes
  <1>4. call'[t] = c
    BY <1>3 DEF IInv, TypeOK
  <1>5. ASSUME c.quiet, c.reloaded
        PROVE  cache' = [raw |-> rules, via |-> {rules}]
    BY <1>1, <1>2, <1>5 DEF IInv, QuietInv, Reloaded, Resolving, Call, Resolved
  <1>6. c.quiet => Reloads(t)' /\ (c.reloaded => Reloaded(t)')
    BY <1>1, <1>2, <1>4, <1>5 DEF IInv, QuietInv, Reloads, Reloaded, Assigning, Resolving
  <1>7. call' \in [Thread -> Call] /\ CarriedInv' /\ QuietInv'
    BY <1>1, <1>2, <1>3, <1>6, OwnStep DEF At, Resolving, Reloading, Assigning
  <1>8. cache' \in Resolved /\ {cache'.raw} \cup cache'.via \subseteq Loadable
    BY <1>1 DEF Call, IInv, LoadedInv, CarriedInv, Resolving
  <1> QED
    BY <1>7, <1>8 DEF IInv, TypeOK, LoadedInv, OnlyLoadedRulesServed

LEMMA NextIInv ==
  ASSUME IInv, [Next]_vars
  PROVE  IInv'
  <1>1. CASE UNCHANGED vars
    BY <1>1 DEF vars, shared, IInv, TypeOK, LoadedInv, OnlyLoadedRulesServed, CarriedInv, QuietInv,
                Alone, At, Reloads, Reloaded
  <1>2. CASE EditFile
    BY <1>2, EditFileIInv
  <1>3. ASSUME NEW t \in Thread, SaveFile(t) \/ GetRules(t)
        PROVE  IInv'
    BY <1>3, EntersIInv DEF SaveFile, GetRules, shared, Good, Loadable, IInv, TypeOK
  <1>4. ASSUME NEW t \in Thread, AnswerCache(t)
        PROVE  IInv'
    BY <1>4, ReturnOnlyIInv DEF AnswerCache, At, IInv, TypeOK
  <1> QED
    BY <1>1, <1>2, <1>3, <1>4, StampIInv, CompareIInv, LoadRulesIInv, AssignRulesIInv,
       AssignResolverIInv, DropCacheIInv, AssignStampIInv, TestCacheIInv, ResolveRuleIInv, StoreCacheIInv
    DEF Next

LEMMA SpecIInv == Spec => []IInv
  BY InitIInv, NextIInv, PTL DEF Spec

-----------------------------------------------------------------------------
(* The theorems.                                                           *)

\* Every attribute of Config, and every local of the calls in it, is of its type.
THEOREM ReloadTypesOK == Spec => []TypeOK
  BY SpecIInv, PTL DEF IInv

\* Nothing of a version that failed to load is ever served, nor resolved with
\* the refs of one, with any number of threads in Config (load_rules: validated
\* before any of it is assigned).
THEOREM ReloadServesLoadedRules == Spec => []OnlyLoadedRulesServed
  BY SpecIInv, PTL DEF IInv, LoadedInv

\* Whatever races left behind, one reload without company makes rules, refs,
\* cache and stamp agree again (reload_rules).
THEOREM ReloadRepairs == Spec => []QuietReloadServesTheFile
  <1>1. IInv => QuietReloadServesTheFile
    BY DEF IInv, QuietInv, Reloaded, QuietReloadServesTheFile, Answering, At
  <1> QED
    BY <1>1, SpecIInv, PTL

\* The stamp such a reload leaves is never newer than what it loaded, however
\* often the file is written meanwhile (reload_rules takes the stamp first).
THEOREM ReloadMissesNoEdit == Spec => []NoEditGoesUnnoticed
  <1>1. IInv => NoEditGoesUnnoticed
    BY DEF IInv, QuietInv, Reloaded, NoEditGoesUnnoticed, Answering, At
  <1> QED
    BY <1>1, SpecIInv, PTL
=============================================================================
