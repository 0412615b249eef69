------------------------- MODULE RulesEngineProofs --------------------------
(***************************************************************************)
(* RulesEngine for any torrents, any rules files, any scope, and any queue *)
(* of an arr: what a run leaves alone, whatever requests fail and others   *)
(* change; the types; and what a run that nothing goes wrong for keeps in  *)
(* step.                                                                   *)
(***************************************************************************)
EXTENDS RulesEngine, SublistProofs, FiniteSetTheorems

-----------------------------------------------------------------------------
(* The inductive invariant.                                                *)

At == [pc : {"fetch", "rule", "torrent", "action", "arr", "refetch", "done", "raised"},
       rule : Nat, left : SUBSET Torrent, torrent : Torrent \cup {NoTorrent}, action : Nat]

\* Of the types, what the argument needs: nothing of the rules is looked into.
Shape ==
    /\ DOMAIN fleet = Torrent
    /\ DOMAIN local = Torrent
    /\ \A t \in Torrent : "deleted" \in DOMAIN local[t] /\ local[t].deleted \in BOOLEAN
    /\ job \in [context : {"cleanup", "import", "none"}, dry_run : BOOLEAN, scope : SUBSET Torrent]
    /\ at \in At
    /\ outside \in Nat

OnOne == {"action", "arr", "refetch"}

\* The torrents the run gets at are those it was asked for.
ScopeInv ==
    /\ at.left \subseteq job.scope
    /\ at.pc \in OnOne => at.torrent \in job.scope

\* Only a run for real is ever past its first action.
DryRunInv == at.pc \in {"arr", "refetch"} => ~job.dry_run

\* At the fetch, which makes the dicts anew, none is marked yet.
FreshInv ==
    at.pc = "fetch" => /\ at.left = {}
                       /\ processed = {}
                       /\ \A t \in Torrent : ~local[t].deleted

IInv == Shape /\ ScopeInv /\ DryRunInv /\ FreshInv

\* What a run finds in qBittorrent is there.
LEMMA InitFleet == ASSUME Init PROVE fleet \in [Torrent -> InClient] /\ \A t \in Torrent : fleet[t].alive
  BY RulesEngineAssumption DEF Init

LEMMA InitIInv == Init => IInv
  <1> SUFFICES ASSUME Init PROVE IInv
    OBVIOUS
  <1>1. job \in [context : {"cleanup", "import", "none"}, dry_run : BOOLEAN, scope : SUBSET Torrent]
    <2>1. Scopes \subseteq SUBSET Torrent
      BY RulesEngineAssumption
    <2> QED
      BY <2>1 DEF Init
  <1>2. Shape
    BY <1>1, InitFleet DEF Init, Shape, Fetched, At
  <1> QED
    BY <1>1, <1>2 DEF Init, IInv, ScopeInv, DryRunInv, FreshInv, Fetched, OnOne

\* The action formula of LeavesAlone.
Leaves ==
    \A t \in Torrent :
        /\ job.dry_run \/ t \notin job.scope =>
              fleet'[t] = fleet[t] \/ outside' > outside
        /\ (t \in processed \/ local[t].deleted) /\ at.torrent # t =>
              at'.torrent # t /\ (t \in processed' \/ local'[t].deleted)

-----------------------------------------------------------------------------
(* Steps that change nothing but where the run is.                         *)

LEMMA MovesOn ==
  ASSUME IInv, at' \in At, UNCHANGED <<fleet, job, local, processed, outside>>,
         at'.pc # "fetch",
         at'.left \subseteq job.scope,
         at'.pc \in OnOne => at'.torrent \in job.scope,
         at'.pc \in {"arr", "refetch"} => ~job.dry_run,
         at'.torrent # at.torrent => ~Spared(at'.torrent)
  PROVE  IInv' /\ Leaves
  <1>1. IInv'
    BY DEF IInv, Shape, ScopeInv, DryRunInv, FreshInv
  <1>2. Leaves
    BY DEF Leaves, Spared
  <1> QED
    BY <1>1, <1>2

LEMMA Going ==
  ASSUME IInv,
         NEW pc \in {"fetch", "rule", "torrent", "action", "arr", "refetch", "done", "raised"},
         Goes(pc)
  PROVE  at' \in At /\ at'.pc = pc /\ at'.torrent = at.torrent /\ at'.left = at.left
  <1>1. at \in At
    BY DEF IInv, Shape
  <1> QED
    BY <1>1 DEF Goes, At

LEMMA GoingToNextAction ==
  ASSUME IInv, NextAction
  PROVE  at' \in At /\ at'.pc = "action" /\ at'.torrent = at.torrent /\ at'.left = at.left
  <1>1. at \in At
    BY DEF IInv, Shape
  <1>2. at.action + 1 \in Nat
    BY <1>1 DEF At
  <1>3. at' = [at EXCEPT !.pc = "action", !.action = at.action + 1]
    BY <1>1 DEF NextAction, At
  <1> QED
    BY <1>1, <1>2, <1>3, Zenon DEF At

LEMMA NextRuleLeaves ==
  ASSUME IInv, NextRule \/ RuleEnds \/ FetchFails
  PROVE  IInv' /\ Leaves
  <1>1. at' \in At /\ at'.torrent = at.torrent /\ at'.pc \in {"rule", "torrent", "done", "raised"}
        /\ at'.left \in {at.left, job.scope}
    <2>1. CASE NextRule
      <3>1. at \in At /\ job.scope \subseteq Torrent
        BY DEF IInv, Shape
      <3>2. CASE at' = [at EXCEPT !.pc = "done"]
        BY <3>1, <3>2 DEF At
      <3>3. CASE at' = [at EXCEPT !.pc = "torrent", !.left = job.scope]
        BY <3>1, <3>3 DEF At
      <3>4. CASE at' = [at EXCEPT !.rule = @ + 1] /\ at.pc = "rule"
        BY <3>1, <3>4 DEF At
      <3> QED
        BY <2>1, <3>2, <3>3, <3>4 DEF NextRule
    <2>2. CASE RuleEnds
      <3>1. at \in At /\ at' = [at EXCEPT !.pc = "rule", !.rule = @ + 1]
        BY <2>2 DEF IInv, Shape, RuleEnds
      <3>2. at.rule + 1 \in Nat
        BY <3>1 DEF At
      <3> QED
        BY <3>1, <3>2 DEF At
    <2>3. CASE FetchFails
      <3>1. Goes("raised")
        BY <2>3 DEF FetchFails
      <3> QED
        BY <3>1, Going
    <2> QED
      BY <2>1, <2>2, <2>3
  <1>2. UNCHANGED <<fleet, job, local, processed, outside>>
    BY DEF NextRule, RuleEnds, FetchFails, runVars
  <1> QED
    BY <1>1, <1>2, MovesOn DEF IInv, ScopeInv, OnOne

LEMMA TorrentLeaves ==
  ASSUME IInv, NEW t \in Torrent, SkipTorrent(t) \/ EvaluationFails(t) \/ MatchTorrent(t)
  PROVE  IInv' /\ Leaves
  <1>1. t \in at.left /\ UNCHANGED <<fleet, job, local, processed, outside>>
    BY DEF SkipTorrent, EvaluationFails, MatchTorrent, runVars, Counts
  <1>2. CASE SkipTorrent(t) \/ EvaluationFails(t)
    <2>1. at' \in At /\ at'.torrent = at.torrent /\ at'.pc = "torrent" /\ at'.left \subseteq at.left
      BY <1>2 DEF SkipTorrent, EvaluationFails, At, IInv, Shape
    <2> QED
      BY <1>1, <2>1, MovesOn DEF IInv, ScopeInv, OnOne
  <1>3. CASE MatchTorrent(t)
    <2>1. at' \in At /\ at'.torrent = t /\ at'.pc = "action" /\ at'.left \subseteq at.left
      BY <1>3 DEF MatchTorrent, At, IInv, Shape
    <2>2. ~Spared(t)
      BY <1>3 DEF MatchTorrent
    <2> QED
      BY <1>1, <2>1, <2>2, MovesOn DEF IInv, ScopeInv, OnOne
  <1> QED
    BY <1>2, <1>3

\* The actions that are not sent, or whose outcome is not looked at.
LEMMA NextActionLeaves ==
  ASSUME IInv, SkipApplied \/ DryRun \/ RefetchFails
  PROVE  IInv' /\ Leaves
  <1>1. at' \in At /\ at'.torrent = at.torrent /\ at'.pc = "action" /\ at'.left = at.left
    <2>1. NextAction
      BY DEF SkipApplied, DryRun, RefetchFails
    <2> QED
      BY <2>1, GoingToNextAction
  <1>2. UNCHANGED <<fleet, job, local, processed, outside>> /\ at.pc \in OnOne
    BY DEF SkipApplied, DryRun, RefetchFails, runVars, AtAction, OnOne
  <1> QED
    BY <1>1, <1>2, MovesOn DEF IInv, ScopeInv, OnOne

LEMMA BlocklistMovesLeave ==
  ASSUME IInv, Begin \/ BlocklistSucceeds
  PROVE  IInv' /\ Leaves
  <1>1. at' \in At /\ at'.torrent = at.torrent /\ at'.pc \in {"arr", "refetch"} /\ at'.left = at.left
    BY DEF Begin, BlocklistSucceeds, Goes, At, IInv, Shape
  <1>2. UNCHANGED <<fleet, job, local, processed, outside>> /\ at.pc \in OnOne
    BY DEF Begin, BlocklistSucceeds, runVars, AtAction, OnOne
  <1>3. ~job.dry_run
    BY DEF Begin, BlocklistSucceeds, IInv, DryRunInv
  <1> QED
    BY <1>1, <1>2, <1>3, MovesOn DEF IInv, ScopeInv, OnOne

-----------------------------------------------------------------------------
(* Steps that change the torrent in hand.                                  *)

\* A command, in a run for real, to the torrent in hand.
LEMMA Commands ==
  ASSUME IInv, at.pc \in OnOne, ~job.dry_run, at' \in At,
         at'.torrent = at.torrent, at'.left = at.left, at'.pc \in OnOne,
         DOMAIN fleet' = Torrent,
         \A t \in Torrent : t # at.torrent => fleet'[t] = fleet[t],
         UNCHANGED <<job, local, processed, outside>>
  PROVE  IInv' /\ Leaves
  <1>1. IInv'
    BY DEF IInv, Shape, ScopeInv, DryRunInv, FreshInv, OnOne
  <1>2. at.torrent \in job.scope
    BY DEF IInv, ScopeInv
  <1>3. Leaves
    BY <1>2 DEF Leaves
  <1> QED
    BY <1>1, <1>3

LEMMA ActionLeaves ==
  ASSUME IInv, ExecuteAction \/ ActionFails
  PROVE  IInv' /\ Leaves
  <1>1. at' \in At /\ at'.torrent = at.torrent /\ at'.pc \in OnOne /\ at'.left = at.left
    <2>1. Goes("refetch") \/ NextAction
      BY DEF ExecuteAction, ActionFails
    <2> QED
      BY <2>1, Going, GoingToNextAction DEF OnOne
  <1>2. PICK f : fleet' = [fleet EXCEPT ![at.torrent] = f]
    BY DEF ExecuteAction, ActionFails
  <1>3. DOMAIN fleet' = Torrent /\ \A t \in Torrent : t # at.torrent => fleet'[t] = fleet[t]
    BY <1>2 DEF IInv, Shape
  <1>4. UNCHANGED <<job, local, processed, outside>> /\ at.pc \in OnOne /\ ~job.dry_run
    BY DEF ExecuteAction, ActionFails, runVars, AtAction, OnOne
  <1> QED
    BY <1>1, <1>3, <1>4, Commands

LEMMA BlocklistLeaves ==
  ASSUME IInv, BlocklistStep \/ BlocklistFails
  PROVE  IInv' /\ Leaves
  <1>1. at' \in At /\ at'.torrent = at.torrent /\ at'.pc \in OnOne /\ at'.left = at.left
    <2>1. CASE BlocklistStep
      BY <2>1 DEF BlocklistStep, IInv, Shape, OnOne
    <2>2. CASE BlocklistFails
      <3>1. NextAction
        BY <2>2 DEF BlocklistFails
      <3> QED
        BY <3>1, GoingToNextAction DEF OnOne
    <2> QED
      BY <2>1, <2>2
  <1>2. fleet' = fleet \/ fleet' = [fleet EXCEPT ![at.torrent].alive = FALSE]
    BY DEF BlocklistStep, BlocklistFails, RemovedFromClient
  <1>3. DOMAIN fleet' = Torrent /\ \A t \in Torrent : t # at.torrent => fleet'[t] = fleet[t]
    BY <1>2 DEF IInv, Shape
  <1>4. UNCHANGED <<job, local, processed, outside>> /\ at.pc \in OnOne /\ ~job.dry_run
    BY DEF BlocklistStep, BlocklistFails, runVars, OnOne, IInv, DryRunInv
  <1> QED
    BY <1>1, <1>3, <1>4, Commands

\* The torrent in hand is done with: it joins processed, if the rule says so.
LEMMA ActionsEndLeaves ==
  ASSUME IInv, ActionsEnd
  PROVE  IInv' /\ Leaves
  <1>1. at \in At /\ at' = [at EXCEPT !.pc = "torrent", !.torrent = NoTorrent, !.action = 1]
    BY DEF ActionsEnd, IInv, Shape
  <1>2. at' \in At /\ at'.torrent = NoTorrent /\ at'.pc = "torrent" /\ at'.left = at.left
    BY <1>1 DEF At
  <1>3. UNCHANGED <<fleet, job, local, outside>> /\ processed \subseteq processed'
    BY DEF ActionsEnd, runVars
  <1>4. IInv'
    BY <1>2, <1>3 DEF IInv, Shape, ScopeInv, DryRunInv, FreshInv, OnOne
  <1>5. Leaves
    BY <1>2, <1>3, ArrBlocklistAssumption DEF Leaves
  <1> QED
    BY <1>4, <1>5

\* The one step that narrows the scope and makes the dicts: before any rule.
LEMMA FetchLeaves ==
  ASSUME IInv, FetchTorrents
  PROVE  IInv' /\ Leaves
  <1>1. at' \in At /\ at'.torrent = at.torrent /\ at'.pc \in {"done", "rule"} /\ at'.left = at.left
    <2>1. Goes("done") \/ Goes("rule")
      BY DEF FetchTorrents
    <2> QED
      BY <2>1, Going
  <1>2. UNCHANGED <<fleet, processed, outside>> /\ at.pc = "fetch"
    BY DEF FetchTorrents
  <1>3. at.left = {} /\ processed = {} /\ \A t \in Torrent : ~local[t].deleted
    BY <1>2 DEF IInv, FreshInv
  <1>4. job' \in [context : {"cleanup", "import", "none"}, dry_run : BOOLEAN,
                  scope : SUBSET Torrent]
    BY DEF FetchTorrents, IInv, Shape
  <1>5. local' = [t \in Torrent |-> Fetched(t)]
    BY DEF FetchTorrents
  <1>6. Shape'
    BY <1>1, <1>2, <1>4, <1>5 DEF IInv, Shape, Fetched
  <1>7. IInv'
    BY <1>1, <1>3, <1>6 DEF IInv, ScopeInv, DryRunInv, FreshInv, OnOne
  <1>8. Leaves
    BY <1>2, <1>3 DEF Leaves
  <1> QED
    BY <1>7, <1>8

\* The re-fetch never unmarks a dict.
LEMMA RefetchLeaves ==
  ASSUME IInv, RefetchTorrent \/ RefetchNothing
  PROVE  IInv' /\ Leaves
  <1>1. at' \in At /\ at'.torrent = at.torrent /\ at'.pc = "action" /\ at'.left = at.left
    <2>1. NextAction
      BY DEF RefetchTorrent, RefetchNothing
    <2> QED
      BY <2>1, GoingToNextAction
  <1>2. UNCHANGED <<fleet, job, processed, outside>> /\ at.pc = "refetch"
    BY DEF RefetchTorrent, RefetchNothing, runVars
  <1>3. /\ DOMAIN local' = Torrent
        /\ \A t \in Torrent : /\ "deleted" \in DOMAIN local'[t]
                              /\ local'[t].deleted \in BOOLEAN
                              /\ local[t].deleted => local'[t].deleted
    <2>1. DOMAIN local = Torrent /\ \A t \in Torrent : "deleted" \in DOMAIN local[t]
                                                   /\ local[t].deleted \in BOOLEAN
      BY DEF IInv, Shape
    <2>2. CASE RefetchTorrent
      <3>1. PICK s, c, g : local' = [local EXCEPT ![at.torrent] =
                                       [@ EXCEPT !.state = s, !.category = c, !.tags = g]]
        BY <2>2 DEF RefetchTorrent
      <3> QED
        BY <2>1, <3>1
    <2>3. CASE RefetchNothing
      <3>1. local' = [local EXCEPT ![at.torrent].deleted = TRUE]
        BY <2>3 DEF RefetchNothing
      <3> QED
        BY <2>1, <3>1
    <2> QED
      BY <2>2, <2>3
  <1>4. Shape'
    BY <1>1, <1>2, <1>3 DEF IInv, Shape
  <1>5. ScopeInv' /\ DryRunInv' /\ FreshInv'
    BY <1>1, <1>2 DEF IInv, ScopeInv, DryRunInv, FreshInv, OnOne
  <1>6. ASSUME NEW t \in Torrent
        PROVE  /\ fleet'[t] = fleet[t]
               /\ at'.torrent = at.torrent
               /\ t \in processed \/ local[t].deleted => t \in processed' \/ local'[t].deleted
    BY <1>1, <1>2, <1>3
  <1>7. Leaves
    BY <1>6 DEF Leaves
  <1> QED
    BY <1>4, <1>5, <1>7 DEF IInv

-----------------------------------------------------------------------------
(* Others, and steps that are none.                                        *)

LEMMA OthersLeave ==
  ASSUME IInv, ChangeOutside \/ ArrMovesOn
  PROVE  IInv' /\ Leaves
  <1>1. outside' = outside + 1 /\ UNCHANGED <<job, local, processed, at>>
    BY DEF ChangeOutside, ArrMovesOn, Outside, runVars
  <1>2. DOMAIN fleet' = Torrent
    BY DEF ChangeOutside, ArrMovesOn, IInv, Shape
  <1>3. outside \in Nat
    BY DEF IInv, Shape
  <1>4. outside' \in Nat /\ outside' > outside
    BY <1>1, <1>3
  <1>5. IInv'
    BY <1>1, <1>2, <1>4 DEF IInv, Shape, ScopeInv, DryRunInv, FreshInv
  <1>6. Leaves
    BY <1>1, <1>4 DEF Leaves
  <1> QED
    BY <1>5, <1>6

LEMMA NextLeaves ==
  ASSUME IInv, [Next]_vars
  PROVE  IInv' /\ Leaves
  <1>1. CASE EngineStep
    BY <1>1, FetchLeaves, NextRuleLeaves, TorrentLeaves, ActionsEndLeaves, NextActionLeaves,
       ActionLeaves, RefetchLeaves DEF EngineStep
  <1>2. CASE Begin \/ BlocklistStep \/ BlocklistSucceeds \/ BlocklistFails
    BY <1>2, BlocklistMovesLeave, BlocklistLeaves
  <1>3. CASE ChangeOutside \/ ArrMovesOn
    BY <1>3, OthersLeave
  <1>4. CASE UNCHANGED vars
    <2>1. UNCHANGED <<fleet, job, local, processed, at, outside>>
      BY <1>4 DEF vars, engineVars, runVars
    <2> QED
      BY <2>1 DEF IInv, Shape, ScopeInv, DryRunInv, FreshInv, Leaves
  <1> QED
    BY <1>1, <1>2, <1>3, <1>4 DEF Next, RunStep

\* A dry run (run, engine.py) changes nothing in qBittorrent, a run for one hash
\* nothing but that torrent, and from the next rule on the run never takes up
\* again a torrent that a stop_on_match rule matched or that the re-fetch found
\* deleted: for any torrents, rules and scopes, and any number of failing requests.
THEOREM EngineLeavesAlone == Spec => LeavesAlone
  <1>1. IInv /\ [Next]_vars => IInv'
    BY NextLeaves
  <1>2. IInv /\ [Next]_vars => [Leaves]_vars
    BY NextLeaves
  <1>3. Spec => [][Leaves]_vars
    BY InitIInv, <1>1, <1>2, PTL DEF Spec
  <1> QED
    BY <1>3 DEF LeavesAlone, Leaves

-----------------------------------------------------------------------------
(* Types.                                                                  *)

Totals == [matched : Nat, executed : Nat, skipped : Nat, errors : Nat, already : Nat]

\* The loops stand at a rule and an action there are.
PlaceInv ==
    /\ at.rule \in Nat \ {0}
    /\ at.action \in Nat \ {0}
    /\ at.pc \in {"torrent"} \cup OnOne => at.rule <= Len(program)
    /\ at.pc \in OnOne => at.torrent \in Torrent
    /\ at.pc \in {"arr", "refetch"} => at.action <= Len(rule.actions)

Typed == TypeOK /\ PlaceInv

LEMMA RuleTyped ==
  ASSUME Typed, at.pc \in {"torrent"} \cup OnOne
  PROVE  rule \in Rule /\ rule.actions \in Seq(Action) /\ Len(rule.actions) \in Nat
  <1>1. program \in Seq(Rule)
    BY RulesEngineAssumption DEF Typed, TypeOK
  <1>2. at.rule \in 1 .. Len(program)
    BY <1>1, LenProperties DEF Typed, PlaceInv
  <1>3. rule \in Rule
    BY <1>1, <1>2, ElementOfSeq DEF rule
  <1>4. rule.actions \in Seq(Action)
    BY <1>3 DEF Rule
  <1> QED
    BY <1>3, <1>4, LenProperties

LEMMA ActionTyped ==
  ASSUME Typed, at.pc \in {"arr", "refetch"} \/ AtAction
  PROVE  action \in Action /\ at.torrent \in Torrent
  <1>1. rule.actions \in Seq(Action) /\ Len(rule.actions) \in Nat
    BY RuleTyped DEF OnOne, AtAction
  <1>2. at.action \in 1 .. Len(rule.actions) /\ at.torrent \in Torrent
    BY <1>1 DEF Typed, PlaceInv, AtAction, OnOne
  <1> QED
    BY <1>1, <1>2, ElementOfSeq DEF action

LEMMA CountsTyped ==
  ASSUME Typed, NEW f \in {"matched", "executed", "skipped", "errors", "already"}, Counts(f)
  PROVE  totals' \in Totals
  <1>1. totals \in Totals
    BY DEF Typed, TypeOK, Totals
  <1>2. totals[f] + 1 \in Nat
    BY <1>1 DEF Totals
  <1>3. totals' = [totals EXCEPT ![f] = totals[f] + 1]
    BY DEF Counts
  <1> QED
    BY <1>1, <1>2, <1>3 DEF Totals

\* What a step leaves to be shown that does not touch the fleet, the copies, the
\* counts or the arr.
LEMMA MovesTyped ==
  ASSUME Typed, UNCHANGED <<fleet, program, job, local, stats, arrVars>>,
         at' \in At, PlaceInv', processed' \in SUBSET Torrent, totals' \in Totals,
         faults' \in Nat, outside' \in Nat
  PROVE  Typed'
  BY DEF Typed, TypeOK, ArrTypeOK, arrVars, At, Totals

LEMMA FaultTyped == ASSUME Typed, Fault PROVE faults' \in Nat
  BY DEF Typed, TypeOK, Fault

LEMMA GoesTyped ==
  ASSUME Typed, NEW pc \in {"fetch", "rule", "torrent", "action", "arr", "refetch", "done", "raised"},
         Goes(pc)
  PROVE  /\ at' \in At
         /\ at'.pc = pc /\ at'.rule = at.rule /\ at'.left = at.left
         /\ at'.torrent = at.torrent /\ at'.action = at.action
  BY DEF Typed, TypeOK, At, Goes

LEMMA NextActionTyped ==
  ASSUME Typed, at.pc \in OnOne, NextAction, UNCHANGED program
  PROVE  /\ at' \in At /\ PlaceInv'
         /\ at'.pc = "action" /\ at'.rule = at.rule /\ at'.left = at.left
         /\ at'.torrent = at.torrent /\ at'.action = at.action + 1
  <1>1. at \in At
    BY DEF Typed, TypeOK, At
  <1>2. at.action + 1 \in Nat \ {0}
    BY <1>1 DEF At
  <1>3. at' = [at EXCEPT !.pc = "action", !.action = at.action + 1]
    BY <1>1 DEF NextAction, At
  <1>4. /\ at' \in At
        /\ at'.pc = "action" /\ at'.rule = at.rule /\ at'.left = at.left
        /\ at'.torrent = at.torrent /\ at'.action = at.action + 1
    BY <1>1, <1>2, <1>3, Zenon DEF At
  <1>5. PlaceInv'
    BY <1>2, <1>4 DEF Typed, PlaceInv, OnOne
  <1> QED
    BY <1>4, <1>5

LEMMA InitTyped == Init => Typed
  <1> SUFFICES ASSUME Init PROVE Typed
    OBVIOUS
  <1>1. ArrTypeOK
    <2>1. arrQueue \in Seq(Record) /\ IsInjective(arrQueue)
      BY ArrBlocklistAssumption DEF Init, ArrInit
    <2>2. call \in [step : {"none", "query", "delete", "search", "done"}, page : Nat \ {0},
                    found : Seq(Record), next : Nat \ {0}]
      BY EmptySeq DEF Init, ArrInit, NoCall
    <2> QED
      BY <2>1, <2>2 DEF Init, ArrInit, ArrTypeOK
  <1>2. job \in [context : {"cleanup", "import", "none"}, dry_run : BOOLEAN, scope : SUBSET Torrent]
    BY InitIInv DEF IInv, Shape
  <1>3. fleet \in [Torrent -> InClient] /\ local \in [Torrent -> Local]
    <2>1. fleet \in [Torrent -> InClient]
      BY InitFleet
    <2> QED
      BY <2>1 DEF Init, Fetched, InClient, Local
  <1>4. at \in At /\ PlaceInv
    BY DEF Init, At, PlaceInv, OnOne
  <1> QED
    BY <1>1, <1>2, <1>3, <1>4 DEF Init, Typed, TypeOK, At

\* The counts that a fetch makes.
LEMMA CountsAreInts ==
  /\ Cardinality(Alive) \in Nat
  /\ \A s : CountState(s) \in Nat
  /\ \A c : CountCategory(c) \in Nat
  /\ \A g : CountTag(g) \in Nat
  <1>1. ASSUME NEW S \in SUBSET Torrent PROVE Cardinality(S) \in Nat
    BY FS_Subset, FS_CardinalityType, RulesEngineAssumption
  <1> QED
    BY <1>1 DEF Alive, CountState, CountCategory, CountTag

\* The counts of stats.*.
Counted == [state : [State -> Int], category : [Category -> Int], tag : [Tag -> Int], total : Int]

LEMMA FetchTyped ==
  ASSUME Typed, FetchTorrents, UNCHANGED arrVars
  PROVE  Typed'
  <1>1. at' \in At /\ PlaceInv'
    <2>1. at' \in At /\ at'.pc \in {"done", "rule"} /\ at'.rule = at.rule /\ at'.action = at.action
      <3>1. Goes("done") \/ Goes("rule")
        BY DEF FetchTorrents
      <3> QED
        BY <3>1, GoesTyped
    <2> QED
      BY <2>1 DEF Typed, PlaceInv, OnOne
  <1>2. local' \in [Torrent -> Local]
    BY DEF FetchTorrents, Fetched, Typed, TypeOK, InClient, Local
  <1>3. stats' \in Counted
    BY CountsAreInts DEF FetchTorrents, Counted
  <1>4. job' \in [context : {"cleanup", "import", "none"}, dry_run : BOOLEAN, scope : SUBSET Torrent]
    BY DEF FetchTorrents, Typed, TypeOK
  <1> QED
    BY <1>1, <1>2, <1>3, <1>4 DEF FetchTorrents, Typed, TypeOK, At, Counted, ArrTypeOK, arrVars

LEMMA RunMovesTyped ==
  ASSUME Typed, NextRule \/ RuleEnds \/ FetchFails, UNCHANGED arrVars
  PROVE  Typed'
  <1>1. at \in At /\ PlaceInv /\ job.scope \subseteq Torrent
    BY DEF Typed, TypeOK, At
  <1>2. at.rule + 1 \in Nat \ {0}
    BY <1>1 DEF At
  <1>3. at' \in At /\ PlaceInv'
    <2>1. CASE NextRule
      <3>1. CASE at' = [at EXCEPT !.pc = "done"]
        BY <1>1, <3>1 DEF At, PlaceInv, OnOne
      <3>2. CASE at.rule <= Len(program) /\ at' = [at EXCEPT !.pc = "torrent", !.left = job.scope]
        <4>1. /\ at' \in At /\ at'.pc = "torrent" /\ at'.rule = at.rule /\ at'.action = at.action
          BY <1>1, <3>2 DEF At
        <4>2. program' = program
          BY <2>1 DEF NextRule, runVars
        <4> QED
          BY <1>1, <3>2, <4>1, <4>2 DEF PlaceInv, OnOne
      <3>3. CASE at.pc = "rule" /\ at' = [at EXCEPT !.rule = at.rule + 1]
        BY <1>1, <1>2, <3>3 DEF At, PlaceInv, OnOne
      <3>4. Len(program) \in Nat
        BY RulesEngineAssumption, LenProperties DEF Typed, TypeOK
      <3> QED
        BY <1>1, <2>1, <3>1, <3>2, <3>3, <3>4 DEF NextRule, At
    <2>2. CASE RuleEnds
      <3>1. at' = [at EXCEPT !.pc = "rule", !.rule = at.rule + 1]
        BY <1>1, <2>2 DEF RuleEnds
      <3> QED
        BY <1>1, <1>2, <3>1 DEF At, PlaceInv, OnOne
    <2>3. CASE FetchFails
      BY <1>1, <2>3, GoesTyped DEF FetchFails, PlaceInv, OnOne
    <2> QED
      BY <2>1, <2>2, <2>3
  <1>4. faults' \in Nat
    BY FaultTyped DEF NextRule, RuleEnds, FetchFails, Typed, TypeOK
  <1> QED
    BY <1>3, <1>4, MovesTyped DEF NextRule, RuleEnds, FetchFails, runVars, Typed, TypeOK, Totals

LEMMA TorrentTyped ==
  ASSUME Typed, NEW t \in Torrent, SkipTorrent(t) \/ EvaluationFails(t) \/ MatchTorrent(t),
         UNCHANGED arrVars
  PROVE  Typed'
  <1>1. at \in At /\ PlaceInv /\ at.pc = "torrent"
    BY DEF Typed, TypeOK, At, SkipTorrent, EvaluationFails, MatchTorrent
  <1>2. /\ UNCHANGED <<fleet, program, job, local, stats, processed, outside>>
        /\ faults' \in Nat
    BY FaultTyped DEF SkipTorrent, EvaluationFails, MatchTorrent, runVars, Typed, TypeOK
  <1>3. at' \in At /\ PlaceInv'
    <2>1. CASE at' = [at EXCEPT !.left = @ \ {t}]
      BY <1>1, <1>2, <2>1 DEF At, PlaceInv, OnOne
    <2>2. CASE at' = [at EXCEPT !.pc = "action", !.left = @ \ {t}, !.torrent = t, !.action = 1]
      <3>1. /\ at' \in At /\ at'.pc = "action" /\ at'.rule = at.rule /\ at'.action = 1
            /\ at'.torrent = t
        BY <1>1, <2>2 DEF At
      <3> QED
        BY <1>1, <1>2, <3>1 DEF PlaceInv, OnOne
    <2> QED
      BY <2>1, <2>2 DEF SkipTorrent, EvaluationFails, MatchTorrent
  <1>4. totals' \in Totals
    BY CountsTyped DEF SkipTorrent, EvaluationFails, MatchTorrent, Typed, TypeOK, Totals
  <1> QED
    BY <1>2, <1>3, <1>4, MovesTyped DEF Typed, TypeOK

LEMMA ActionsEndTyped ==
  ASSUME Typed, ActionsEnd, UNCHANGED arrVars
  PROVE  Typed'
  <1>1. at \in At /\ PlaceInv /\ at.pc = "action" /\ UNCHANGED program
    BY DEF Typed, TypeOK, At, ActionsEnd, runVars
  <1>2. at' = [at EXCEPT !.pc = "torrent", !.torrent = NoTorrent, !.action = 1]
    BY DEF ActionsEnd
  <1>3. at' \in At /\ PlaceInv'
    <2>1. /\ at' \in At /\ at'.pc = "torrent" /\ at'.rule = at.rule /\ at'.action = 1
      BY <1>1, <1>2 DEF At
    <2> QED
      BY <1>1, <2>1 DEF PlaceInv, OnOne
  <1>4. processed' \in SUBSET Torrent
    BY <1>1 DEF ActionsEnd, Typed, TypeOK, PlaceInv, OnOne
  <1> QED
    BY <1>3, <1>4, MovesTyped DEF ActionsEnd, runVars, Typed, TypeOK, Totals

LEMMA NextActionMovesTyped ==
  ASSUME Typed, SkipApplied \/ DryRun \/ RefetchFails, UNCHANGED arrVars
  PROVE  Typed'
  <1>1. at' \in At /\ PlaceInv'
    BY NextActionTyped DEF SkipApplied, DryRun, RefetchFails, AtAction, OnOne, runVars
  <1>2. totals' \in Totals
    <2>1. CASE SkipApplied
      <3>1. totals.skipped + 1 \in Nat /\ totals.already + 1 \in Nat /\ totals \in Totals
        BY DEF Typed, TypeOK, Totals
      <3>2. totals' = [totals EXCEPT !.skipped = totals.skipped + 1, !.already = totals.already + 1]
        BY <2>1 DEF SkipApplied
      <3> QED
        BY <3>1, <3>2 DEF Totals
    <2>2. CASE DryRun
      BY <2>2, CountsTyped DEF DryRun
    <2>3. CASE RefetchFails
      BY <2>3 DEF RefetchFails, Typed, TypeOK, Totals
    <2> QED
      BY <2>1, <2>2, <2>3
  <1>3. faults' \in Nat
    BY FaultTyped DEF SkipApplied, DryRun, RefetchFails, Typed, TypeOK
  <1> QED
    BY <1>1, <1>2, <1>3, MovesTyped
    DEF SkipApplied, DryRun, RefetchFails, runVars, Typed, TypeOK

-----------------------------------------------------------------------------
(* Types: the torrent in hand.                                             *)

LEMMA CommandedTyped ==
  ASSUME Typed, AtAction, NEW f \in InClient
  PROVE  Commanded(f) \in InClient /\ FailedCommand(f) \subseteq InClient
  <1>1. /\ action \in Action /\ action.type \in ActionType
        /\ action.tags \subseteq Tag /\ action.category \in InCategory
    BY ActionTyped DEF Action
  <1>2. f.tags \subseteq Tag /\ f.state \in State /\ f.category \in InCategory /\ f.alive \in BOOLEAN
    BY DEF InClient
  <1>3. Commanded(f) \in InClient
    <2>1. CASE action.type \in {"stop", "start", "force_start", "release_force_start"}
      BY <1>2, <2>1 DEF Commanded, InClient, State
    <2>2. CASE action.type \in {"set_category", "add_tag", "remove_tag", "set_tags"}
      BY <1>1, <1>2, <2>2 DEF Commanded, InClient
    <2>3. CASE action.type \in {"delete_torrent", "notify", "arr_blocklist"}
      BY <2>3 DEF Commanded, InClient
    <2> QED
      BY <1>1, <2>1, <2>2, <2>3 DEF ActionType
  <1>4. [f EXCEPT !.tags = @ \ known.tags] \in InClient
    BY <1>2 DEF InClient
  <1> QED
    BY <1>3, <1>4 DEF FailedCommand

\* What is left to be shown of a step that changes the torrent in hand and moves on.
LEMMA HandTyped ==
  ASSUME Typed, UNCHANGED <<program, job, local, stats, processed, outside>>,
         fleet' \in [Torrent -> InClient], ArrTypeOK',
         at' \in At, PlaceInv', totals' \in Totals, faults' \in Nat
  PROVE  Typed'
  BY DEF Typed, TypeOK, At, Totals

LEMMA ActionStepTyped ==
  ASSUME Typed, ExecuteAction \/ ActionFails, UNCHANGED arrVars
  PROVE  Typed'
  <1>1. at.pc \in OnOne /\ AtAction /\ UNCHANGED <<program, job, local, stats, processed, outside>>
    BY DEF ExecuteAction, ActionFails, AtAction, OnOne, runVars
  <1>2. fleet \in [Torrent -> InClient] /\ at.torrent \in Torrent
    BY <1>1 DEF Typed, TypeOK, PlaceInv
  <1>3. fleet' \in [Torrent -> InClient]
    <2>1. PICK f \in InClient : fleet' = [fleet EXCEPT ![at.torrent] = f]
      <3>1. CASE ExecuteAction
        BY <1>1, <1>2, <3>1, CommandedTyped DEF ExecuteAction
      <3>2. CASE ActionFails
        BY <1>1, <1>2, <3>2, CommandedTyped DEF ActionFails
      <3> QED
        BY <3>1, <3>2
    <2> QED
      BY <1>2, <2>1
  <1>4. at' \in At /\ PlaceInv'
    <2>1. CASE ExecuteAction
      <3>1. /\ at' \in At /\ at'.pc = "refetch" /\ at'.rule = at.rule /\ at'.action = at.action
            /\ at'.torrent = at.torrent
        BY <2>1, GoesTyped DEF ExecuteAction
      <3>2. rule' = rule
        BY <1>1, <3>1 DEF rule
      <3> QED
        BY <1>1, <3>1, <3>2 DEF Typed, PlaceInv, AtAction, OnOne
    <2>2. CASE ActionFails
      BY <1>1, <2>2, NextActionTyped DEF ActionFails
    <2> QED
      BY <2>1, <2>2
  <1>5. totals' \in Totals /\ faults' \in Nat
    BY CountsTyped, FaultTyped DEF ExecuteAction, ActionFails, Typed, TypeOK
  <1>6. ArrTypeOK'
    BY DEF Typed, TypeOK, ArrTypeOK, arrVars
  <1> QED
    BY <1>1, <1>3, <1>4, <1>5, <1>6, HandTyped

LEMMA RefetchTyped ==
  ASSUME Typed, RefetchTorrent \/ RefetchNothing, UNCHANGED arrVars
  PROVE  Typed'
  <1>1. at.pc = "refetch" /\ UNCHANGED <<fleet, program, job, processed, totals, faults, outside>>
    BY DEF RefetchTorrent, RefetchNothing, runVars
  <1>2. at' \in At /\ PlaceInv'
    BY <1>1, NextActionTyped DEF RefetchTorrent, RefetchNothing, OnOne
  <1>3. /\ at.torrent \in Torrent /\ known \in Local /\ known.state \in State
        /\ fleet[at.torrent] \in InClient /\ local \in [Torrent -> Local]
        /\ stats \in Counted
    BY <1>1 DEF Typed, TypeOK, PlaceInv, OnOne, known, Local, Counted
  <1>4. local' \in [Torrent -> Local]
    <2>1. /\ fleet[at.torrent].state \in State /\ fleet[at.torrent].category \in InCategory
          /\ fleet[at.torrent].tags \in SUBSET Tag
      BY <1>3 DEF InClient
    <2>2. CASE RefetchTorrent
      <3> DEFINE new == [local[at.torrent] EXCEPT !.state = fleet[at.torrent].state,
                                                  !.category = fleet[at.torrent].category,
                                                  !.tags = fleet[at.torrent].tags]
      <3>1. new \in Local
        BY <1>3, <2>1 DEF Local
      <3>2. local' = [local EXCEPT ![at.torrent] = new]
        BY <2>2 DEF RefetchTorrent
      <3> HIDE DEF new
      <3> QED
        BY <1>3, <3>1, <3>2
    <2>3. CASE RefetchNothing
      <3> DEFINE new == [local[at.torrent] EXCEPT !.deleted = TRUE]
      <3>1. new \in Local
        BY <1>3 DEF Local
      <3>2. local' = [local EXCEPT ![at.torrent] = new]
        BY <2>3 DEF RefetchNothing
      <3> HIDE DEF new
      <3> QED
        BY <1>3, <3>1, <3>2
    <2> QED
      BY <2>2, <2>3
  <1>5. stats' \in Counted
    <2>1. \A b : One(b) \in Int
      BY DEF One
    <2>2. CASE RefetchTorrent
      <3> DEFINE new == fleet[at.torrent]
                 states == [s \in State |-> stats.state[s] - One(s = known.state) + One(s = new.state)]
                 tags == [g \in Tag |-> stats.tag[g] - One(g \in known.tags) + One(g \in new.tags)]
      <3>1. states \in [State -> Int] /\ tags \in [Tag -> Int]
        BY <1>3, <2>1 DEF Counted
      <3>2. stats' = [stats EXCEPT !.state = states, !.tag = tags]
        BY <2>2 DEF RefetchTorrent
      <3> HIDE DEF states, tags
      <3> QED
        BY <1>3, <3>1, <3>2 DEF Counted
    <2>3. CASE RefetchNothing
      <3> DEFINE states == [stats.state EXCEPT ![known.state] = @ - 1]
                 categories == [c \in Category |-> stats.category[c] - One(c = known.category)]
                 tags == [g \in Tag |-> stats.tag[g] - One(g \in known.tags)]
      <3>1. /\ states \in [State -> Int] /\ categories \in [Category -> Int]
            /\ tags \in [Tag -> Int] /\ stats.total - 1 \in Int
        BY <1>3, <2>1 DEF Counted
      <3>2. stats' = [state |-> states, category |-> categories, tag |-> tags,
                      total |-> stats.total - 1]
        BY <2>3 DEF RefetchNothing
      <3> HIDE DEF states, categories, tags
      <3> QED
        BY <3>1, <3>2 DEF Counted
    <2> QED
      BY <2>2, <2>3
  <1> QED
    BY <1>1, <1>2, <1>4, <1>5 DEF Typed, TypeOK, At, Counted, ArrTypeOK, arrVars

-----------------------------------------------------------------------------
(* Types: the requests to the arr.                                         *)

LEMMA ArrFacts ==
  ASSUME Typed
  PROVE  /\ arrQueue \in Seq(Record) /\ Len(arrQueue) \in Nat
         /\ DOMAIN arrQueue = 1 .. Len(arrQueue)
         /\ \A a \in 1 .. Len(arrQueue) : arrQueue[a] \in Record
         /\ call.found \in Seq(Record) /\ Len(call.found) \in Nat
         /\ DOMAIN call.found = 1 .. Len(call.found)
         /\ call.page \in Nat \ {0} /\ call.next \in Nat \ {0}
  BY LenProperties, ElementOfSeq DEF Typed, TypeOK, ArrTypeOK

\* Pages follow each other.
LEMMA NextPage ==
  ASSUME NEW p \in Nat \ {0}, NEW k \in Nat \ {0}
  PROVE  p * k \in Nat /\ (p - 1) * k \in Nat /\ p * k = (p - 1) * k + k
  <1>1. p - 1 \in Nat /\ p = (p - 1) + 1
    OBVIOUS
  <1>2. \A q \in Nat : q * k \in Nat
    OBVIOUS
  <1>3. \A q \in Nat : (q + 1) * k = q * k + k
    OBVIOUS
  <1> QED
    BY <1>1, <1>2, <1>3

\* A page is the part of the queue from its first place to its last.
LEMMA PageOfQueue ==
  ASSUME Typed
  PROVE  LET last == call.page * PageSize
             n == IF last <= Len(arrQueue) THEN last ELSE Len(arrQueue)
         IN /\ last \in Nat /\ n \in Nat /\ n <= Len(arrQueue)
            /\ last = (call.page - 1) * PageSize + PageSize
            /\ (call.page - 1) * PageSize \in Nat
            /\ Page = SubSeq(arrQueue, last - PageSize + 1, n)
            /\ Page \in Seq(Record)
  <1>1. PageSize \in Nat \ {0} /\ call.page \in Nat \ {0} /\ Len(arrQueue) \in Nat
    BY ArrFacts, ArrBlocklistAssumption
  <1>2. /\ call.page * PageSize \in Nat
        /\ (call.page - 1) * PageSize \in Nat
        /\ call.page * PageSize = (call.page - 1) * PageSize + PageSize
    BY <1>1, NextPage
  <1> DEFINE last == call.page * PageSize
             n == IF last <= Len(arrQueue) THEN last ELSE Len(arrQueue)
  <1>3. n \in Nat /\ n <= Len(arrQueue) /\ last - PageSize + 1 \in Nat \ {0}
    BY <1>1, <1>2
  <1>4. Page = SubSeq(arrQueue, last - PageSize + 1, n)
    BY DEF Page
  <1>5. \A i \in last - PageSize + 1 .. n : arrQueue[i] \in Record
    BY <1>1, <1>3, ArrFacts
  <1>6. Page \in Seq(Record)
    BY <1>1, <1>2, <1>3, <1>4, <1>5, SubSeqProperties
  <1> QED
    BY <1>2, <1>3, <1>4, <1>6

\* A record is taken off the queue, which otherwise stays as it is.
LEMMA TakenOff ==
  ASSUME Typed, NEW r, arrQueue' = Only(arrQueue, Record \ {r})
  PROVE  /\ arrQueue' \in Seq(Record) /\ IsInjective(arrQueue')
         /\ \A q \in Record : IsQueued(q)' <=> IsQueued(q) /\ q # r
  <1> DEFINE T == Record \ {r}
             new == Only(arrQueue, T)
  <1>1. new \in Seq(Record) /\ PickedFrom(new, arrQueue, T, Len(arrQueue))
    BY ArrFacts, OnlyProperties
  <1> HIDE DEF new
  <1>2. DOMAIN new = 1 .. Len(new) /\ Len(new) \in Nat
    BY <1>1, LenProperties
  <1>3. ASSUME NEW a \in 1 .. Len(new), NEW b \in 1 .. Len(new), a < b
        PROVE  new[a] # new[b]
    <2>1. PICK c \in 1 .. Len(arrQueue), d \in 1 .. Len(arrQueue) :
            c < d /\ new[a] = arrQueue[c] /\ new[b] = arrQueue[d]
      BY <1>1, <1>3 DEF PickedFrom
    <2>2. c # d
      BY <2>1, ArrFacts
    <2>3. IsInjective(arrQueue)
      BY DEF Typed, TypeOK, ArrTypeOK
    <2> QED
      BY <2>1, <2>2, <2>3, ArrFacts DEF IsInjective
  <1>4. \A a, b \in 1 .. Len(new) : a < b \/ b < a \/ a = b
    BY <1>2
  <1>5. IsInjective(new)
    BY <1>2, <1>3, <1>4 DEF IsInjective
  <1>6. ASSUME NEW q \in Record
        PROVE  q \in Range(new) <=> q \in Range(arrQueue) /\ q # r
    <2>1. q \in Range(new) <=> \E a \in 1 .. Len(new) : new[a] = q
      BY <1>2 DEF Range
    <2>2. q \in Range(arrQueue) <=> \E c \in 1 .. Len(arrQueue) : arrQueue[c] = q
      BY ArrFacts DEF Range
    <2> QED
      BY <1>1, <2>1, <2>2 DEF PickedFrom
  <1>7. arrQueue' = new
    BY DEF new
  <1> QED
    BY <1>1, <1>5, <1>6, <1>7 DEF IsQueued

Call == [step : {"none", "query", "delete", "search", "done"}, page : Nat \ {0},
         found : Seq(Record), next : Nat \ {0}]

LEMMA NoCallTyped == NoCall \in Call
  BY EmptySeq DEF NoCall, Call

LEMMA QueryFinds ==
  ASSUME Typed, NEW t
  PROVE  /\ Only(Page, RecordsOf(t)) \in Seq(Record)
         /\ call.found \o Only(Page, RecordsOf(t)) \in Seq(Record)
  <1>1. Page \in Seq(Record)
    BY PageOfQueue
  <1>2. Only(Page, RecordsOf(t)) \in Seq(Record)
    BY <1>1, OnlyProperties
  <1> QED
    BY <1>2, ArrFacts, ConcatProperties

LEMMA RequestTyped ==
  ASSUME Typed, NEW t, NEW s,
         QueryPage(t) \/ DeleteRecord(s) \/ Search \/ RecordGone \/ RequestFails
  PROVE  ArrTypeOK'
  <1>1. call \in Call
    BY DEF Typed, TypeOK, ArrTypeOK, Call
  <1>2. arrQueue' \in Seq(Record) /\ IsInjective(arrQueue')
    <2>1. CASE UNCHANGED arrQueue
      BY <2>1 DEF Typed, TypeOK, ArrTypeOK
    <2>2. CASE arrQueue' = Only(arrQueue, Record \ {record})
      BY <2>2, TakenOff
    <2> QED
      BY <2>1, <2>2 DEF QueryPage, DeleteRecord, Search, RecordGone, RequestFails, Deleted
  <1>3. call' \in Call
    <2>1. CASE QueryPage(t)
      <3> DEFINE found == call.found \o Only(Page, RecordsOf(t))
                 page == IF LastPage THEN call.page ELSE call.page + 1
                 step == IF ~LastPage THEN "query"
                         ELSE IF found = <<>> THEN "done" ELSE "delete"
      <3>1. call' = [call EXCEPT !.found = found, !.page = page, !.step = step]
        BY <2>1, <1>1 DEF QueryPage, Call
      <3>2. found \in Seq(Record)
        BY QueryFinds
      <3>3. page \in Nat \ {0} /\ step \in {"query", "done", "delete"}
        BY <1>1 DEF Call
      <3> HIDE DEF found, page, step
      <3> QED
        BY <1>1, <3>1, <3>2, <3>3 DEF Call
    <2>2. CASE DeleteRecord(s)
      <3>1. call.next + 1 \in Nat \ {0}
        BY <1>1 DEF Call
      <3>2. PICK step \in {"delete", "search", "done"} :
              call' = [call EXCEPT !.next = call.next + 1, !.step = step]
        BY <2>2 DEF DeleteRecord
      <3> QED
        BY <1>1, <3>1, <3>2 DEF Call
    <2>3. CASE Search
      BY <1>1, <2>3 DEF Search, Call
    <2>4. CASE RecordGone \/ RequestFails
      BY <2>4, NoCallTyped DEF RecordGone, RequestFails
    <2> QED
      BY <2>1, <2>2, <2>3, <2>4
  <1>4. {blocklisted, searched}' \subseteq SUBSET Record
    <2>1. {blocklisted, searched} \subseteq SUBSET Record /\ Range(call.found) \subseteq Record
      BY ArrFacts, ElementOfSeq DEF Typed, TypeOK, ArrTypeOK, Range
    <2>2. IsQueued(record) => record \in Record
      BY ArrFacts DEF IsQueued, Range
    <2> QED
      BY <2>1, <2>2 DEF QueryPage, DeleteRecord, Search, RecordGone, RequestFails, Deleted
  <1> QED
    BY <1>2, <1>3, <1>4 DEF ArrTypeOK, Call

LEMMA RemovalTyped ==
  ASSUME Typed, at.pc = "arr", RemovedFromClient
  PROVE  fleet' \in [Torrent -> InClient]
  <1>1. at.torrent \in Torrent /\ fleet \in [Torrent -> InClient]
    BY DEF Typed, TypeOK, PlaceInv, OnOne
  <1>2. [fleet[at.torrent] EXCEPT !.alive = FALSE] \in InClient
    BY <1>1 DEF InClient
  <1> QED
    BY <1>1, <1>2 DEF RemovedFromClient

LEMMA BlocklistTyped ==
  ASSUME Typed, Begin \/ BlocklistStep \/ BlocklistSucceeds \/ BlocklistFails
  PROVE  Typed'
  <1>1. UNCHANGED <<program, job, local, stats, processed, outside>>
    BY DEF Begin, BlocklistStep, BlocklistSucceeds, BlocklistFails, runVars
  <1>2. fleet' \in [Torrent -> InClient]
    BY RemovalTyped DEF Begin, BlocklistStep, BlocklistSucceeds, BlocklistFails, Typed, TypeOK
  <1>3. ArrTypeOK'
    <2>1. CASE Begin
      <3>1. call' \in Call
        BY <2>1, NoCallTyped DEF Begin, BeginBlocklist, Call
      <3> QED
        BY <2>1, <3>1 DEF Begin, BeginBlocklist, Typed, TypeOK, ArrTypeOK, Call
    <2>2. CASE BlocklistStep
      BY <2>2, RequestTyped DEF BlocklistStep
    <2>3. CASE BlocklistSucceeds
      BY <2>3, NoCallTyped DEF BlocklistSucceeds, Typed, TypeOK, ArrTypeOK, Call
    <2>4. CASE BlocklistFails
      BY <2>4, RequestTyped DEF BlocklistFails
    <2> QED
      BY <2>1, <2>2, <2>3, <2>4
  <1>4. at' \in At /\ PlaceInv'
    <2>1. CASE Begin \/ BlocklistSucceeds
      <3>1. /\ at' \in At /\ at'.pc \in {"arr", "refetch"} /\ at'.rule = at.rule
            /\ at'.action = at.action /\ at'.torrent = at.torrent
        <4>1. Goes("arr") \/ Goes("refetch")
          BY <2>1 DEF Begin, BlocklistSucceeds
        <4> QED
          BY <4>1, GoesTyped
      <3>2. rule' = rule /\ at.pc \in OnOne
        BY <1>1, <2>1, <3>1 DEF rule, Begin, BlocklistSucceeds, AtAction, OnOne
      <3>3. at.action <= Len(rule.actions)
        BY <2>1 DEF Begin, BlocklistSucceeds, AtAction, Typed, PlaceInv
      <3> QED
        BY <1>1, <3>1, <3>2, <3>3 DEF Typed, PlaceInv, OnOne
    <2>2. CASE BlocklistStep
      BY <1>1, <2>2 DEF BlocklistStep, Typed, TypeOK, At, PlaceInv, rule
    <2>3. CASE BlocklistFails
      BY <1>1, <2>3, NextActionTyped DEF BlocklistFails, OnOne
    <2> QED
      BY <2>1, <2>2, <2>3
  <1>5. totals' \in Totals
    BY CountsTyped DEF Begin, BlocklistStep, BlocklistSucceeds, BlocklistFails, Typed, TypeOK, Totals
  <1>6. faults' \in Nat
    BY FaultTyped DEF Begin, BlocklistStep, BlocklistSucceeds, BlocklistFails, Typed, TypeOK
  <1> QED
    BY <1>1, <1>2, <1>3, <1>4, <1>5, <1>6, HandTyped

LEMMA OthersTyped ==
  ASSUME Typed, (ChangeOutside /\ UNCHANGED arrVars) \/ ArrMovesOn
  PROVE  Typed'
  <1>1. UNCHANGED <<program, job, local, stats, processed, totals, at, faults>> /\ outside' \in Nat
    BY DEF ChangeOutside, ArrMovesOn, Outside, runVars, Typed, TypeOK
  <1>2. fleet' \in [Torrent -> InClient]
    <2>1. CASE ArrMovesOn
      BY <2>1 DEF ArrMovesOn, Typed, TypeOK
    <2>2. CASE ChangeOutside
      <3>1. PICK t \in Torrent, f \in InClient : fleet' = [fleet EXCEPT ![t] = f]
        <4>1. PICK t \in Alive :
                \/ fleet' = [fleet EXCEPT ![t].alive = FALSE]
                \/ \E c \in InCategory : fleet' = [fleet EXCEPT ![t].category = c]
                \/ \E g \in Tag : fleet' = [fleet EXCEPT ![t].tags = @ \cup {g}]
                \/ fleet' = [fleet EXCEPT ![t].state = IF @ = "paused" THEN "running" ELSE "paused"]
          BY <2>2 DEF ChangeOutside
        <4>2. t \in Torrent /\ fleet[t] \in InClient
          BY <4>1 DEF Alive, Typed, TypeOK
        <4>3. [fleet[t] EXCEPT !.alive = FALSE] \in InClient
          BY <4>2 DEF InClient
        <4>4. \A g \in Tag : [fleet[t] EXCEPT !.tags = @ \cup {g}] \in InClient
          BY <4>2 DEF InClient
        <4>5. [fleet[t] EXCEPT !.state = IF @ = "paused" THEN "running" ELSE "paused"] \in InClient
          BY <4>2 DEF InClient, State
        <4>6. \A c \in InCategory : [fleet[t] EXCEPT !.category = c] \in InClient
          BY <4>2 DEF InClient
        <4> QED
          BY <4>1, <4>2, <4>3, <4>4, <4>5, <4>6
      <3> QED
        BY <3>1 DEF Typed, TypeOK
    <2> QED
      BY <2>1, <2>2
  <1>3. ArrTypeOK'
    <2>1. CASE ArrMovesOn
      BY <2>1, TakenOff DEF ArrMovesOn, LeavesArr, Typed, TypeOK, ArrTypeOK
    <2>2. CASE UNCHANGED arrVars
      BY <2>2 DEF Typed, TypeOK, ArrTypeOK, arrVars
    <2> QED
      BY <2>1, <2>2
  <1>4. at' \in At /\ PlaceInv'
    BY <1>1 DEF Typed, TypeOK, At, PlaceInv, rule
  <1> QED
    BY <1>1, <1>2, <1>3, <1>4 DEF Typed, TypeOK, At

LEMMA NextTyped ==
  ASSUME Typed, [Next]_vars
  PROVE  Typed'
  <1>1. CASE EngineStep /\ UNCHANGED arrVars
    BY <1>1, FetchTyped, RunMovesTyped, TorrentTyped, ActionsEndTyped, NextActionMovesTyped,
       ActionStepTyped, RefetchTyped DEF EngineStep
  <1>2. CASE Begin \/ BlocklistStep \/ BlocklistSucceeds \/ BlocklistFails
    BY <1>2, BlocklistTyped
  <1>3. CASE (ChangeOutside /\ UNCHANGED arrVars) \/ ArrMovesOn
    BY <1>3, OthersTyped
  <1>4. CASE UNCHANGED vars
    BY <1>4 DEF vars, engineVars, arrVars, runVars, Typed, TypeOK, ArrTypeOK, PlaceInv, rule
  <1> QED
    BY <1>1, <1>2, <1>3, <1>4 DEF Next, RunStep

LEMMA SpecTyped == Spec => []Typed
  BY InitTyped, NextTyped, PTL DEF Spec

\* The state of a run (RulesEngine.run, engine.py) is well typed: no count, no
\* copy of a torrent and no position leaves its type, whatever the rules, the
\* fleet, the arr's queue, and what fails or changes meanwhile.
THEOREM EngineTypesOK == Spec => []TypeOK
  <1>1. Typed => TypeOK
    BY DEF Typed
  <1> QED
    BY <1>1, SpecTyped, PTL

-----------------------------------------------------------------------------
(* arr_blocklist, while nothing goes wrong and nobody else is at work: the  *)
(* pages are the queue, and what was found is what is left to delete.       *)

Mine == RecordsOf(at.torrent)

CallInv ==
    Undisturbed /\ at.pc = "arr" =>
      /\ call.step = "query" =>
            /\ call.next = 1
            /\ (call.page - 1) * PageSize <= Len(arrQueue)
            /\ PickedFrom(call.found, arrQueue, Mine, (call.page - 1) * PageSize)
      /\ call.step = "delete" =>
            /\ call.next <= Len(call.found)
            /\ \A a, b \in 1 .. Len(call.found) : a # b => call.found[a] # call.found[b]
            /\ \A a \in 1 .. Len(call.found) :
                  call.found[a] \in Mine /\ (a < call.next => call.found[a] \in blocklisted)
            /\ \A r \in Mine :
                  IsQueued(r) <=> \E a \in call.next .. Len(call.found) : call.found[a] = r
      /\ call.step \in {"search", "done"} =>
            /\ \A r \in Mine : ~IsQueued(r)
            /\ Range(call.found) \subseteq blocklisted
      /\ call.step = "done" /\ "search" \in action.params => Range(call.found) \subseteq searched

\* What went wrong stays counted.
LEMMA UndisturbedSoFar ==
  ASSUME Typed, [Next]_vars, Undisturbed'
  PROVE  Undisturbed /\ faults' = faults /\ outside' = outside
  <1>1. faults' = faults \/ Fault
    <2>1. CASE EngineStep
      BY <2>1 DEF EngineStep, FetchTorrents, FetchFails, NextRule, RuleEnds, SkipTorrent,
         EvaluationFails, MatchTorrent, ActionsEnd, SkipApplied, DryRun, ExecuteAction, ActionFails,
         RefetchTorrent, RefetchNothing, RefetchFails
    <2>2. CASE Begin \/ BlocklistStep \/ BlocklistSucceeds \/ BlocklistFails
      BY <2>2 DEF Begin, BlocklistStep, BlocklistSucceeds, BlocklistFails
    <2>3. CASE ChangeOutside \/ ArrMovesOn \/ UNCHANGED vars
      BY <2>3 DEF ChangeOutside, ArrMovesOn, vars, engineVars
    <2> QED
      BY <2>1, <2>2, <2>3 DEF Next, RunStep
  <1>2. outside' = outside \/ Outside
    <2>1. CASE EngineStep
      BY <2>1 DEF EngineStep, FetchTorrents, FetchFails, NextRule, RuleEnds, SkipTorrent,
         EvaluationFails, MatchTorrent, ActionsEnd, SkipApplied, DryRun, ExecuteAction, ActionFails,
         RefetchTorrent, RefetchNothing, RefetchFails
    <2>2. CASE Begin \/ BlocklistStep \/ BlocklistSucceeds \/ BlocklistFails
      BY <2>2 DEF Begin, BlocklistStep, BlocklistSucceeds, BlocklistFails
    <2>3. CASE ChangeOutside \/ ArrMovesOn \/ UNCHANGED vars
      BY <2>3 DEF ChangeOutside, ArrMovesOn, vars, engineVars
    <2> QED
      BY <2>1, <2>2, <2>3 DEF Next, RunStep
  <1>3. faults \in Nat /\ outside \in Nat
    BY DEF Typed, TypeOK
  <1> QED
    BY <1>1, <1>2, <1>3 DEF Undisturbed, Fault, Outside

\* Nothing found twice: the queue has a record once.
LEMMA PickedOnce ==
  ASSUME Typed, NEW f \in Seq(Record), NEW T, NEW n \in Nat, n <= Len(arrQueue),
         PickedFrom(f, arrQueue, T, n),
         NEW a \in 1 .. Len(f), NEW b \in 1 .. Len(f), a # b
  PROVE  f[a] # f[b]
  <1>1. \A c, d \in 1 .. n : c < d => arrQueue[c] # arrQueue[d]
    <2>1. \A c \in 1 .. n : c \in DOMAIN arrQueue
      BY ArrFacts
    <2>2. IsInjective(arrQueue)
      BY DEF Typed, TypeOK, ArrTypeOK
    <2>3. \A c, d \in 1 .. n : c < d => c # d
      OBVIOUS
    <2> QED
      BY <2>1, <2>2, <2>3 DEF IsInjective
  <1>2. \A i, k \in 1 .. Len(f) : i < k => f[i] # f[k]
    <2> SUFFICES ASSUME NEW i \in 1 .. Len(f), NEW k \in 1 .. Len(f), i < k PROVE f[i] # f[k]
      OBVIOUS
    <2>1. PICK c \in 1 .. n, d \in 1 .. n : c < d /\ f[i] = arrQueue[c] /\ f[k] = arrQueue[d]
      BY DEF PickedFrom
    <2> QED
      BY <1>1, <2>1
  <1>3. Len(f) \in Nat
    BY LenProperties
  <1>4. a < b \/ b < a
    BY <1>3
  <1> QED
    BY <1>2, <1>4

\* What was found up to the last page is the torrent's records, all of them.
LEMMA QueryKeeps ==
  ASSUME Typed, CallInv, Undisturbed, at.pc = "arr", QueryPage(at.torrent),
         UNCHANGED <<at, program>>
  PROVE  CallInv'
  <1> DEFINE m == (call.page - 1) * PageSize
             last == call.page * PageSize
             n == IF last <= Len(arrQueue) THEN last ELSE Len(arrQueue)
             found == call.found \o Only(Page, Mine)
  <1>1. /\ call.step = "query" /\ call.next = 1 /\ m <= Len(arrQueue)
        /\ PickedFrom(call.found, arrQueue, Mine, m)
    BY DEF QueryPage, CallInv
  <1>2. /\ m \in Nat /\ last \in Nat /\ n \in Nat /\ last = m + PageSize
        /\ PageSize \in Nat \ {0} /\ n <= Len(arrQueue) /\ Len(arrQueue) \in Nat
        /\ Page = SubSeq(arrQueue, last - PageSize + 1, n)
    BY PageOfQueue, ArrFacts, ArrBlocklistAssumption
  <1>3. n = IF last <= Len(arrQueue) THEN last ELSE Len(arrQueue)
    OBVIOUS
  <1> HIDE DEF m, last, n
  <1>3a. last - PageSize + 1 = m + 1 /\ m <= n
    BY <1>1, <1>2, <1>3
  <1>4. Page = SubSeq(arrQueue, m + 1, n)
    BY <1>2, <1>3a
  <1>5. Len(Page) = n - m /\ Page \in Seq(Record)
    <2>1. \A i \in m + 1 .. n : arrQueue[i] \in Record
      BY <1>2, ArrFacts
    <2>2. Page \in Seq(Record) /\ Len(Page) = IF m + 1 <= n THEN n - (m + 1) + 1 ELSE 0
      BY <1>2, <1>4, <2>1, SubSeqProperties
    <2>3. (m + 1 <= n => n - (m + 1) + 1 = n - m) /\ (~(m + 1 <= n) => n - m = 0)
      BY <1>2, <1>3a
    <2> QED
      BY <2>2, <2>3
  <1>6. found \in Seq(Record) /\ PickedFrom(found, arrQueue, Mine, n)
    <2>1. Only(Page, Mine) \in Seq(Record) /\ PickedFrom(Only(Page, Mine), Page, Mine, n - m)
      BY <1>5, OnlyProperties
    <2>2. found \in Seq(Record)
      BY <2>1, ArrFacts, ConcatProperties
    <2> QED
      BY <1>1, <1>2, <1>3a, <1>4, <2>1, <2>2, ConcatPicks, ArrFacts
  <1>7. Len(found) \in Nat /\ DOMAIN found = 1 .. Len(found)
    BY <1>6, LenProperties
  <1>8. /\ call'.found = found /\ call'.next = 1
        /\ call'.page = IF LastPage THEN call.page ELSE call.page + 1
        /\ call'.step = IF ~LastPage THEN "query" ELSE IF found = <<>> THEN "done" ELSE "delete"
        /\ UNCHANGED <<arrQueue, blocklisted, searched>>
    BY <1>1 DEF QueryPage, Mine, Typed, TypeOK, ArrTypeOK
  <1>9. Mine' = Mine
    BY DEF Mine
  <1> HIDE DEF found
  <1>10. CASE ~LastPage
    <2>1. last < Len(arrQueue)
      BY <1>10, <1>2 DEF LastPage, last
    <2>2. n = last
      BY <1>2, <1>3, <2>1
    <2>3. (call'.page - 1) * PageSize = last
      BY <1>8, <1>10, ArrFacts DEF last
    <2> QED
      BY <1>2, <1>6, <1>8, <1>9, <1>10, <2>1, <2>2, <2>3 DEF CallInv
  <1>11. CASE LastPage
    <2>1. n = Len(arrQueue)
      BY <1>2, <1>3, <1>11 DEF LastPage, last
    <2>2. \A r : IsQueued(r) <=> \E c \in 1 .. n : arrQueue[c] = r
      BY <2>1, ArrFacts DEF IsQueued, Range
    <2>3. \A r \in Mine : IsQueued(r) <=> \E a \in 1 .. Len(found) : found[a] = r
      <3> SUFFICES ASSUME NEW r \in Mine
                   PROVE  IsQueued(r) <=> \E a \in 1 .. Len(found) : found[a] = r
        OBVIOUS
      <3>1. ASSUME NEW c \in 1 .. n, arrQueue[c] = r PROVE \E a \in 1 .. Len(found) : found[a] = r
        BY <1>6, <3>1 DEF PickedFrom
      <3>2. ASSUME NEW a \in 1 .. Len(found), found[a] = r PROVE \E c \in 1 .. n : arrQueue[c] = r
        BY <1>6, <3>2 DEF PickedFrom
      <3> QED
        BY <2>2, <3>1, <3>2
    <2>4. \A r : IsQueued(r)' <=> IsQueued(r)
      BY <1>8 DEF IsQueued
    <2>5. CASE found = <<>>
      <3>1. Len(found) = 0 /\ Range(found) = {}
        BY <1>7, <2>5, EmptySeq DEF Range
      <3> QED
        BY <1>8, <1>9, <1>11, <2>3, <2>4, <2>5, <3>1 DEF CallInv
    <2>6. CASE found # <<>>
      <3>1. 1 <= Len(found)
        BY <1>6, <1>7, <2>6, EmptySeq
      <3>2. \A a, b \in 1 .. Len(found) : a # b => found[a] # found[b]
        BY <1>2, <1>6, PickedOnce
      <3>3. \A a \in 1 .. Len(found) : found[a] \in Mine /\ ~(a < 1)
        BY <1>6 DEF PickedFrom
      <3> QED
        BY <1>8, <1>9, <1>11, <2>3, <2>4, <2>6, <3>1, <3>2, <3>3 DEF CallInv
    <2> QED
      BY <2>5, <2>6
  <1> QED
    BY <1>10, <1>11

\* A record found is deleted, once; the others wait.
LEMMA DeleteKeeps ==
  ASSUME Typed, CallInv, Undisturbed, at.pc = "arr", DeleteRecord("search" \in action.params),
         UNCHANGED <<at, program>>
  PROVE  CallInv'
  <1> DEFINE f == call.found
             n == call.next
  <1>1. /\ n \in Nat \ {0} /\ Len(f) \in Nat /\ n <= Len(f)
        /\ \A a, b \in 1 .. Len(f) : a # b => f[a] # f[b]
        /\ \A a \in 1 .. Len(f) : f[a] \in Mine /\ (a < n => f[a] \in blocklisted)
        /\ \A r \in Mine : IsQueued(r) <=> \E a \in n .. Len(f) : f[a] = r
    BY ArrFacts DEF CallInv, DeleteRecord
  <1>2. /\ arrQueue' = Only(arrQueue, Record \ {f[n]})
        /\ blocklisted' = blocklisted \cup {f[n]} /\ searched' = searched
    BY DEF DeleteRecord, Deleted, record
  <1>3. \A r \in Mine : IsQueued(r)' <=> IsQueued(r) /\ r # f[n]
    BY <1>2, TakenOff DEF Mine, RecordsOf
  <1>4. /\ call'.found = f /\ call'.next = n + 1
        /\ call'.step = IF n < Len(f) THEN "delete"
                        ELSE IF "search" \in action.params THEN "search" ELSE "done"
    BY DEF DeleteRecord, Typed, TypeOK, ArrTypeOK
  <1>5. Mine' = Mine /\ action' = action /\ DOMAIN f = 1 .. Len(f)
    BY ArrFacts DEF Mine, action, rule
  <1> HIDE DEF f, n
  <1>6. \A a \in 1 .. Len(f) : a < n + 1 => f[a] \in blocklisted'
    <2>1. \A a \in 1 .. Len(f) : a < n + 1 => a < n \/ a = n
      BY <1>1
    <2> QED
      BY <1>1, <1>2, <2>1
  <1>7. \A r \in Mine : IsQueued(r)' <=> \E a \in n + 1 .. Len(f) : f[a] = r
    <2> SUFFICES ASSUME NEW r \in Mine
                 PROVE  IsQueued(r)' <=> \E a \in n + 1 .. Len(f) : f[a] = r
      OBVIOUS
    <2>1. ASSUME NEW a \in n .. Len(f), f[a] = r, r # f[n] PROVE a \in n + 1 .. Len(f)
      <3>1. a # n
        BY <2>1
      <3> QED
        BY <1>1, <3>1
    <2>2. ASSUME NEW a \in n + 1 .. Len(f), f[a] = r PROVE a \in n .. Len(f) /\ r # f[n]
      <3>1. a \in n .. Len(f) /\ a \in 1 .. Len(f) /\ n \in 1 .. Len(f) /\ a # n
        BY <1>1
      <3> QED
        BY <1>1, <2>2, <3>1
    <2> QED
      BY <1>1, <1>3, <2>1, <2>2
  <1>8. CASE n < Len(f)
    <2>1. n + 1 <= Len(f)
      BY <1>1, <1>8
    <2> QED
      BY <1>1, <1>4, <1>5, <1>6, <1>7, <1>8, <2>1 DEF CallInv
  <1>9. CASE ~(n < Len(f))
    <2>1. \A a \in 1 .. Len(f) : a < n + 1 /\ ~(a \in n + 1 .. Len(f))
      BY <1>1, <1>9
    <2>2. n + 1 .. Len(f) = {}
      BY <1>1, <1>9
    <2>3. \A r \in Mine : ~IsQueued(r)'
      BY <1>7, <2>2
    <2>4. Range(f) \subseteq blocklisted'
      BY <1>5, <1>6, <2>1 DEF Range
    <2> QED
      BY <1>4, <1>5, <1>9, <2>3, <2>4 DEF CallInv
  <1> QED
    BY <1>8, <1>9

LEMMA SearchKeeps ==
  ASSUME Typed, CallInv, Undisturbed, at.pc = "arr", Search, UNCHANGED <<at, program>>
  PROVE  CallInv'
  <1>1. /\ call.step = "search" /\ call'.step = "done" /\ call'.found = call.found
        /\ UNCHANGED <<arrQueue, blocklisted>> /\ Range(call.found) \subseteq searched'
    BY DEF Search, Typed, TypeOK, ArrTypeOK
  <1>2. (\A r \in Mine : ~IsQueued(r)) /\ Range(call.found) \subseteq blocklisted
    BY <1>1 DEF CallInv
  <1>3. Mine' = Mine /\ \A r : IsQueued(r)' <=> IsQueued(r)
    BY <1>1 DEF Mine, IsQueued
  <1> QED
    BY <1>1, <1>2, <1>3 DEF CallInv

\* As long as nobody else takes records off the queue, none that was found is gone.
LEMMA NoneIsGone ==
  ASSUME Typed, CallInv, Undisturbed, at.pc = "arr"
  PROVE  ~RecordGone
  <1> SUFFICES ASSUME call.step = "delete" PROVE IsQueued(record)
    BY DEF RecordGone
  <1>1. call.next \in call.next .. Len(call.found) /\ call.next \in 1 .. Len(call.found)
    BY ArrFacts DEF CallInv
  <1>2. record \in Mine
    BY <1>1 DEF CallInv, record
  <1> QED
    BY <1>1, <1>2 DEF CallInv, record

\* Where no arr_blocklist is under way, none gets under way but by Begin.
LEMMA OnlyBeginBegins ==
  ASSUME Typed, EngineStep
  PROVE  at'.pc # "arr"
  <1>1. at \in At
    BY DEF Typed, TypeOK, At
  <1>2. CASE FetchTorrents \/ FetchFails \/ ExecuteAction
    <2>1. Goes("done") \/ Goes("rule") \/ Goes("raised") \/ Goes("refetch")
      BY <1>2 DEF FetchTorrents, FetchFails, ExecuteAction
    <2> QED
      BY <2>1, GoesTyped
  <1>3. CASE NextRule \/ RuleEnds \/ ActionsEnd
    BY <1>1, <1>3 DEF NextRule, RuleEnds, ActionsEnd, At
  <1>4. ASSUME NEW t \in Torrent, SkipTorrent(t) \/ EvaluationFails(t) \/ MatchTorrent(t)
        PROVE  at'.pc # "arr"
    BY <1>1, <1>4 DEF SkipTorrent, EvaluationFails, MatchTorrent, At
  <1>5. CASE SkipApplied \/ DryRun \/ ActionFails \/ RefetchTorrent \/ RefetchNothing \/ RefetchFails
    <2>1. NextAction
      BY <1>5 DEF SkipApplied, DryRun, ActionFails, RefetchTorrent, RefetchNothing, RefetchFails
    <2> QED
      BY <1>1, <2>1 DEF NextAction, At
  <1> QED
    BY <1>2, <1>3, <1>4, <1>5 DEF EngineStep

LEMMA NextCallInv ==
  ASSUME Typed, CallInv, [Next]_vars
  PROVE  CallInv'
  <1> SUFFICES ASSUME Undisturbed' PROVE CallInv'
    BY DEF CallInv
  <1>1. Undisturbed /\ faults' = faults /\ outside' = outside
    BY UndisturbedSoFar
  <1>2. ~Fault /\ ~Outside
    BY <1>1 DEF Fault, Outside, Typed, TypeOK
  <1>3. CASE EngineStep
    BY <1>3, OnlyBeginBegins DEF CallInv
  <1>4. CASE Begin
    <2>1. /\ call'.step = "query" /\ call'.next = 1 /\ call'.page = 1 /\ call'.found = <<>>
          /\ arrQueue' = arrQueue
      BY <1>4 DEF Begin, BeginBlocklist, NoCall
    <2>2. (call'.page - 1) * PageSize = 0
      BY <2>1, ArrBlocklistAssumption
    <2>3. PickedFrom(<<>>, arrQueue', Mine', 0)
      BY EmptySeq DEF PickedFrom
    <2> QED
      BY <2>1, <2>2, <2>3, ArrFacts DEF CallInv
  <1>5. CASE BlocklistStep
    <2>1. at.pc = "arr" /\ UNCHANGED <<at, program>>
      BY <1>5 DEF BlocklistStep, runVars
    <2> QED
      BY <1>1, <1>5, <2>1, QueryKeeps, DeleteKeeps, SearchKeeps DEF BlocklistStep
  <1>6. CASE BlocklistSucceeds
    BY <1>6, GoesTyped DEF BlocklistSucceeds, CallInv
  <1>7. CASE BlocklistFails
    BY <1>1, <1>2, <1>7, NoneIsGone DEF BlocklistFails
  <1>8. CASE ChangeOutside \/ ArrMovesOn
    BY <1>2, <1>8 DEF ChangeOutside, ArrMovesOn
  <1>9. CASE UNCHANGED vars
    BY <1>1, <1>9 DEF vars, engineVars, runVars, arrVars, CallInv, Mine, RecordsOf, IsQueued, PickedFrom,
       action, rule
  <1> QED
    BY <1>3, <1>4, <1>5, <1>6, <1>7, <1>8, <1>9 DEF Next, RunStep

\* What arr_blocklist promises (docs/wiki/Actions.md, "blocklists every record, and
\* triggers one combined search"): for any queue, any page size and any number of
\* records of the torrent, when nothing fails and nobody else is at work, success
\* means that none of them is queued and that all that were are searched for.
THEOREM EngineReplacesEveryRecord == Spec => ReplacesEveryRecord
  <1> DEFINE Replaces ==
        at.pc = "arr" /\ at'.pc = "refetch" /\ Undisturbed
          => /\ RecordsOf(at.torrent) \cap Range(arrQueue) = {}
             /\ "search" \in action.params => Range(call.found) \subseteq blocklisted \cap searched
  <1>1. Init => CallInv
    BY DEF Init, CallInv
  <1>2. ASSUME Typed, CallInv, Next, at.pc = "arr", at'.pc = "refetch", Undisturbed
        PROVE  call.step = "done"
    <2>1. BlocklistSucceeds
      <3>1. ~EngineStep
        BY <1>2 DEF EngineStep, FetchTorrents, FetchFails, NextRule, RuleEnds, SkipTorrent,
           EvaluationFails, MatchTorrent, ActionsEnd, SkipApplied, DryRun, ExecuteAction, ActionFails,
           RefetchTorrent, RefetchNothing, RefetchFails, AtAction
      <3>2. ~Begin /\ ~BlocklistStep /\ ~ChangeOutside /\ ~ArrMovesOn
        BY <1>2 DEF Begin, AtAction, BlocklistStep, ChangeOutside, ArrMovesOn
      <3>3. ~BlocklistFails
        <4>1. BlocklistFails => at'.pc = "action"
          BY <1>2, NextActionTyped DEF BlocklistFails, OnOne, runVars
        <4> QED
          BY <1>2, <4>1
      <3> QED
        BY <1>2, <3>1, <3>2, <3>3 DEF Next, RunStep
    <2> QED
      BY <2>1 DEF BlocklistSucceeds
  <1>3. ASSUME Typed, CallInv, Next PROVE Replaces
    <2> SUFFICES ASSUME at.pc = "arr", at'.pc = "refetch", Undisturbed
                 PROVE  /\ RecordsOf(at.torrent) \cap Range(arrQueue) = {}
                        /\ "search" \in action.params =>
                              Range(call.found) \subseteq blocklisted \cap searched
      OBVIOUS
    <2>1. call.step = "done"
      BY <1>2, <1>3
    <2> QED
      BY <1>3, <2>1 DEF CallInv, Mine, IsQueued
  <1>4. Typed /\ CallInv /\ [Next]_vars => CallInv' /\ [Replaces]_vars
    BY <1>3, NextCallInv
  <1>5. Spec => [][Replaces]_vars
    BY <1>1, <1>4, SpecTyped, PTL DEF Spec
  <1> QED
    BY <1>5 DEF ReplacesEveryRecord

-----------------------------------------------------------------------------
(* The copies of the one fetch follow qBittorrent, but for the torrent that *)
(* was just commanded.                                                     *)

InStep(t) ==
    /\ local[t].state = fleet[t].state
    /\ local[t].category = fleet[t].category
    /\ local[t].tags = fleet[t].tags

SyncInv ==
    Undisturbed =>
      \A t \in Torrent :
        fleet[t].alive => InStep(t) \/ (at.pc = "refetch" /\ t = at.torrent)

LEMMA InitSync == Init => SyncInv
  BY DEF Init, SyncInv, InStep, Fetched

LEMMA SyncMoves ==
  ASSUME Typed, SyncInv, [Next]_vars, UNCHANGED <<fleet, local>>,
         at.pc = "refetch" => at'.pc = "refetch" /\ at'.torrent = at.torrent
  PROVE  SyncInv'
  BY UndisturbedSoFar DEF SyncInv, InStep

\* A command changes nothing but the torrent in hand.
LEMMA SyncCommands ==
  ASSUME Typed, SyncInv, [Next]_vars, at.pc \in OnOne, UNCHANGED local, at'.torrent = at.torrent,
         \A t \in Torrent : t # at.torrent => fleet'[t] = fleet[t],
         \/ at'.pc = "refetch"
         \/ /\ at.pc # "refetch"
            /\ fleet'[at.torrent].alive => fleet' = fleet
  PROVE  SyncInv'
  BY UndisturbedSoFar DEF SyncInv, InStep

LEMMA NextSync ==
  ASSUME Typed, SyncInv, [Next]_vars
  PROVE  SyncInv'
  <1> SUFFICES ASSUME Undisturbed' PROVE SyncInv'
    BY DEF SyncInv
  <1>1. ~Fault /\ ~Outside /\ Undisturbed
    BY UndisturbedSoFar DEF Fault, Outside, Typed, TypeOK
  <1>2. CASE FetchTorrents
    BY <1>2 DEF FetchTorrents, SyncInv, InStep, Fetched
  <1>3. CASE NextRule \/ RuleEnds \/ ActionsEnd \/ SkipApplied \/ DryRun \/ Begin
    BY <1>3, SyncMoves DEF NextRule, RuleEnds, ActionsEnd, SkipApplied, DryRun, Begin, AtAction
  <1>4. ASSUME NEW t \in Torrent, SkipTorrent(t) \/ MatchTorrent(t) PROVE SyncInv'
    BY <1>4, SyncMoves DEF SkipTorrent, MatchTorrent
  <1>5. CASE ExecuteAction
    <2>1. at'.pc = "refetch" /\ at'.torrent = at.torrent
      BY <1>5, GoesTyped DEF ExecuteAction
    <2>2. \A t \in Torrent : t # at.torrent => fleet'[t] = fleet[t]
      BY <1>5 DEF ExecuteAction, Typed, TypeOK
    <2> QED
      BY <1>5, <2>1, <2>2, SyncCommands DEF ExecuteAction, AtAction, OnOne
  <1>6. CASE RefetchTorrent
    <2>1. at.pc = "refetch" /\ at.torrent \in Torrent /\ fleet' = fleet
      BY <1>6 DEF RefetchTorrent, Typed, PlaceInv, OnOne
    <2>2. \A t \in Torrent : t # at.torrent => local'[t] = local[t]
      BY <1>6 DEF RefetchTorrent, Typed, TypeOK
    <2>3. InStep(at.torrent)'
      <3>1. /\ local'[at.torrent].state = fleet[at.torrent].state
            /\ local'[at.torrent].category = fleet[at.torrent].category
            /\ local'[at.torrent].tags = fleet[at.torrent].tags
        BY <1>6, <2>1 DEF RefetchTorrent, Typed, TypeOK, Local
      <3>2. at'.torrent = at.torrent
        BY <1>6, <2>1, NextActionTyped DEF RefetchTorrent, OnOne, runVars
      <3> QED
        BY <2>1, <3>1, <3>2 DEF InStep
    <2>4. at'.torrent = at.torrent
      BY <1>6, <2>1, NextActionTyped DEF RefetchTorrent, OnOne, runVars
    <2> QED
      BY <1>1, <2>1, <2>2, <2>3, <2>4 DEF SyncInv, InStep
  <1>7. CASE RefetchNothing
    <2>1. at.pc = "refetch" /\ ~fleet[at.torrent].alive /\ fleet' = fleet
      BY <1>7 DEF RefetchNothing
    <2>2. \A t \in Torrent : t # at.torrent => local'[t] = local[t]
      BY <1>7 DEF RefetchNothing, Typed, TypeOK
    <2> QED
      BY <1>1, <2>1, <2>2 DEF SyncInv, InStep
  <1>8. CASE BlocklistStep \/ BlocklistFails
    <2>1. at.pc = "arr" /\ local' = local /\ at'.torrent = at.torrent
      BY <1>8, NextActionTyped DEF BlocklistStep, BlocklistFails, OnOne, runVars
    <2>2. at.torrent \in Torrent /\ fleet \in [Torrent -> InClient]
      BY <2>1 DEF Typed, TypeOK, PlaceInv, OnOne
    <2>3. fleet' = fleet \/ fleet' = [fleet EXCEPT ![at.torrent].alive = FALSE]
      BY <1>8 DEF BlocklistStep, BlocklistFails, RemovedFromClient
    <2>4. /\ \A t \in Torrent : t # at.torrent => fleet'[t] = fleet[t]
          /\ fleet'[at.torrent].alive => fleet' = fleet
      BY <2>2, <2>3 DEF InClient
    <2> QED
      BY <2>1, <2>4, SyncCommands DEF OnOne
  <1>9. CASE BlocklistSucceeds
    BY <1>9, GoesTyped, SyncMoves DEF BlocklistSucceeds
  <1>10. ~FetchFails /\ ~ActionFails /\ ~RefetchFails /\ \A t \in Torrent : ~EvaluationFails(t)
    BY <1>1 DEF FetchFails, ActionFails, RefetchFails, EvaluationFails
  <1>11. ~ChangeOutside /\ ~ArrMovesOn
    BY <1>1 DEF ChangeOutside, ArrMovesOn
  <1>12. CASE UNCHANGED vars
    BY <1>1, <1>12 DEF vars, engineVars, SyncInv, InStep
  <1> QED
    BY <1>2, <1>3, <1>4, <1>5, <1>6, <1>7, <1>8, <1>9, <1>10, <1>11, <1>12
    DEF Next, RunStep, EngineStep

\* An action that is not needed has been done; a command does what it says.
LEMMA AppliedIsSatisfied ==
  ASSUME NamedPaused = {"paused"}, Typed, AtAction, AlreadyApplied, InStep(at.torrent)
  PROVE  Satisfied(fleet[at.torrent], action)
  <1>1. action.type \in ActionType
    BY ActionTyped DEF Action
  <1> QED
    BY <1>1 DEF ActionType, AlreadyApplied, Satisfied, InStep, known

LEMMA CommandedIsSatisfied ==
  ASSUME Typed, AtAction, NEW f \in InClient, f.alive, Commanded(f).alive,
         f.tags = known.tags
  PROVE  Satisfied(Commanded(f), action)
  <1>1. action.type \in ActionType
    BY ActionTyped DEF Action
  <1>2. CASE action.type \in {"stop", "start", "force_start", "release_force_start"}
    BY <1>2 DEF Commanded, Satisfied, InClient
  <1>3. CASE action.type \in {"set_category", "add_tag", "remove_tag", "set_tags"}
    BY <1>3 DEF Commanded, Satisfied, InClient
  <1>4. CASE action.type = "delete_torrent"
    BY <1>4 DEF Commanded, InClient
  <1>5. CASE action.type \in {"notify", "arr_blocklist"}
    BY <1>5 DEF Satisfied
  <1> QED
    BY <1>1, <1>2, <1>3, <1>4, <1>5 DEF ActionType

Succeeds ==
    (/\ AtAction /\ Undisturbed' /\ ~job.dry_run
     /\ totals'.executed + totals'.skipped > totals.executed + totals.skipped)
    => LET f == fleet[at.torrent]' IN f.alive => Satisfied(f, action)

LEMMA NextSucceeds ==
  ASSUME NamedPaused = {"paused"}, Typed, SyncInv, Next
  PROVE  Succeeds
  <1> SUFFICES ASSUME AtAction, Undisturbed', ~job.dry_run,
                      totals'.executed + totals'.skipped > totals.executed + totals.skipped,
                      fleet'[at'.torrent].alive
               PROVE  Satisfied(fleet'[at'.torrent], action)
    BY DEF Succeeds
  <1>1. ~Fault /\ ~Outside /\ Undisturbed
    BY UndisturbedSoFar DEF Fault, Outside, Typed, TypeOK
  <1>2. totals' # totals /\ at.torrent \in Torrent /\ fleet[at.torrent] \in InClient
    BY DEF Typed, TypeOK, PlaceInv, OnOne, AtAction
  <1>3. fleet[at.torrent].alive => InStep(at.torrent)
    BY <1>1, <1>2 DEF SyncInv, AtAction
  <1>4. SkipApplied \/ ExecuteAction
    <2>1. ~ChangeOutside /\ ~ArrMovesOn /\ ~ActionFails
      BY <1>1 DEF ChangeOutside, ArrMovesOn, ActionFails
    <2>2. ~DryRun /\ ~Begin /\ ~BlocklistStep /\ ~BlocklistSucceeds /\ ~BlocklistFails
      BY <1>2 DEF DryRun, Begin, BlocklistStep, BlocklistSucceeds, BlocklistFails, AtAction
    <2>3. EngineStep
      BY <2>1, <2>2 DEF Next, RunStep
    <2> QED
      BY <1>2, <2>1, <2>2, <2>3 DEF EngineStep, FetchTorrents, FetchFails, NextRule, RuleEnds,
         SkipTorrent, EvaluationFails, MatchTorrent, ActionsEnd, RefetchTorrent, RefetchNothing,
         RefetchFails, AtAction
  <1>5. CASE SkipApplied
    <2>1. fleet' = fleet /\ at'.torrent = at.torrent /\ AlreadyApplied
      BY <1>5, NextActionTyped DEF SkipApplied, AtAction, OnOne, runVars
    <2> QED
      BY <1>3, <2>1, AppliedIsSatisfied
  <1>6. CASE ExecuteAction
    <2>1. at'.torrent = at.torrent
      BY <1>6, GoesTyped DEF ExecuteAction
    <2>2. fleet'[at.torrent] = Commanded(fleet[at.torrent])
      BY <1>2, <1>6 DEF ExecuteAction, Typed, TypeOK
    <2>3. fleet[at.torrent].alive
      <3>1. ~fleet[at.torrent].alive => Commanded(fleet[at.torrent]) = fleet[at.torrent]
        BY Zenon DEF Commanded
      <3>2. fleet'[at.torrent].alive
        BY <2>1
      <3> QED
        BY <2>2, <3>1, <3>2
    <2>4. fleet[at.torrent].tags = known.tags
      BY <1>3, <2>3 DEF InStep, known
    <2> QED
      BY <1>2, <2>1, <2>2, <2>3, <2>4, CommandedIsSatisfied
  <1> QED
    BY <1>4, <1>5, <1>6

\* "Skipped if already in desired state" (docs/wiki/Actions.md): where every paused
\* state is named so, as in qBittorrent 4, an action counted as executed or as
\* already applied has left its torrent as asked, however many actions of however
\* many rules came before; the copy the check looks at never misleads it.
THEOREM EngineSuccessMeansDesiredState ==
  ASSUME NamedPaused = {"paused"}
  PROVE  Spec => SuccessMeansDesiredState
  <1>1. Typed /\ SyncInv /\ [Next]_vars => SyncInv' /\ [Succeeds]_vars
    BY NextSync, NextSucceeds
  <1>2. Spec => [][Succeeds]_vars
    BY <1>1, InitSync, SpecTyped, PTL DEF Spec
  <1> QED
    BY <1>2 DEF SuccessMeansDesiredState, Succeeds

-----------------------------------------------------------------------------
(* The counts, for rules files in which nothing follows a deletion.  An     *)
(* action that does takes the torrent off the counts once more.            *)

Deletes(a) ==
    \/ a.type = "delete_torrent"
    \/ a.type = "arr_blocklist" /\ "remove_from_client" \in a.params

DeletesLast ==
    \A p \in Programs : \A i \in 1 .. Len(p) : \A k \in 1 .. Len(p[i].actions) :
        Deletes(p[i].actions[k]) => k = Len(p[i].actions)

\* A dict is marked when its torrent is gone, but for the one in hand, which is not
\* marked as long as something is left to be done to it.
MarkedInv ==
    Undisturbed =>
      /\ \A t \in Torrent :
           t # at.torrent \/ at.pc \notin {"arr", "refetch"} =>
             (local[t].deleted <=> ~fleet[t].alive)
      /\ at.pc \in {"arr", "refetch"} =>
           /\ ~local[at.torrent].deleted
           /\ ~fleet[at.torrent].alive => Deletes(action)
      /\ AtAction => ~local[at.torrent].deleted

\* Requests are made to an arr only on behalf of arr_blocklist.
ArrInv == at.pc = "arr" => action.type = "arr_blocklist"

Kept == {t \in Torrent : ~local[t].deleted}
KeptIn(s) == {t \in Kept : local[t].state = s}
KeptWith(g) == {t \in Kept : g \in local[t].tags}

\* stats.total, .state and .tag count the dicts that are not marked.
StatsInv ==
    Undisturbed /\ at.pc # "fetch" =>
      /\ stats.total = Cardinality(Kept)
      /\ \A s \in State : stats.state[s] = Cardinality(KeptIn(s))
      /\ \A g \in Tag : stats.tag[g] = Cardinality(KeptWith(g))

LEMMA NextArrInv ==
  ASSUME Typed, ArrInv, [Next]_vars
  PROVE  ArrInv'
  <1>1. CASE EngineStep
    BY <1>1, OnlyBeginBegins DEF ArrInv
  <1>2. CASE Begin
    <2>1. UNCHANGED program /\ at'.rule = at.rule /\ at'.action = at.action
      BY <1>2, GoesTyped DEF Begin, runVars
    <2> QED
      BY <1>2, <2>1 DEF ArrInv, Begin, action, rule
  <1>3. CASE BlocklistStep \/ ChangeOutside \/ ArrMovesOn \/ UNCHANGED vars
    BY <1>3 DEF BlocklistStep, ChangeOutside, ArrMovesOn, vars, engineVars, runVars, ArrInv, action, rule
  <1>4. CASE BlocklistSucceeds
    BY <1>4, GoesTyped DEF BlocklistSucceeds, ArrInv
  <1>5. CASE BlocklistFails
    BY <1>5, NextActionTyped DEF BlocklistFails, OnOne, runVars, ArrInv
  <1> QED
    BY <1>1, <1>2, <1>3, <1>4, <1>5 DEF Next, RunStep

LEMMA DeletionIsLast ==
  ASSUME DeletesLast, Typed, at.pc \in {"arr", "refetch"}, Deletes(action)
  PROVE  at.action = Len(rule.actions)
  <1>1. program \in Programs /\ at.rule \in 1 .. Len(program)
    <2>1. program \in Programs /\ Len(program) \in Nat
      BY RulesEngineAssumption, LenProperties DEF Typed, TypeOK
    <2> QED
      BY <2>1 DEF Typed, PlaceInv, OnOne
  <1>2. at.action \in 1 .. Len(rule.actions)
    BY RuleTyped DEF Typed, PlaceInv, OnOne
  <1> QED
    BY <1>1, <1>2 DEF DeletesLast, action, rule

\* Steps that change neither fleet nor dicts, and leave the torrent in hand.
LEMMA MarkedMoves ==
  ASSUME Typed, MarkedInv, [Next]_vars, UNCHANGED <<fleet, local>>,
         at.pc \notin {"arr", "refetch"}, at'.pc \notin {"arr", "refetch"},
         AtAction' => ~local[at'.torrent].deleted
  PROVE  MarkedInv'
  BY UndisturbedSoFar DEF MarkedInv

\* Steps on the torrent in hand, which is not marked, up to its re-fetch.
LEMMA MarkedCommands ==
  ASSUME Typed, MarkedInv, [Next]_vars, UNCHANGED <<local, program>>,
         at.pc \in OnOne, at'.pc \in {"arr", "refetch"},
         at'.torrent = at.torrent, at'.rule = at.rule, at'.action = at.action,
         ~local[at.torrent].deleted,
         \A t \in Torrent : t # at.torrent => fleet'[t] = fleet[t],
         ~fleet'[at.torrent].alive => Deletes(action)
  PROVE  MarkedInv'
  <1>1. action' = action
    BY DEF action, rule
  <1>2. ~AtAction'
    BY DEF AtAction
  <1>3. \A t \in Torrent \ {at.torrent} : Undisturbed => (local[t].deleted <=> ~fleet[t].alive)
    BY DEF MarkedInv
  <1> QED
    BY <1>1, <1>2, <1>3, UndisturbedSoFar DEF MarkedInv, Deletes

LEMMA NextMarked ==
  ASSUME DeletesLast, IInv, Typed, CallInv, ArrInv, MarkedInv, [Next]_vars
  PROVE  MarkedInv'
  <1> SUFFICES ASSUME Undisturbed' PROVE MarkedInv'
    BY DEF MarkedInv
  <1>1. ~Fault /\ ~Outside /\ Undisturbed
    BY UndisturbedSoFar DEF Fault, Outside, Typed, TypeOK
  <1>2. CASE FetchTorrents
    <2>1. at.pc = "fetch" /\ fleet' = fleet /\ local' = [t \in Torrent |-> Fetched(t)]
      BY <1>2 DEF FetchTorrents
    <2>2. \A t \in Torrent : fleet[t].alive
      BY <1>1, <2>1 DEF IInv, FreshInv, MarkedInv
    <2>3. at'.pc \in {"done", "rule"}
      <3>1. Goes("done") \/ Goes("rule")
        BY <1>2 DEF FetchTorrents
      <3> QED
        BY <3>1, GoesTyped
    <2> QED
      BY <2>1, <2>2, <2>3 DEF MarkedInv, Fetched, AtAction
  <1>3. CASE NextRule \/ RuleEnds \/ ActionsEnd
    <2>1. at'.pc \in {"done", "torrent", "rule"} /\ at.pc \in {"rule", "torrent", "action"}
          /\ UNCHANGED <<fleet, local>>
      BY <1>3 DEF NextRule, RuleEnds, ActionsEnd, Typed, TypeOK
    <2> QED
      BY <2>1, MarkedMoves DEF AtAction
  <1>4. ASSUME NEW t \in Torrent, SkipTorrent(t) \/ MatchTorrent(t) PROVE MarkedInv'
    <2>1. at.pc = "torrent" /\ UNCHANGED <<fleet, local>>
      BY <1>4 DEF SkipTorrent, MatchTorrent
    <2>2. CASE SkipTorrent(t)
      BY <2>1, <2>2, MarkedMoves DEF SkipTorrent, AtAction, Typed, TypeOK
    <2>3. CASE MatchTorrent(t)
      <3>1. at'.pc = "action" /\ at'.torrent = t
        BY <2>3 DEF MatchTorrent, Typed, TypeOK
      <3>2. ~local[t].deleted
        BY <2>3 DEF MatchTorrent, Spared
      <3> QED
        BY <2>1, <3>1, <3>2, MarkedMoves
    <2> QED
      BY <1>4, <2>2, <2>3
  <1>5. CASE SkipApplied \/ DryRun
    <2>1. AtAction /\ at.pc = "action" /\ UNCHANGED <<fleet, local>> /\ NextAction
      BY <1>5 DEF SkipApplied, DryRun, AtAction
    <2>2. at'.pc = "action" /\ at'.torrent = at.torrent
      BY <1>5, <2>1, NextActionTyped DEF OnOne, SkipApplied, DryRun, runVars
    <2>3. ~local[at.torrent].deleted
      BY <1>1, <2>1 DEF MarkedInv
    <2> QED
      BY <2>1, <2>2, <2>3, MarkedMoves
  <1>6. CASE ExecuteAction \/ Begin
    <2>1. AtAction /\ UNCHANGED <<local, program>> /\ ~local[at.torrent].deleted
      BY <1>1, <1>6 DEF ExecuteAction, Begin, runVars, MarkedInv
    <2>2. /\ at'.pc \in {"arr", "refetch"}
          /\ at'.torrent = at.torrent /\ at'.rule = at.rule /\ at'.action = at.action
      BY <1>6, GoesTyped DEF ExecuteAction, Begin
    <2>3. at.torrent \in Torrent /\ at.pc \in OnOne /\ fleet \in [Torrent -> InClient]
      BY <2>1 DEF AtAction, OnOne, Typed, TypeOK, PlaceInv
    <2>4. fleet[at.torrent].alive
      BY <1>1, <2>1, <2>3 DEF MarkedInv, AtAction
    <2>5. CASE Begin
      BY <2>1, <2>2, <2>3, <2>4, <2>5, MarkedCommands DEF Begin
    <2>6. CASE ExecuteAction
      <3>1. fleet' = [fleet EXCEPT ![at.torrent] = Commanded(fleet[at.torrent])]
        BY <2>6 DEF ExecuteAction
      <3>2. \A t \in Torrent : t # at.torrent => fleet'[t] = fleet[t]
        BY <2>3, <3>1
      <3>3. fleet'[at.torrent] = Commanded(fleet[at.torrent])
        BY <2>3, <3>1
      <3>4. action.type # "delete_torrent" => Commanded(fleet[at.torrent]).alive
        <4>1. action.type \in ActionType /\ fleet[at.torrent] \in InClient
          BY <2>1, <2>3, ActionTyped DEF Action
        <4> QED
          BY <2>4, <4>1 DEF Commanded, ActionType, InClient
      <3> QED
        BY <2>1, <2>2, <2>3, <3>2, <3>3, <3>4, MarkedCommands DEF Deletes
    <2> QED
      BY <1>6, <2>5, <2>6
  <1>7. CASE RefetchTorrent
    <2>1. at.pc = "refetch" /\ fleet' = fleet /\ fleet[at.torrent].alive /\ at.torrent \in Torrent
      BY <1>7 DEF RefetchTorrent, Typed, PlaceInv, OnOne
    <2>2. at'.pc = "action" /\ at'.torrent = at.torrent
      BY <1>7, <2>1, NextActionTyped DEF RefetchTorrent, OnOne, runVars
    <2>3. \A t \in Torrent : local'[t].deleted = local[t].deleted
      BY <1>7 DEF RefetchTorrent, Typed, TypeOK, Local
    <2>4. ~local[at.torrent].deleted
      BY <1>1, <2>1 DEF MarkedInv
    <2> QED
      BY <1>1, <2>1, <2>2, <2>3, <2>4 DEF MarkedInv
  <1>8. CASE RefetchNothing
    <2>1. at.pc = "refetch" /\ fleet' = fleet /\ ~fleet[at.torrent].alive /\ at.torrent \in Torrent
      BY <1>8 DEF RefetchNothing, Typed, PlaceInv, OnOne
    <2>2. /\ at'.pc = "action" /\ at'.torrent = at.torrent
          /\ at'.rule = at.rule /\ at'.action = at.action + 1
      BY <1>8, <2>1, NextActionTyped DEF RefetchNothing, OnOne, runVars
    <2>3. /\ \A t \in Torrent : t # at.torrent => local'[t] = local[t]
          /\ local'[at.torrent].deleted
      BY <1>8, <2>1 DEF RefetchNothing, Typed, TypeOK, Local
    <2>4. at.action = Len(rule.actions) /\ Len(rule.actions) \in Nat
      BY <1>1, <2>1, DeletionIsLast, RuleTyped DEF MarkedInv, OnOne
    <2>5. rule' = rule
      BY <1>8, <2>2 DEF RefetchNothing, runVars, rule
    <2>6. ~AtAction'
      BY <2>2, <2>4, <2>5 DEF AtAction
    <2> QED
      BY <1>1, <2>1, <2>2, <2>3, <2>6 DEF MarkedInv
  <1>9. CASE BlocklistStep
    <2>1. at.pc = "arr" /\ UNCHANGED <<local, at, program>>
      BY <1>9 DEF BlocklistStep, runVars
    <2>2. at.torrent \in Torrent /\ fleet \in [Torrent -> InClient]
      BY <2>1 DEF Typed, TypeOK, PlaceInv, OnOne
    <2>3. \/ fleet' = fleet
          \/ /\ fleet' = [fleet EXCEPT ![at.torrent].alive = FALSE]
             /\ "remove_from_client" \in action.params
      BY <1>9 DEF BlocklistStep, RemovedFromClient
    <2>4. \A t \in Torrent : t # at.torrent => fleet'[t] = fleet[t]
      BY <2>2, <2>3
    <2>5. ~fleet'[at.torrent].alive => Deletes(action)
      BY <1>1, <2>1, <2>3 DEF MarkedInv, ArrInv, Deletes
    <2>6. ~local[at.torrent].deleted
      BY <1>1, <2>1 DEF MarkedInv
    <2> QED
      BY <2>1, <2>4, <2>5, <2>6, MarkedCommands DEF OnOne
  <1>10. CASE BlocklistSucceeds
    <2>1. at.pc = "arr" /\ UNCHANGED <<local, fleet, program>>
      BY <1>10 DEF BlocklistSucceeds, runVars
    <2>2. /\ at'.pc = "refetch"
          /\ at'.torrent = at.torrent /\ at'.rule = at.rule /\ at'.action = at.action
      BY <1>10, GoesTyped DEF BlocklistSucceeds
    <2> QED
      BY <1>1, <2>1, <2>2, MarkedCommands DEF MarkedInv, OnOne
  <1>11. ~FetchFails /\ ~ActionFails /\ ~RefetchFails /\ \A t \in Torrent : ~EvaluationFails(t)
    BY <1>1 DEF FetchFails, ActionFails, RefetchFails, EvaluationFails
  <1>12. ~BlocklistFails /\ ~ChangeOutside /\ ~ArrMovesOn
    BY <1>1, NoneIsGone DEF BlocklistFails, ChangeOutside, ArrMovesOn
  <1>13. CASE UNCHANGED vars
    BY <1>1, <1>13 DEF vars, engineVars, runVars, MarkedInv, AtAction, action, rule
  <1> QED
    BY <1>2, <1>3, <1>4, <1>5, <1>6, <1>7, <1>8, <1>9, <1>10, <1>11, <1>12, <1>13
    DEF Next, RunStep, EngineStep

\* Two sets that differ in one element at most.
LEMMA CountOne ==
  ASSUME NEW A \in SUBSET Torrent, NEW B \in SUBSET Torrent, NEW t \in Torrent,
         A \ {t} = B \ {t}
  PROVE  /\ Cardinality(A) \in Nat /\ Cardinality(B) \in Nat
         /\ Cardinality(B) = Cardinality(A) - One(t \in A) + One(t \in B)
  <1>1. IsFiniteSet(A) /\ IsFiniteSet(B) /\ IsFiniteSet(A \ {t})
    BY FS_Subset, RulesEngineAssumption
  <1>2. Cardinality(A) \in Nat /\ Cardinality(B) \in Nat /\ Cardinality(A \ {t}) \in Nat
    BY <1>1, FS_CardinalityType
  <1>3. ASSUME NEW C \in SUBSET Torrent, IsFiniteSet(C)
        PROVE  Cardinality(C \ {t}) = Cardinality(C) - One(t \in C)
    <2>1. Cardinality(C) \in Nat
      BY <1>3, FS_CardinalityType
    <2>2. CASE t \in C
      BY <1>3, <2>1, <2>2, FS_RemoveElement DEF One
    <2>3. CASE t \notin C
      <3>1. C \ {t} = C
        BY <2>3
      <3>2. One(t \in C) = 0
        BY <2>3 DEF One
      <3>3. Cardinality(C \ {t}) = Cardinality(C)
        BY <3>1
      <3> QED
        BY <2>1, <3>2, <3>3
    <2> QED
      BY <2>2, <2>3
  <1>4. Cardinality(A \ {t}) = Cardinality(A) - One(t \in A)
    BY <1>1, <1>3
  <1>5. Cardinality(A \ {t}) = Cardinality(B) - One(t \in B)
    BY <1>1, <1>3
  <1>6. One(t \in A) \in Int /\ One(t \in B) \in Int
    BY DEF One
  <1> QED
    BY <1>2, <1>4, <1>5, <1>6

\* Only the re-fetch changes dicts and counts, once they are made.
LEMMA StatsMoves ==
  ASSUME Typed, StatsInv, [Next]_vars, UNCHANGED <<local, stats>>, at.pc # "fetch"
  PROVE  StatsInv'
  BY UndisturbedSoFar DEF StatsInv, Kept, KeptIn, KeptWith

LEMMA FetchCounts ==
  ASSUME IInv, Typed, MarkedInv, Undisturbed, FetchTorrents
  PROVE  StatsInv'
  <1>1. /\ at.pc = "fetch" /\ fleet' = fleet /\ local' = [t \in Torrent |-> Fetched(t)]
        /\ stats' = [state |-> [s \in State |-> CountState(s)],
                     category |-> [c \in Category |-> CountCategory(c)],
                     tag |-> [g \in Tag |-> CountTag(g)],
                     total |-> Cardinality(Alive)]
    BY DEF FetchTorrents
  <1>2. \A t \in Torrent : fleet[t].alive
    BY <1>1 DEF IInv, FreshInv, MarkedInv
  <1>3. Alive = Kept'
    BY <1>1, <1>2 DEF Alive, Kept, Fetched
  <1>4. ASSUME NEW s \in State PROVE stats'.state[s] = Cardinality(KeptIn(s)')
    <2>1. {t \in Alive : fleet[t].state = s} = KeptIn(s)'
      BY <1>1, <1>3 DEF KeptIn, Alive, Fetched
    <2> QED
      BY <1>1, <2>1 DEF CountState
  <1>5. ASSUME NEW g \in Tag PROVE stats'.tag[g] = Cardinality(KeptWith(g)')
    <2>1. {t \in Alive : g \in fleet[t].tags} = KeptWith(g)'
      BY <1>1, <1>3 DEF KeptWith, Alive, Fetched
    <2> QED
      BY <1>1, <2>1 DEF CountTag
  <1> QED
    BY <1>1, <1>3, <1>4, <1>5 DEF StatsInv

\* What the re-fetch does to one count.
LEMMA RefetchCounts ==
  ASSUME Typed, MarkedInv, StatsInv, Undisturbed, RefetchTorrent
  PROVE  StatsInv'
  <1> DEFINE t == at.torrent
             new == fleet[t]
  <1>1. at.pc = "refetch" /\ t \in Torrent /\ ~local[t].deleted
    BY DEF RefetchTorrent, Typed, PlaceInv, OnOne, MarkedInv
  <1>2. /\ \A u \in Torrent : u # t => local'[u] = local[u]
        /\ local'[t].state = new.state /\ local'[t].tags = new.tags
        /\ ~local'[t].deleted
    BY <1>1 DEF RefetchTorrent, Typed, TypeOK, Local
  <1>3. /\ \A s \in State : stats'.state[s] = stats.state[s] - One(s = known.state) + One(s = new.state)
        /\ \A g \in Tag : stats'.tag[g] = stats.tag[g] - One(g \in known.tags) + One(g \in new.tags)
        /\ stats'.total = stats.total
    BY DEF RefetchTorrent, Typed, TypeOK
  <1>4. /\ stats.total = Cardinality(Kept)
        /\ \A s \in State : stats.state[s] = Cardinality(KeptIn(s))
        /\ \A g \in Tag : stats.tag[g] = Cardinality(KeptWith(g))
    BY <1>1 DEF StatsInv
  <1>5. known = local[t]
    BY DEF known
  <1> HIDE DEF t, new
  <1>6. Kept' = Kept
    BY <1>1, <1>2 DEF Kept
  <1>7. ASSUME NEW s \in State PROVE stats'.state[s] = Cardinality(KeptIn(s)')
    <2> DEFINE A == KeptIn(s)
               B == {u \in Torrent : ~local'[u].deleted /\ local'[u].state = s}
    <2>1. A \in SUBSET Torrent /\ B \in SUBSET Torrent
      BY DEF KeptIn, Kept
    <2>2. A \ {t} = B \ {t}
      BY <1>2 DEF KeptIn, Kept
    <2>3. (t \in A <=> s = known.state) /\ (t \in B <=> s = new.state)
      BY <1>1, <1>2, <1>5 DEF KeptIn, Kept
    <2>4. Cardinality(B) = Cardinality(A) - One(t \in A) + One(t \in B)
      BY <1>1, <2>1, <2>2, CountOne
    <2>5. One(t \in A) = One(s = known.state) /\ One(t \in B) = One(s = new.state)
      BY <2>3 DEF One
    <2>6. KeptIn(s)' = B
      BY DEF KeptIn, Kept
    <2> QED
      BY <1>3, <1>4, <2>4, <2>5, <2>6
  <1>8. ASSUME NEW g \in Tag PROVE stats'.tag[g] = Cardinality(KeptWith(g)')
    <2> DEFINE A == KeptWith(g)
               B == {u \in Torrent : ~local'[u].deleted /\ g \in local'[u].tags}
    <2>1. A \in SUBSET Torrent /\ B \in SUBSET Torrent
      BY DEF KeptWith, Kept
    <2>2. A \ {t} = B \ {t}
      BY <1>2 DEF KeptWith, Kept
    <2>3. (t \in A <=> g \in known.tags) /\ (t \in B <=> g \in new.tags)
      BY <1>1, <1>2, <1>5 DEF KeptWith, Kept
    <2>4. Cardinality(B) = Cardinality(A) - One(t \in A) + One(t \in B)
      BY <1>1, <2>1, <2>2, CountOne
    <2>5. One(t \in A) = One(g \in known.tags) /\ One(t \in B) = One(g \in new.tags)
      BY <2>3 DEF One
    <2>6. KeptWith(g)' = B
      BY DEF KeptWith, Kept
    <2> QED
      BY <1>3, <1>4, <2>4, <2>5, <2>6
  <1> QED
    BY <1>3, <1>4, <1>6, <1>7, <1>8 DEF StatsInv

\* A torrent found gone leaves every count it was in.
LEMMA GoneCounts ==
  ASSUME Typed, MarkedInv, StatsInv, Undisturbed, RefetchNothing
  PROVE  StatsInv'
  <1> DEFINE t == at.torrent
  <1>1. at.pc = "refetch" /\ t \in Torrent /\ ~local[t].deleted
    BY DEF RefetchNothing, Typed, PlaceInv, OnOne, MarkedInv
  <1>2. /\ \A u \in Torrent : u # t => local'[u] = local[u]
        /\ local'[t].deleted
    BY <1>1 DEF RefetchNothing, Typed, TypeOK, Local
  <1>3. /\ \A s \in State : stats'.state[s] = stats.state[s] - One(s = known.state)
        /\ \A g \in Tag : stats'.tag[g] = stats.tag[g] - One(g \in known.tags)
        /\ stats'.total = stats.total - 1
    BY DEF RefetchNothing, Typed, TypeOK, One
  <1>4. /\ stats.total = Cardinality(Kept)
        /\ \A s \in State : stats.state[s] = Cardinality(KeptIn(s))
        /\ \A g \in Tag : stats.tag[g] = Cardinality(KeptWith(g))
    BY <1>1 DEF StatsInv
  <1>5. known = local[t]
    BY DEF known
  <1> HIDE DEF t
  \* One count, of the dicts in A before and of B after.
  <1>6. ASSUME NEW A \in SUBSET Torrent, NEW B \in SUBSET Torrent, A \ {t} = B \ {t}, t \notin B
        PROVE  Cardinality(B) = Cardinality(A) - One(t \in A)
    <2>1. Cardinality(B) = Cardinality(A) - One(t \in A) + One(t \in B) /\ Cardinality(A) \in Nat
      BY <1>1, <1>6, CountOne
    <2>2. One(t \in B) = 0 /\ One(t \in A) \in Int
      BY <1>6 DEF One
    <2> QED
      BY <2>1, <2>2
  <1>7. stats'.total = Cardinality(Kept')
    <2> DEFINE B == {u \in Torrent : ~local'[u].deleted}
    <2>1. Kept \in SUBSET Torrent /\ B \in SUBSET Torrent /\ Kept \ {t} = B \ {t} /\ t \notin B
          /\ t \in Kept
      BY <1>1, <1>2 DEF Kept
    <2>2. Cardinality(B) = Cardinality(Kept) - One(t \in Kept)
      BY <1>6, <2>1
    <2>3. One(t \in Kept) = 1 /\ Kept' = B
      BY <2>1 DEF One, Kept
    <2> QED
      BY <1>3, <1>4, <2>2, <2>3
  <1>8. ASSUME NEW s \in State PROVE stats'.state[s] = Cardinality(KeptIn(s)')
    <2> DEFINE B == {u \in Torrent : ~local'[u].deleted /\ local'[u].state = s}
    <2>1. /\ KeptIn(s) \in SUBSET Torrent /\ B \in SUBSET Torrent
          /\ KeptIn(s) \ {t} = B \ {t} /\ t \notin B
      BY <1>1, <1>2 DEF Kept, KeptIn
    <2>2. Cardinality(B) = Cardinality(KeptIn(s)) - One(t \in KeptIn(s))
      BY <1>6, <2>1
    <2>3. t \in KeptIn(s) <=> s = known.state
      BY <1>1, <1>5 DEF Kept, KeptIn
    <2>4. One(t \in KeptIn(s)) = One(s = known.state) /\ KeptIn(s)' = B
      BY <2>3 DEF One, Kept, KeptIn
    <2> QED
      BY <1>3, <1>4, <2>2, <2>4
  <1>9. ASSUME NEW g \in Tag PROVE stats'.tag[g] = Cardinality(KeptWith(g)')
    <2> DEFINE B == {u \in Torrent : ~local'[u].deleted /\ g \in local'[u].tags}
    <2>1. /\ KeptWith(g) \in SUBSET Torrent /\ B \in SUBSET Torrent
          /\ KeptWith(g) \ {t} = B \ {t} /\ t \notin B
      BY <1>1, <1>2 DEF Kept, KeptWith
    <2>2. Cardinality(B) = Cardinality(KeptWith(g)) - One(t \in KeptWith(g))
      BY <1>6, <2>1
    <2>3. t \in KeptWith(g) <=> g \in known.tags
      BY <1>1, <1>5 DEF Kept, KeptWith
    <2>4. One(t \in KeptWith(g)) = One(g \in known.tags) /\ KeptWith(g)' = B
      BY <2>3 DEF One, Kept, KeptWith
    <2> QED
      BY <1>3, <1>4, <2>2, <2>4
  <1> QED
    BY <1>7, <1>8, <1>9 DEF StatsInv

LEMMA NextStats ==
  ASSUME IInv, Typed, MarkedInv, StatsInv, [Next]_vars
  PROVE  StatsInv'
  <1> SUFFICES ASSUME Undisturbed' PROVE StatsInv'
    BY DEF StatsInv
  <1>1. ~Fault /\ Undisturbed
    BY UndisturbedSoFar DEF Fault, Typed, TypeOK
  <1>2. CASE FetchTorrents \/ RefetchTorrent \/ RefetchNothing
    BY <1>1, <1>2, FetchCounts, RefetchCounts, GoneCounts
  <1>3. CASE UNCHANGED <<local, stats>>
    <2>1. CASE at.pc # "fetch"
      BY <1>3, <2>1, StatsMoves
    <2>2. CASE at.pc = "fetch" /\ at'.pc = "fetch"
      BY <2>2 DEF StatsInv
    <2>3. CASE at.pc = "fetch" /\ at'.pc # "fetch"
      <3>1. FetchTorrents \/ FetchFails
        <4>1. ~Begin /\ ~BlocklistStep /\ ~BlocklistSucceeds /\ ~BlocklistFails
          BY <2>3 DEF Begin, BlocklistStep, BlocklistSucceeds, BlocklistFails, AtAction
        <4>2. ~ChangeOutside /\ ~ArrMovesOn /\ ~UNCHANGED vars
          BY <2>3 DEF ChangeOutside, ArrMovesOn, vars, engineVars
        <4>3. EngineStep
          BY <4>1, <4>2 DEF Next, RunStep
        <4> QED
          BY <2>3, <4>3 DEF EngineStep, NextRule, RuleEnds, SkipTorrent, EvaluationFails,
             MatchTorrent, ActionsEnd, SkipApplied, DryRun, ExecuteAction, ActionFails,
             RefetchTorrent, RefetchNothing, RefetchFails, AtAction
      <3>2. ~FetchFails
        BY <1>1 DEF FetchFails
      <3> QED
        BY <1>1, <3>1, <3>2, FetchCounts
    <2> QED
      BY <2>1, <2>2, <2>3
  <1>4. FetchTorrents \/ RefetchTorrent \/ RefetchNothing \/ UNCHANGED <<local, stats>>
    <2>1. CASE EngineStep
      BY <2>1 DEF EngineStep, FetchFails, NextRule, RuleEnds, SkipTorrent, EvaluationFails,
         MatchTorrent, ActionsEnd, SkipApplied, DryRun, ExecuteAction, ActionFails, RefetchFails
    <2>2. CASE Begin \/ BlocklistStep \/ BlocklistSucceeds \/ BlocklistFails
      BY <2>2 DEF Begin, BlocklistStep, BlocklistSucceeds, BlocklistFails
    <2>3. CASE ChangeOutside \/ ArrMovesOn \/ UNCHANGED vars
      BY <2>3 DEF ChangeOutside, ArrMovesOn, vars, engineVars
    <2> QED
      BY <2>1, <2>2, <2>3 DEF Next, RunStep
  <1> QED
    BY <1>2, <1>3, <1>4

Inv == IInv /\ Typed /\ CallInv /\ ArrInv /\ SyncInv /\ MarkedInv /\ StatsInv

LEMMA InitInv == Init => Inv
  <1>1. Init => IInv /\ Typed /\ SyncInv
    BY InitIInv, InitTyped, InitSync
  <1>2. Init => at.pc = "fetch" /\ \A t \in Torrent : ~local[t].deleted /\ fleet[t].alive
    <2> SUFFICES ASSUME Init PROVE at.pc = "fetch" /\ \A t \in Torrent : ~local[t].deleted /\ fleet[t].alive
      OBVIOUS
    <2>1. /\ \A t \in Torrent : fleet[t].alive
          /\ local = [t \in Torrent |-> Fetched(t)]
          /\ at.pc = "fetch"
      BY InitFleet DEF Init
    <2>2. \A t \in Torrent : ~Fetched(t).deleted /\ fleet[t].alive
      BY <2>1 DEF Fetched
    <2> QED
      BY <2>1, <2>2
  <1>3. Init => CallInv /\ ArrInv /\ StatsInv
    BY <1>2 DEF CallInv, ArrInv, StatsInv
  <1>4. Init => MarkedInv
    BY <1>2 DEF MarkedInv, AtAction
  <1> QED
    BY <1>1, <1>3, <1>4 DEF Inv

LEMMA SpecInv == ASSUME DeletesLast PROVE Spec => []Inv
  <1>1. Inv /\ [Next]_vars => Inv'
    BY NextLeaves, NextTyped, NextCallInv, NextArrInv, NextSync, NextMarked, NextStats DEF Inv
  <1> QED
    BY <1>1, InitInv, PTL DEF Spec

\* Between two torrents the dicts are the fleet, and so are their counts.
LEMMA CountsAreTheFleet ==
  ASSUME Typed, SyncInv, MarkedInv, StatsInv, at.pc = "torrent", Undisturbed
  PROVE  /\ stats.total = Cardinality(Alive)
         /\ \A s \in State : stats.state[s] = CountState(s)
         /\ \A g \in Tag : stats.tag[g] = CountTag(g)
  <1>1. \A t \in Torrent : local[t].deleted <=> ~fleet[t].alive
    BY DEF MarkedInv
  <1>2. \A t \in Alive : InStep(t)
    BY DEF SyncInv, Alive
  <1>3. Kept = Alive
    BY <1>1 DEF Kept, Alive, Typed, TypeOK, Local
  <1>4. ASSUME NEW s \in State PROVE stats.state[s] = CountState(s)
    <2>1. KeptIn(s) = {t \in Alive : fleet[t].state = s}
      BY <1>2, <1>3 DEF KeptIn, InStep
    <2> QED
      BY <2>1 DEF StatsInv, CountState
  <1>5. ASSUME NEW g \in Tag PROVE stats.tag[g] = CountTag(g)
    <2>1. KeptWith(g) = {t \in Alive : g \in fleet[t].tags}
      BY <1>2, <1>3 DEF KeptWith, InStep
    <2> QED
      BY <2>1 DEF StatsInv, CountTag
  <1> QED
    BY <1>3, <1>4, <1>5 DEF StatsInv

\* "Kept live for the rest of THIS run" (run, engine.py): in every rules file in
\* which no action follows a deletion in its rule, stats.total, stats.state and
\* stats.tag are those of qBittorrent whenever a rule is about to look at a torrent,
\* for any fleet and any number of rules and actions.  With an action behind a deletion
\* they are not (RulesEngine_stats.cfg), and stats.category is not once a category
\* was set (RulesEngine_category.cfg).
THEOREM EngineStatsFollowTheFleet ==
  ASSUME DeletesLast
  PROVE  Spec => []StatsFollowTheFleet
  <1>1. Inv => StatsFollowTheFleet
    BY CountsAreTheFleet DEF Inv, StatsFollowTheFleet
  <1> QED
    BY <1>1, SpecInv, PTL

-----------------------------------------------------------------------------
(* The quota, for the same rules files.                                    *)

\* The torrents of a tag, but for the one in hand.
OthersWith(g) == {t \in Alive \ {at.torrent} : g \in fleet[t].tags}

\* As long as its actions last, the torrent in hand has a place left for it.
QuotaInv ==
    Undisturbed /\ at.pc \in OnOne =>
      \A q \in rule.quotas : Cardinality(OthersWith(q.tag)) < q.max

\* A count of a part.
LEMMA SubsetCount ==
  ASSUME NEW B \in SUBSET Torrent, NEW A \in SUBSET B
  PROVE  Cardinality(A) \in Nat /\ Cardinality(B) \in Nat /\ Cardinality(A) <= Cardinality(B)
  <1>1. IsFiniteSet(B)
    BY FS_Subset, RulesEngineAssumption
  <1> QED
    BY <1>1, FS_Subset, FS_CardinalityType

\* What stays while a torrent is in hand.
LEMMA HandMoves ==
  ASSUME Typed, [Next]_vars, Undisturbed', at.pc \in OnOne, at'.pc \in OnOne
  PROVE  /\ UNCHANGED program /\ at'.torrent = at.torrent /\ at'.rule = at.rule
         /\ \A t \in Torrent : t # at.torrent => fleet'[t] = fleet[t]
  <1>1. ~Fault /\ ~Outside
    BY UndisturbedSoFar DEF Fault, Outside, Typed, TypeOK
  <1>2. at.torrent \in Torrent /\ fleet \in [Torrent -> InClient]
    BY DEF Typed, TypeOK, PlaceInv
  <1>3. CASE SkipApplied \/ DryRun \/ RefetchTorrent \/ RefetchNothing \/ RefetchFails
    BY <1>3, NextActionTyped
    DEF SkipApplied, DryRun, RefetchTorrent, RefetchNothing, RefetchFails, runVars
  <1>4. CASE ExecuteAction
    BY <1>2, <1>4, GoesTyped DEF ExecuteAction, runVars
  <1>5. CASE Begin \/ BlocklistSucceeds
    BY <1>5, GoesTyped DEF Begin, BlocklistSucceeds, runVars
  <1>6. CASE BlocklistStep \/ BlocklistFails
    <2>1. UNCHANGED program /\ at'.torrent = at.torrent /\ at'.rule = at.rule
      BY <1>6, NextActionTyped DEF BlocklistStep, BlocklistFails, runVars
    <2>2. fleet' = fleet \/ fleet' = [fleet EXCEPT ![at.torrent].alive = FALSE]
      BY <1>6 DEF BlocklistStep, BlocklistFails, RemovedFromClient
    <2> QED
      BY <1>2, <2>1, <2>2
  <1>7. CASE UNCHANGED vars
    BY <1>7 DEF vars, engineVars, runVars
  <1>8. ~FetchTorrents /\ ~FetchFails /\ ~NextRule /\ ~RuleEnds
    BY DEF FetchTorrents, FetchFails, NextRule, RuleEnds, OnOne
  <1>9. \A t \in Torrent : ~SkipTorrent(t) /\ ~EvaluationFails(t) /\ ~MatchTorrent(t)
    BY DEF SkipTorrent, EvaluationFails, MatchTorrent, OnOne
  <1>10. ~ActionsEnd
    BY DEF ActionsEnd, Typed, TypeOK, OnOne
  <1>11. ~ActionFails /\ ~ChangeOutside /\ ~ArrMovesOn
    BY <1>1 DEF ActionFails, ChangeOutside, ArrMovesOn
  <1> QED
    BY <1>3, <1>4, <1>5, <1>6, <1>7, <1>8, <1>9, <1>10, <1>11 DEF Next, RunStep, EngineStep

\* A torrent is taken in hand only by a match.
LEMMA MatchTakesInHand ==
  ASSUME Typed, [Next]_vars, at.pc \notin OnOne, at'.pc \in OnOne
  PROVE  \E t \in Torrent : MatchTorrent(t)
  <1>1. ~SkipApplied /\ ~DryRun /\ ~ExecuteAction /\ ~ActionFails /\ ~ActionsEnd
    BY DEF SkipApplied, DryRun, ExecuteAction, ActionFails, ActionsEnd, AtAction, OnOne
  <1>2. ~RefetchTorrent /\ ~RefetchNothing /\ ~RefetchFails
    BY DEF RefetchTorrent, RefetchNothing, RefetchFails, OnOne
  <1>3. ~Begin /\ ~BlocklistStep /\ ~BlocklistSucceeds /\ ~BlocklistFails
    BY DEF Begin, BlocklistStep, BlocklistSucceeds, BlocklistFails, AtAction, OnOne
  <1>4. ~ChangeOutside /\ ~ArrMovesOn /\ ~UNCHANGED vars
    BY DEF ChangeOutside, ArrMovesOn, vars, engineVars
  <1>5. ~FetchTorrents /\ ~FetchFails
    <2>1. ~Goes("done") /\ ~Goes("rule") /\ ~Goes("raised")
      BY GoesTyped DEF OnOne
    <2> QED
      BY <2>1 DEF FetchTorrents, FetchFails
  <1>6. ~NextRule /\ ~RuleEnds
    BY DEF NextRule, RuleEnds, OnOne, Typed, TypeOK
  <1>7. \A t \in Torrent : ~SkipTorrent(t) /\ ~EvaluationFails(t)
    BY DEF SkipTorrent, EvaluationFails, OnOne, Typed, TypeOK
  <1> QED
    BY <1>1, <1>2, <1>3, <1>4, <1>5, <1>6, <1>7 DEF Next, RunStep, EngineStep

LEMMA NextQuotaInv ==
  ASSUME Typed, SyncInv, MarkedInv, StatsInv, QuotaInv, [Next]_vars
  PROVE  QuotaInv'
  <1> SUFFICES ASSUME Undisturbed', at'.pc \in OnOne, NEW q \in rule'.quotas
               PROVE  Cardinality(OthersWith(q.tag)') < q.max
    BY DEF QuotaInv
  <1>1. Undisturbed
    BY UndisturbedSoFar
  <1>2. CASE at.pc \in OnOne
    <2>1. /\ UNCHANGED program /\ at'.torrent = at.torrent /\ at'.rule = at.rule
          /\ \A t \in Torrent : t # at.torrent => fleet'[t] = fleet[t]
      BY <1>2, HandMoves
    <2>2. OthersWith(q.tag)' = OthersWith(q.tag) /\ rule' = rule
      BY <2>1 DEF OthersWith, Alive, rule
    <2> QED
      BY <1>1, <1>2, <2>2 DEF QuotaInv
  <1>3. CASE at.pc \notin OnOne
    <2>1. PICK t \in Torrent : MatchTorrent(t)
      BY <1>3, MatchTakesInHand
    <2>2. /\ at.pc = "torrent" /\ UNCHANGED <<program, fleet>>
          /\ Evaluate(t) /\ at'.rule = at.rule /\ at'.torrent = t
      BY <2>1 DEF MatchTorrent, runVars, Typed, TypeOK
    <2>3. rule' = rule
      BY <2>2 DEF rule
    <2>4. rule \in Rule
      BY <2>2, RuleTyped
    <2>5. q.tag \in Tag /\ q.max \in Int /\ stats.tag[q.tag] < q.max
      <3>1. q \in rule.quotas
        BY <2>3
      <3> QED
        BY <2>2, <2>4, <3>1 DEF Rule, Evaluate
    <2>6. stats.tag[q.tag] = CountTag(q.tag)
      BY <1>1, <2>2, <2>5, CountsAreTheFleet
    <2>7. OthersWith(q.tag)' \subseteq {u \in Alive : q.tag \in fleet[u].tags}
      BY <2>2 DEF OthersWith, Alive
    <2>8. Cardinality(OthersWith(q.tag)') <= CountTag(q.tag)
      BY <2>7, SubsetCount DEF CountTag, Alive
    <2>9. Cardinality(OthersWith(q.tag)') \in Nat /\ CountTag(q.tag) \in Nat
      BY <2>7, SubsetCount DEF CountTag, Alive
    <2> QED
      BY <2>5, <2>6, <2>8, <2>9
  <1> QED
    BY <1>2, <1>3

\* The action formula of QuotaHolds, while nothing has gone wrong.
WithinQuota ==
    \A g \in Tag : \A max \in 0 .. Cardinality(Torrent) :
        GuardedBy(g, max) /\ Undisturbed' /\ CountTag(g)' > CountTag(g) => CountTag(g)' <= max

\* Only adding the tag to the torrent in hand makes its count grow.
LEMMA OnlyAddingTags ==
  ASSUME Typed, [Next]_vars, Undisturbed', NEW g \in Tag, CountTag(g)' > CountTag(g)
  PROVE  /\ ExecuteAction
         /\ action.type \in {"add_tag", "set_tags"} /\ g \in action.tags
  <1> DEFINE With == {t \in Alive : g \in fleet[t].tags}
  <1>1. ~Fault /\ ~Outside
    BY UndisturbedSoFar DEF Fault, Outside, Typed, TypeOK
  <1>2. ~(With' \subseteq With)
    <2> SUFFICES ASSUME With' \subseteq With PROVE FALSE
      OBVIOUS
    <2>1. Cardinality(With') <= Cardinality(With) /\ Cardinality(With') \in Nat
          /\ Cardinality(With) \in Nat
      BY SubsetCount DEF Alive
    <2> QED
      BY <2>1 DEF CountTag
  <1>3. fleet' # fleet
    BY <1>2 DEF Alive
  <1>4. CASE BlocklistStep \/ BlocklistFails
    <2>1. at.torrent \in Torrent /\ fleet \in [Torrent -> InClient]
      BY <1>4 DEF BlocklistStep, BlocklistFails, Typed, TypeOK, PlaceInv, OnOne
    <2>2. fleet' = [fleet EXCEPT ![at.torrent].alive = FALSE]
      BY <1>3, <1>4 DEF BlocklistStep, BlocklistFails, RemovedFromClient
    <2>3. With' \subseteq With
      BY <2>1, <2>2 DEF Alive, InClient
    <2> QED
      BY <1>2, <2>3
  <1>5. ExecuteAction
    <2>1. ~ActionFails /\ ~ChangeOutside /\ ~ArrMovesOn
      BY <1>1 DEF ActionFails, ChangeOutside, ArrMovesOn
    <2>2. CASE EngineStep
      BY <1>3, <2>1, <2>2 DEF EngineStep, FetchTorrents, FetchFails, NextRule, RuleEnds,
         SkipTorrent, EvaluationFails, MatchTorrent, ActionsEnd, SkipApplied, DryRun,
         RefetchTorrent, RefetchNothing, RefetchFails
    <2>3. ~Begin /\ ~BlocklistSucceeds /\ ~UNCHANGED vars
      BY <1>3 DEF Begin, BlocklistSucceeds, vars, engineVars
    <2> QED
      BY <1>4, <2>1, <2>2, <2>3 DEF Next, RunStep
  <1>6. /\ at.torrent \in Torrent /\ fleet[at.torrent] \in InClient /\ AtAction
        /\ fleet' = [fleet EXCEPT ![at.torrent] = Commanded(fleet[at.torrent])]
    BY <1>5 DEF ExecuteAction, AtAction, Typed, TypeOK, PlaceInv, OnOne
  <1>7. action \in Action /\ action.type \in ActionType
    BY <1>6, ActionTyped DEF Action
  <1>8. ASSUME NEW f \in InClient, ~(action.type \in {"add_tag", "set_tags"} /\ g \in action.tags)
        PROVE  /\ Commanded(f).alive => f.alive
               /\ g \in Commanded(f).tags => g \in f.tags
    <2>1. CASE action.type \in {"stop", "start", "force_start", "release_force_start"}
      BY <2>1 DEF Commanded, InClient
    <2>2. CASE action.type \in {"set_category", "add_tag", "remove_tag", "set_tags"}
      BY <1>8, <2>2 DEF Commanded, InClient
    <2>3. CASE action.type \in {"delete_torrent", "notify", "arr_blocklist"}
      BY <2>3 DEF Commanded, InClient
    <2> QED
      BY <1>7, <2>1, <2>2, <2>3 DEF ActionType
  <1>9. action.type \in {"add_tag", "set_tags"} /\ g \in action.tags
    <2> SUFFICES ASSUME ~(action.type \in {"add_tag", "set_tags"} /\ g \in action.tags) PROVE FALSE
      OBVIOUS
    <2>1. /\ Commanded(fleet[at.torrent]).alive => fleet[at.torrent].alive
          /\ g \in Commanded(fleet[at.torrent]).tags => g \in fleet[at.torrent].tags
      BY <1>6, <1>8
    <2>2. With' \subseteq With
      BY <1>6, <2>1 DEF Alive, Typed, TypeOK
    <2> QED
      BY <1>2, <2>2
  <1> QED
    BY <1>5, <1>9

LEMMA NextWithinQuota ==
  ASSUME Typed, QuotaInv, [Next]_vars
  PROVE  WithinQuota
  <1> SUFFICES ASSUME NEW g \in Tag, NEW max \in 0 .. Cardinality(Torrent), GuardedBy(g, max),
                      Undisturbed', CountTag(g)' > CountTag(g)
               PROVE  CountTag(g)' <= max
    BY DEF WithinQuota
  <1> DEFINE Before == OthersWith(g)
             After == {t \in Alive' : g \in fleet'[t].tags}
             t == at.torrent
  <1>1. ExecuteAction /\ action.type \in {"add_tag", "set_tags"} /\ g \in action.tags /\ Undisturbed
    BY OnlyAddingTags, UndisturbedSoFar
  <1>2. AtAction /\ at.pc \in OnOne /\ t \in Torrent
    BY <1>1 DEF ExecuteAction, AtAction, OnOne, Typed, PlaceInv
  <1>3. PICK q \in rule.quotas : q.tag = g /\ q.max <= max
    <2>1. program \in Seq(Rule) /\ Len(program) \in Nat
      BY RulesEngineAssumption, LenProperties DEF Typed, TypeOK
    <2>2. at.rule \in DOMAIN program
      BY <1>2, <2>1, LenProperties DEF Typed, PlaceInv
    <2>3. rule.actions \in Seq(Action) /\ Len(rule.actions) \in Nat
      BY <1>2, RuleTyped
    <2>4. at.action \in DOMAIN rule.actions
      BY <1>2, <2>3, LenProperties DEF Typed, PlaceInv, AtAction
    <2> QED
      BY <1>1, <2>2, <2>4 DEF GuardedBy, rule, action
  <1>4. q.max \in Int /\ max \in Int
    BY <1>2, RuleTyped, SubsetCount DEF Rule
  <1>5. Cardinality(Before) < q.max
    BY <1>1, <1>2, <1>3 DEF QuotaInv
  <1>6. \A u \in Torrent : u # t => fleet'[u] = fleet[u]
    BY <1>1 DEF ExecuteAction, Typed, TypeOK
  <1>7. Before \in SUBSET Torrent /\ After \in SUBSET Torrent /\ t \notin Before
    BY DEF OthersWith, Alive
  <1>8. Before \ {t} = After \ {t}
    BY <1>6 DEF OthersWith, Alive
  <1> HIDE DEF Before, After, t
  <1>9. /\ Cardinality(Before) \in Nat /\ Cardinality(After) \in Nat
        /\ Cardinality(After) = Cardinality(Before) - One(t \in Before) + One(t \in After)
    BY <1>2, <1>7, <1>8, CountOne
  <1>10. One(t \in Before) = 0 /\ (One(t \in After) = 0 \/ One(t \in After) = 1)
    BY <1>7 DEF One
  <1>11. Cardinality(After) <= max
    BY <1>3, <1>4, <1>5, <1>9, <1>10
  <1> QED
    BY <1>11 DEF After, CountTag

\* In such a rules file, a quota on a tag is never exceeded, for any fleet, any rules
\* and any order of them, until a request fails or somebody else interferes: the
\* count a condition reads is that of qBittorrent, and the torrent in hand is all
\* that is tagged before the next one is looked at.
THEOREM EngineWithinQuota ==
  ASSUME DeletesLast
  PROVE  Spec => [][WithinQuota]_vars
  <1>1. Init => QuotaInv
    BY DEF Init, QuotaInv, OnOne
  <1>2. Inv /\ QuotaInv /\ [Next]_vars => QuotaInv' /\ [WithinQuota]_vars
    BY NextQuotaInv, NextWithinQuota DEF Inv
  <1> QED
    BY <1>1, <1>2, SpecInv, PTL DEF Spec

\* "A budget check that should stop admitting new torrents once full" (run,
\* engine.py): what the run checks, where nothing goes wrong.
THEOREM EngineQuotaHolds ==
  ASSUME DeletesLast, MaxMishaps = 0
  PROVE  Spec => QuotaHolds
  <1> DEFINE Calm == Undisturbed
             Holds == \A g \in Tag : \A max \in 0 .. Cardinality(Torrent) :
                GuardedBy(g, max) /\ outside' = outside /\ CountTag(g)' > CountTag(g)
                   => \E s \in Slips : CountTag(g)' <= max + (faults' + outside') * s
  <1>1. Init => Calm
    BY DEF Init, Undisturbed
  <1>2. Calm /\ [Next]_vars => Calm'
    <2> SUFFICES ASSUME Calm, [Next]_vars PROVE Calm'
      OBVIOUS
    <2>1. ~Fault /\ ~Outside
      BY DEF Fault, Outside, Undisturbed
    <2>2. ~ChangeOutside /\ ~ArrMovesOn /\ ~FetchFails /\ ~ActionFails /\ ~RefetchFails
          /\ \A t \in Torrent : ~EvaluationFails(t)
      BY <2>1 DEF ChangeOutside, ArrMovesOn, FetchFails, ActionFails, RefetchFails, EvaluationFails
    <2>3. UNCHANGED <<faults, outside>>
      <3>1. CASE EngineStep
        BY <2>2, <3>1 DEF EngineStep, FetchTorrents, NextRule, RuleEnds, SkipTorrent, MatchTorrent,
           ActionsEnd, SkipApplied, DryRun, ExecuteAction, RefetchTorrent, RefetchNothing
      <3>2. CASE Begin \/ BlocklistStep \/ BlocklistSucceeds \/ BlocklistFails
        BY <2>1, <3>2 DEF Begin, BlocklistStep, BlocklistSucceeds, BlocklistFails
      <3>3. CASE UNCHANGED vars
        BY <3>3 DEF vars, engineVars
      <3> QED
        BY <2>2, <3>1, <3>2, <3>3 DEF Next, RunStep
    <2> QED
      BY <2>3 DEF Undisturbed
  <1>3. Calm' /\ WithinQuota => Holds
    <2> SUFFICES ASSUME Undisturbed', WithinQuota,
                        NEW g \in Tag, NEW max \in 0 .. Cardinality(Torrent),
                        GuardedBy(g, max), CountTag(g)' > CountTag(g)
                 PROVE  \E s \in Slips : CountTag(g)' <= max + (faults' + outside') * s
      OBVIOUS
    <2>1. CountTag(g)' <= max
      BY DEF WithinQuota
    <2>2. faults' + outside' = 0 /\ 1 \in Slips
      BY DEF Undisturbed, Slips
    <2>3. max + (faults' + outside') * 1 = max
      BY <2>2, SubsetCount
    <2> QED
      BY <2>1, <2>2, <2>3
  <1>4. Calm' /\ [WithinQuota]_vars => [Holds]_vars
    BY <1>3
  <1> HIDE DEF Calm, Holds
  <1>5. Spec => [][Holds]_vars
    BY <1>1, <1>2, <1>4, EngineWithinQuota, PTL DEF Spec
  <1> QED
    BY <1>5 DEF Holds, QuotaHolds
=============================================================================
