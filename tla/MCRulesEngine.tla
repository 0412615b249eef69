--------------------------- MODULE MCRulesEngine ----------------------------
(* Small instances of RulesEngine: the rules files worth running.           *)
EXTENDS RulesEngine

CONSTANTS kept, done, a, b, c, episode1, episode2, film

Do(type) == [type |-> type, category |-> NoCategory, tags |-> {}, params |-> {}]
SetCategory(category) == [Do("set_category") EXCEPT !.category = category]
Tags(type, tags) == [Do(type) EXCEPT !.tags = tags]
Blocklist(params) == [Do("arr_blocklist") EXCEPT !.params = params]

Every == [enabled |-> TRUE, contexts |-> {}, states |-> State, categories |-> InCategory,
          lacks |-> {},
          quotas |-> {}, actions |-> <<>>, stop_on_match |-> FALSE]

\* At most one torrent is force-started and tagged for it.
Quota ==
    <<[Every EXCEPT !.lacks = {kept}, !.quotas = {[tag |-> kept, max |-> 1]},
                    !.actions = <<Do("force_start"), Tags("add_tag", {kept})>>],
      [Every EXCEPT !.states = {"running", "paused"},
                    !.actions = <<Do("release_force_start")>>]>>

\* The same with the tag in the place of those the torrent has, and once more.
QuotaBySetting ==
    <<[Every EXCEPT !.quotas = {[tag |-> kept, max |-> 1]},
                    !.actions = <<Tags("set_tags", {kept})>>],
      [Every EXCEPT !.lacks = {kept}, !.quotas = {[tag |-> kept, max |-> 1]},
                    !.actions = <<Tags("add_tag", {kept})>>]>>

\* What is stopped moves to another category and back, and away when it is there.
Sort ==
    <<[Every EXCEPT !.states = {"paused"}, !.categories = {NoCategory},
                    !.actions = <<SetCategory(done), Do("start")>>],
      [Every EXCEPT !.actions = <<SetCategory(NoCategory), SetCategory(done)>>],
      [Every EXCEPT !.categories = {done}, !.states = {"running"},
                    !.actions = <<Do("delete_torrent")>>]>>

\* What is kept is kept from the rule that deletes.
StopOnMatch ==
    <<[Every EXCEPT !.contexts = {"cleanup"}, !.states = {"running"},
                    !.actions = <<Tags("set_tags", {kept})>>, !.stop_on_match = TRUE],
      [Every EXCEPT !.actions = <<Do("notify"), Do("delete_torrent")>>],
      [Every EXCEPT !.actions = <<Tags("remove_tag", {kept})>>]>>

\* One rule's actions undone by the next, around a disabled one.
StopAndStart ==
    <<[Every EXCEPT !.states = {"running"}, !.actions = <<Do("stop")>>],
      [Every EXCEPT !.enabled = FALSE, !.actions = <<Do("delete_torrent")>>],
      [Every EXCEPT !.actions = <<Do("start"), Do("force_start"), Do("stop")>>]>>

\* A bad download is replaced; what is replaced once is not found again, unless
\* it failed.
Replace ==
    <<[Every EXCEPT !.contexts = {"cleanup"}, !.states = {"running"},
                    !.actions = <<Blocklist({"search"})>>],
      [Every EXCEPT !.contexts = {"cleanup"}, !.lacks = {kept},
                    !.actions = <<Blocklist({"search", "remove_from_client"})>>]>>

\* "The expected pattern is delete_torrent first, arr_blocklist second"
\* (docs/wiki/Actions.md:941).
DeleteAndBlocklist ==
    <<[Every EXCEPT !.states = {"paused"},
                    !.actions = <<Do("delete_torrent"), Blocklist({"search"})>>],
      [Every EXCEPT !.actions = <<Tags("add_tag", {kept})>>]>>

\* Values for Programs.
TypicalPrograms == {Quota, QuotaBySetting, Sort, StopOnMatch, StopAndStart, Replace}
DeletingPrograms == {DeleteAndBlocklist}

\* Values for Fleets: any torrents but force-started ones; one of these, one that is
\* in no category and untagged, and a stopped one of that kind.
AnyFleet ==
    [Torrent -> [alive : {TRUE}, state : {"paused", "running"}, category : InCategory,
                 tags : SUBSET Tag]]
AnyBesidePlain ==
    {f \in AnyFleet : /\ f[b].category = NoCategory /\ f[b].tags = {}
                      /\ f[c] = [alive |-> TRUE, state |-> "paused", category |-> NoCategory,
                                 tags |-> {}]}

\* A season pack of two episodes on two pages, and something else.
Records == {episode1, episode2, film}
PackAndFilm == [r \in Records |-> IF r = film THEN b ELSE a]
OneQueue == {<<episode1, film, episode2>>}

\* Values for Scopes.
AllOrOne == {Torrent, {a}}
=============================================================================
