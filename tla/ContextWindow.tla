---------------------------- MODULE ContextWindow -----------------------------
(***************************************************************************)
(* The window a context assembly builds (backend/context): layer filter,   *)
(* ContextWindowRuntime.build with its truncation strategies, the          *)
(* guardrail and the provenance of what is left.  All of it is pure; an    *)
(* assembly is one step.                                                   *)
(***************************************************************************)
EXTENDS Integers, FiniteSets, Sequences

CONSTANTS ContextItem,   \* records [id, layer, priority, created, tokens, source]
          Protected,     \* layers no truncation removes
          ItemBatch,     \* the sequences of items that adapters load
          TokenBudget, ItemLimit

ASSUME WindowAssumption ==
  /\ \A i \in ContextItem : i.tokens \in Nat /\ i.priority \in Int /\ i.created \in Int
  /\ \A b \in ItemBatch : b \in Seq(ContextItem)
  /\ TokenBudget \subseteq Int

VARIABLES
  asked,   \* what is being assembled
  window     \* the window that was built for it

windowVars == <<asked, window>>

WindowStrategy ==
  {"truncate_oldest", "truncate_lowest_priority", "truncate_largest", "fail_on_overflow"}

\* The items of a window are the places they have in the batch that was loaded;
\* in which order the window lists them is left out.
NoRequest == [items |-> <<>>, budget |-> 0, strategy |-> "none", max_items |-> 0]
NoWindow  == [items |-> {}, total |-> 0, dropped |-> 0, outcome |-> "none"]

WindowInit == asked = NoRequest /\ window = NoWindow

-----------------------------------------------------------------------------
\* The tokens of the items at some places, counted one by one.
TokenSum(items, places) == Cardinality(UNION {{i} \X (1 .. items[i].tokens) : i \in places})

\* rank_by_priority; sort_key of the window.  Python's sorted is stable.
MoreImportant(items, i, j) ==
  \/ items[i].priority < items[j].priority
  \/ /\ items[i].priority = items[j].priority
     /\ \/ items[i].created < items[j].created
        \/ items[i].created = items[j].created /\ i < j

\* The order in which a strategy gives items up.  "truncate_oldest" takes them
\* as they were sorted, by priority before age.
GivenUpBefore(items, strategy, i, j) ==
  CASE strategy = "truncate_lowest_priority" /\ items[i].priority # items[j].priority ->
         items[i].priority > items[j].priority
    [] strategy = "truncate_largest" /\ items[i].tokens # items[j].tokens ->
         items[i].tokens > items[j].tokens
    [] OTHER -> MoreImportant(items, i, j)

\* _truncate: an item that may go goes when its turn comes, if what is left then
\* is still too much.
GivenUp(items, places, budget, strategy) ==
  LET candidates == {i \in places : items[i].layer \notin Protected}
      gone(i)    == {j \in candidates : GivenUpBefore(items, strategy, j, i)}
  IN {i \in candidates : TokenSum(items, places \ gone(i)) > budget}

\* build: a cap on the number of items cuts the batch as it came, unsorted and
\* protected layers included, and does not count as a truncation.
BuildWindow(r) ==
  LET capped == {i \in DOMAIN r.items : r.max_items = 0 \/ i <= r.max_items}
      given  == IF r.strategy = "fail_on_overflow" THEN {}
                ELSE GivenUp(r.items, capped, r.budget, r.strategy)
  IN [items |-> capped \ given, total |-> TokenSum(r.items, capped \ given),
      dropped |-> Cardinality(given)]

\* fail_on_overflow raises in build, check_window raises for what protected
\* layers leave too large: nothing over budget is injected.
Judged(w, budget) ==
  [items |-> w.items, total |-> w.total, dropped |-> w.dropped,
   outcome |-> IF w.total > budget THEN "refused" ELSE "injected"]

\* What each source contributed to a window.
Provenance(items, places) ==
  [src \in {items[i].source : i \in places} |->
     LET own == {i \in places : items[i].source = src}
     IN [item_count |-> Cardinality(own), token_count |-> TokenSum(items, own)]]

-----------------------------------------------------------------------------
\* Items in layers the request does not ask for are filtered out before.
Assemble(items, budget, strategy, max_items) ==
  /\ asked = NoRequest
  /\ asked' = [items |-> items, budget |-> budget, strategy |-> strategy,
                 max_items |-> max_items]
  /\ window' = Judged(BuildWindow(asked'), budget)

Done ==
  /\ asked # NoRequest
  /\ asked' = NoRequest /\ window' = NoWindow

WindowNext ==
  \/ \E items \in ItemBatch, budget \in TokenBudget, strategy \in WindowStrategy,
        max_items \in ItemLimit : Assemble(items, budget, strategy, max_items)
  \/ Done

WindowSpec == WindowInit /\ [][WindowNext]_windowVars

-----------------------------------------------------------------------------
(* Properties *)

WindowTypeOK ==
  /\ asked # NoRequest => asked.items \in ItemBatch /\ asked.budget \in TokenBudget
  /\ window.items \subseteq DOMAIN asked.items
  /\ window.outcome \in {"none", "injected", "refused"}

\* window.py: "Protected layers (system by default) are never removed", and what
\* its strategies promise.  Nothing is given up that would have fitted, nothing
\* is kept in the place of something more important (larger things first under
\* truncate_largest), and the tokens of the sources add up to the window's.
WindowSound ==
  LET items   == asked.items
      kept    == window.items
      given   == DOMAIN items \ kept
      uncut   == asked.max_items = 0
      mutable == {k \in kept : items[k].layer \notin Protected}
      prov    == Provenance(items, kept)
  IN /\ window.outcome = "injected" => window.total <= asked.budget
     /\ uncut => \A i \in DOMAIN items : items[i].layer \in Protected => i \in kept
     /\ uncut /\ given # {} => (\E g \in given : window.total + items[g].tokens > asked.budget)
     /\ uncut /\ asked.strategy = "truncate_lowest_priority" =>
          \A g \in given, k \in mutable : items[g].priority >= items[k].priority
     /\ uncut /\ asked.strategy = "truncate_largest" =>
          \A g \in given, k \in mutable : items[g].tokens >= items[k].tokens
     /\ window.total = Cardinality(UNION {{src} \X (1 .. prov[src].token_count) : src \in DOMAIN prov})
=============================================================================
