------------------------------ MODULE Queries ------------------------------
(***************************************************************************)
(* What is looked up in the nodes of a snapshot: the query engine with its *)
(* suggestions, the link from an observed element to its node, and the     *)
(* element that is taken for a stale one.  src/src/query/*.ts,             *)
(* src/src/lib/text-utils.ts, src/src/observation/eid-linker.ts and        *)
(* src/src/tools/stale-element-retry.ts.                                   *)
(*                                                                         *)
(* A text is a sequence of words.  How alike two words are is a constant:  *)
(* which begin with which, and how similar they are in hundredths.         *)
(***************************************************************************)
EXTENDS Layers, Functions

CONSTANTS
    Lower(_),        \* the word in lower case
    ShortWords,      \* words of at most two letters
    BeginsWith,      \* pairs: the first word begins with the second
    Similarity,      \* pairs of words -> 1 .. 99
    Pages,           \* sequences of nodes
    Requests,        \* what the client asks for
    Observed,        \* elements reported as appeared
    DefaultLimit,    \* defaultLimit of the engine
    MaxLookups       \* bound: lookups

(* Nodes have labels, and flags that are set or not where they are known.  *)
ASSUME PagesAssumption ==
    \A p \in Pages :
        /\ p \in Seq(Range(p))
        /\ \A n \in Range(p) :
              /\ n.label \in Seq(Range(n.label))
              /\ \A key \in DOMAIN n.state : n.state[key] \in BOOLEAN

ASSUME SimilarityAssumption == \A p \in DOMAIN Similarity : Similarity[p] \in 1 .. 99

(* A request, as the engine accepts it.  Filters that are given may be     *)
(* empty; a label without mode and a group or heading that is null are not *)
(* given, a limit of -1 is the default one, a least score of 0 is none.    *)
IsRequest(r) ==
    /\ DOMAIN r = {"given", "kinds", "label", "regions", "state", "group", "heading",
                    "minScore", "sorted", "limit", "suggest"}
    /\ r.given \subseteq {"kind", "region", "state"}
    /\ DOMAIN r.label = {"text", "mode", "caseSensitive", "options"}
    /\ r.label.mode \in {Null, "exact", "contains", "fuzzy"}
    /\ r.label.mode # Null => r.label.text \in Seq(Range(r.label.text))
    /\ r.label.caseSensitive \in BOOLEAN
    /\ r.label.options.minTokenOverlap \in 0 .. 100
    /\ IsFiniteSet(DOMAIN r.state)
    /\ "state" \notin r.given => r.state = <<>>
    /\ r.minScore \in 0 .. 100
    /\ r.limit \in Nat \cup {-1}
    /\ r.suggest \in BOOLEAN

ASSUME RequestsAssumption == DefaultLimit \in Nat /\ \A r \in Requests : IsRequest(r)

VARIABLES
    lookups,         \* how many there have been
    nodes,           \* the nodes of the stored snapshot
    query,           \* the last answer of find: [request, matches, total, suggestions]
    promised,        \* what the suggestion followed last has promised: [count, of]
    link,            \* the last observation with the node it was linked to
    found            \* the last stale element and the one taken for it

queryVars == <<lookups, nodes, query, promised, link, found>>

NoQuery == [request |-> <<>>, matches |-> <<>>, total |-> 0, suggestions |-> <<>>]
Unlinked == [text |-> <<>>, node |-> 0, children |-> <<>>]
NoPromise == [count |-> -1, of |-> <<>>]
NoRetry == [stale |-> 0, fresh |-> 0]

QueriesInit ==
    /\ lookups = 0
    /\ nodes \in Pages
    /\ query = NoQuery
    /\ promised = NoPromise
    /\ link = Unlinked
    /\ found = NoRetry

-----------------------------------------------------------------------------
(* Texts.  Scores are in hundredths.                                       *)
AtMost(q, n) == SubSeq(q, 1, IF n < Len(q) THEN n ELSE Len(q))

Folded(text, caseSensitive) ==
    IF caseSensitive THEN text ELSE [i \in DOMAIN text |-> Lower(text[i])]

TokenizeForMatching(text) == AtMost(Chosen(text, Range(text) \ ShortWords), 10)

TokenScore(t, q, options) ==
    CASE t = q -> 100
      [] t # q /\ options.prefixMatch /\ <<t, q>> \in BeginsWith -> 90
      [] t # q /\ options.prefixMatch /\ <<q, t>> \in BeginsWith -> 85
      [] OTHER ->
            IF <<t, q>> \in DOMAIN Similarity /\ Similarity[<<t, q>>] >= options.minSimilarity
            THEN Similarity[<<t, q>>] ELSE 0

Best(scores) == CHOOSE s \in scores \cup {0} : \A r \in scores \cup {0} : r <= s

Sum(scores) == FoldLeft(LAMBDA sum, s : sum + s, 0, scores)

FuzzyTokensMatch(text, asked, options) ==
    LET best(q) == Best({TokenScore(t, q, options) : t \in Range(text)})
        total == Sum([i \in DOMAIN asked |-> best(asked[i])])
    IN  [isMatch |-> asked # <<>> /\ total >= options.minTokenOverlap * Len(asked),
         score |-> IF asked = <<>> THEN 0 ELSE total \div Len(asked)]

(* The text begins at a word; one word may also be the beginning of one.   *)
Includes(text, part) ==
    \/ \E i \in 0 .. Len(text) - Len(part) : \A j \in DOMAIN part : text[i + j] = part[j]
    \/ Len(part) = 1 /\ \E w \in Range(text) : <<w, part[1]>> \in BeginsWith

-----------------------------------------------------------------------------
(* QueryEngine.find.                                                       *)
FuzzyLabel(n, label) ==
    FuzzyTokensMatch(TokenizeForMatching(Folded(n.label, label.caseSensitive)),
                     TokenizeForMatching(Folded(label.text, label.caseSensitive)), label.options)

MatchLabel(n, label) ==
    LET text == Folded(n.label, label.caseSensitive)
        asked == Folded(label.text, label.caseSensitive)
    IN  CASE label.mode = "fuzzy" -> FuzzyLabel(n, label).isMatch
          [] label.mode = "exact" -> asked = <<>> \/ text = asked
          [] label.mode = "contains" -> asked = <<>> \/ Includes(text, asked)
          [] OTHER -> TRUE

MatchState_Missing(n, state) ==
    \A key \in DOMAIN state : key \in DOMAIN n.state => n.state[key] = state[key]

MatchState(n, state) ==
    /\ n.state # <<>>
    /\ \A key \in DOMAIN state :
           IF key \in DOMAIN n.state THEN n.state[key] = state[key] ELSE state[key] = FALSE

Matches(n, request) ==
    /\ "kind" \in request.given => n.kind \in request.kinds
    /\ MatchLabel(n, request.label)
    /\ "region" \in request.given => n.region \in request.regions
    /\ "state" \in request.given => MatchState(n, request.state)
    /\ request.group # Null => n.group = request.group
    /\ request.heading # Null => n.heading = request.heading

(* Weights are in thousandths.                                             *)
LabelWeight(mode) ==
    CASE mode = "exact" -> 400 [] mode = "contains" -> 300 [] mode = "fuzzy" -> 250 [] OTHER -> 0

Weight(given, w) == IF given THEN w ELSE 0

ScoreMatch(n, request) ==
    LET label == IF request.label.mode = "fuzzy"
                 THEN (LabelWeight("fuzzy") * FuzzyLabel(n, request.label).score) \div 100
                 ELSE LabelWeight(request.label.mode)
        states == {key \in DOMAIN request.state \cap DOMAIN n.state :
                       n.state[key] = request.state[key]}
    IN  label + Weight("kind" \in request.given, 150) + Weight("region" \in request.given, 120)
            + 30 * Cardinality(states) + Weight(request.group # Null, 80)
            + Weight(request.heading # Null, 80)
            + Weight("visible" \in DOMAIN n.state /\ n.state["visible"], 20)

CalculateMaxPossibleScore(request) ==
    20 + LabelWeight(request.label.mode) + Weight("kind" \in request.given, 150)
       + Weight("region" \in request.given, 120) + 30 * Cardinality(DOMAIN request.state)
       + Weight(request.group # Null, 80) + Weight(request.heading # Null, 80)

ScoresEnough(n, request) ==
    request.minScore # 0 =>
        ScoreMatch(n, request) * 100 >= request.minScore * CalculateMaxPossibleScore(request)

(* generateSuggestions: what would leave fewer of these matches.           *)
DistinctValues(q) ==
    LET at == Chosen([i \in DOMAIN q |-> i], {i \in DOMAIN q : \A j \in 1 .. i - 1 : q[j] # q[i]})
    IN  [k \in DOMAIN at |-> q[at[k]]]

CountWhere(matches, Test(_)) == Cardinality({i \in DOMAIN matches : Test(matches[i])})

Suggestion(request, expected) == [request |-> request, expected |-> expected]

RefineKind(matches, request) ==
    LET kinds == DistinctValues([i \in DOMAIN matches |-> matches[i].kind])
    IN  IF "kind" \in request.given \/ Len(kinds) < 2 THEN <<>>
        ELSE [i \in DOMAIN kinds |->
                 Suggestion([request EXCEPT !.given = @ \cup {"kind"}, !.kinds = {kinds[i]}],
                            CountWhere(matches, LAMBDA n : n.kind = kinds[i]))]

RefineRegion(matches, request) ==
    LET all == DistinctValues([i \in DOMAIN matches |-> matches[i].region])
        named == Chosen(all, Range(all) \ {"unknown"})
    IN  IF "region" \in request.given \/ Len(all) < 2 THEN <<>>
        ELSE [i \in DOMAIN named |->
                 Suggestion([request EXCEPT !.given = @ \cup {"region"}, !.regions = {named[i]}],
                            CountWhere(matches, LAMBDA n : n.region = named[i]))]

RefineGroup(matches, request) ==
    LET all == DistinctValues([i \in DOMAIN matches |-> matches[i].group])
        groups == Chosen(all, Range(all) \ {Null})
    IN  IF request.group # Null THEN <<>>
        ELSE [i \in DOMAIN groups |->
                 Suggestion([request EXCEPT !.group = groups[i]],
                            CountWhere(matches, LAMBDA n : n.group = groups[i]))]

AddState(matches, request) ==
    IF "state" \in request.given THEN <<>>
    ELSE [i \in 1 .. 2 |->
             LET key == IF i = 1 THEN "enabled" ELSE "visible"
                 flag == [k \in {key} |-> TRUE]
             IN  Suggestion([request EXCEPT !.given = @ \cup {"state"}, !.state = flag],
                            CountWhere(matches, LAMBDA n : key \in DOMAIN n.state /\ n.state[key]))]

RefineLabel(matches, request) ==
    LET label == request.label
        exact == [label EXCEPT !.mode = "exact", !.caseSensitive = FALSE]
    IN  IF label.mode \in {Null, "exact"} THEN <<>>
        ELSE <<Suggestion([request EXCEPT !.label = exact],
                          CountWhere(matches, LAMBDA n :
                              Folded(n.label, FALSE) = Folded(label.text, FALSE)))>>

GenerateSuggestions(matches, request) ==
    LET all == RefineKind(matches, request) \o RefineRegion(matches, request)
                   \o RefineGroup(matches, request) \o AddState(matches, request)
                   \o RefineLabel(matches, request)
        narrowing == Chosen(all, {s \in Range(all) : s.expected \in 1 .. Len(matches) - 1})
    IN  AtMost(SortedBy(narrowing, LAMBDA s, t : s.expected < t.expected), 5)

Answer(request) ==
    LET matching == Chosen(nodes, {n \in Range(nodes) : /\ Matches(n, request)
                                                         /\ ScoresEnough(n, request)})
        sorted == IF request.sorted
                  THEN SortedBy(matching, LAMBDA m, n :
                                    ScoreMatch(m, request) > ScoreMatch(n, request))
                  ELSE matching
        limited == AtMost(sorted, IF request.limit = -1 THEN DefaultLimit ELSE request.limit)
    IN  [request |-> request, matches |-> limited, total |-> Len(matching),
         suggestions |-> IF request.suggest /\ Len(matching) > 1
                         THEN GenerateSuggestions(limited, request) ELSE <<>>]

Find ==
    \E request \in Requests :
        /\ query' = Answer(request)
        /\ promised' = NoPromise
        /\ UNCHANGED <<nodes, link, found>>

(* Who has asked for suggestions, which findElements does not, asks again  *)
(* as one of them says.                                                    *)
FollowSuggestion ==
    \E i \in DOMAIN query.suggestions :
        /\ query' = Answer(query.suggestions[i].request)
        /\ promised' = [count |-> IF query.total > Len(query.matches) THEN -1
                                  ELSE query.suggestions[i].expected,
                        of |-> query.request]
        /\ UNCHANGED <<nodes, link, found>>

-----------------------------------------------------------------------------
(* linkObservationsToSnapshot.  Scores are in hundredths.                  *)
TagToKinds(tag) ==
    CASE tag = "a" -> <<"link">>
      [] tag = "button" -> <<"button">>
      [] tag = "input" -> <<"input", "checkbox", "radio", "switch", "slider">>
      [] tag = "textarea" -> <<"textarea">>
      [] tag = "select" -> <<"select", "combobox">>
      [] tag = "div" -> <<"generic", "dialog", "section", "button", "link">>
      [] tag = "span" -> <<"generic", "text">>
      [] tag = "section" -> <<"section", "generic">>
      [] tag = "p" -> <<"paragraph", "text">>
      [] tag \in {"h1", "h2", "h3", "h4", "h5", "h6"} -> <<"heading">>
      [] tag = "nav" -> <<"navigation">>
      [] tag \in {"ul", "ol"} -> <<"list">>
      [] tag = "li" -> <<"listitem">>
      [] tag = "img" -> <<"image">>
      [] tag \in {"video", "audio"} -> <<"media">>
      [] tag \in {"dialog", "form", "table"} -> <<tag>>
      [] OTHER -> <<>>

RoleToKind(role) ==
    CASE role = "alert" -> "generic"
      [] role \in {"dialog", "alertdialog"} -> "dialog"
      [] role = "textbox" -> "input"
      [] role \in {"combobox", "listbox"} -> "combobox"
      [] role \in {"menu", "navigation"} -> "navigation"
      [] role = "tabpanel" -> "section"
      [] role \in {"form", "search"} -> "form"
      [] role \in {"button", "link", "checkbox", "radio", "menuitem", "tab"} -> role
      [] OTHER -> Null

GetCandidateKinds(o) ==
    LET tags == TagToKinds(o.tag)
        role == RoleToKind(o.role)
        kinds == IF role = Null \/ role \in Range(tags) THEN tags ELSE Append(tags, role)
    IN  IF kinds = <<>> THEN <<"generic">> ELSE kinds

TextOptions == [minTokenOverlap |-> 50, prefixMatch |-> TRUE, minSimilarity |-> 80]

TextScore(text, label) ==
    LET result == FuzzyTokensMatch(TokenizeForMatching(Folded(label, FALSE)),
                                   TokenizeForMatching(Folded(text, FALSE)), TextOptions)
    IN  CASE text = <<>> \/ label = <<>> -> 0
          [] text # <<>> /\ Folded(text, FALSE) = Folded(label, FALSE) -> 30
          [] OTHER -> IF result.isMatch THEN (30 * result.score) \div 100 ELSE 0

ComputeMatchScore(o, n) ==
    30 + Weight(RoleToKind(o.role) = n.kind, 25) + TextScore(o.text, n.label)
       + Weight(o.isDialog /\ n.region = "dialog", 15)

(* The nodes come in the order of the candidate kinds; the first of the    *)
(* best wins, and has to exceed one half.                                  *)
FindBestMatch(o) ==
    LET kinds == GetCandidateKinds(o)
        candidates == FlattenSeq([i \in DOMAIN kinds |->
                                     SelectSeq(nodes, LAMBDA n : n.kind = kinds[i])])
        ranked == SortedBy(SelectSeq(candidates, LAMBDA n : ComputeMatchScore(o, n) > 50),
                           LAMBDA m, n : ComputeMatchScore(o, m) > ComputeMatchScore(o, n))
    IN  AtMost(ranked, 1)

ExtractObservationChildren(container) ==
    AtMost(SelectSeq(nodes, LAMBDA n : /\ n.label # <<>>
                                       /\ IsInteractive(n) \/ n.kind = "heading"
                                       /\ container.id \in n.inside), 5)

LinkObservation ==
    \E o \in Observed :
        LET best == FindBestMatch(o)
            linked == best # <<>> /\ IsTracked(best[1])
        IN  /\ link' = IF linked
                       THEN [text |-> o.text, node |-> best[1].id,
                             children |-> ExtractObservationChildren(best[1])]
                       ELSE [Unlinked EXCEPT !.text = o.text]
            /\ UNCHANGED <<nodes, query, promised, found>>

-----------------------------------------------------------------------------
(* findBestMatch of the retry: of the nodes with the same label and kind   *)
(* the one with most of its place, then the one next by id.                *)
PlaceScore(n, m) ==
    Weight(m.region = n.region, 1) + Weight(n.heading # Null /\ m.heading = n.heading, 1)
        + Weight(n.group # Null /\ m.group = n.group, 1)

Distance(n, m) == IF n.id < m.id THEN m.id - n.id ELSE n.id - m.id

Closer(n, m, other) ==
    \/ PlaceScore(n, m) > PlaceScore(n, other)
    \/ PlaceScore(n, m) = PlaceScore(n, other) /\ Distance(n, m) < Distance(n, other)

(* A page that was drawn anew, and the element that was there before.      *)
RetryStale ==
    \E fresh \in Pages, i \in DOMAIN nodes :
        LET n == nodes[i]
            same == SortedBy(SelectSeq(fresh, LAMBDA m : m.label = n.label /\ m.kind = n.kind),
                             LAMBDA m, other : Closer(n, m, other))
        IN  /\ nodes' = fresh
            /\ found' = [stale |-> n.id, fresh |-> IF same = <<>> THEN 0 ELSE same[1].id]
            /\ query' = NoQuery
            /\ promised' = NoPromise
            /\ link' = Unlinked

QueriesNext ==
    /\ lookups < MaxLookups
    /\ lookups' = lookups + 1
    /\ Find \/ FollowSuggestion \/ LinkObservation \/ RetryStale

-----------------------------------------------------------------------------
(* "How many matches this refinement would reduce to": asked again as a    *)
(* suggestion says, the engine finds as many as it promised, when no match *)
(* had been cut off.                                                       *)
PromiseIsKept == promised.count >= 0 => query.total = promised.count

(* It is so, though the counting and the filters are written twice, of     *)
(* requests without a least score, whose share is taken of another maximum *)
(* once a filter is added; and where the whole label is suggested, of      *)
(* labels that ignore case, as the suggested one does, and are not empty,  *)
(* as an empty one filters nothing.                                        *)
SameLabel(asked, narrowed) ==
    narrowed.label # asked.label => ~asked.label.caseSensitive /\ asked.label.text # <<>>

RefinementNarrows ==
    /\ promised.count >= 0
    /\ promised.of.minScore = 0
    /\ SameLabel(promised.of, query.request)
    => query.total = promised.count

(* An appeared dialog that stands in the snapshot under its own text is    *)
(* linked, as the modal example of the README has it.                      *)
DialogIsLinked ==
    \A i \in DOMAIN nodes :
        nodes[i].kind = "dialog" /\ link.text # <<>> /\ nodes[i].label = link.text => link.node # 0

=============================================================================
