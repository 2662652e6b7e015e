--------------------------- MODULE FederatedSearch ---------------------------
(***************************************************************************)
(* Reading through the gateway (routers/search.py): a search is scattered  *)
(* to every eligible cluster, each answers a window of its best hits page  *)
(* by page, and the gateway merges them, keeps one copy of each document,  *)
(* sorts them and cuts the requested page; a document is looked up on one  *)
(* cluster after the other.  One client either reads a search page after   *)
(* page or looks one document up, while workers change the index.          *)
(*                                                                         *)
(* A hit is a document's id and its score; how one cluster orders hits of  *)
(* equal score is the provider's affair unless OrderedTies says that it is *)
(* the gateway's order.                                                    *)
(***************************************************************************)
EXTENDS Integers, Sequences, FiniteSets, SequencesExt

CONSTANTS
    Clusters,
    Ids,          \* a set of numbers, ordered as the gateway orders ids
    Scores,
    Limits,       \* page sizes a client asks for
    ProviderMax,  \* TYPESENSE_MAX_PER_PAGE
    MaxDeep,      \* MAX_DEEP_PAGINATION_DOCS
    OrderedTies,
    Nil,
    ChangesDuring, \* bound: the calls during which the index changes
    MaxWrites,    \* bound: changes of the index
    MaxFaults     \* bound: failed requests to a cluster

ASSUME SearchAssumption ==
    /\ Ids \subseteq Nat /\ Scores \subseteq Nat /\ Limits \subseteq Nat \ {0}
    /\ ProviderMax \in Nat \ {0} /\ MaxDeep \in Nat \ {0}
    /\ OrderedTies \in BOOLEAN /\ ChangesDuring \subseteq {"search", "lookup"}
    /\ {MaxWrites, MaxFaults} \subseteq Nat
    /\ IsFiniteSet(Clusters)
    /\ Nil \notin Nat \cup {"found", "missing", "unavailable"}

VARIABLES
    targets,  \* the clusters eligible for the collection
    index,    \* cluster -> its hits, best first
    call,     \* the search in progress, or Nil
    answers,  \* the pages the client has been given
    lookup,   \* the lookup in progress or answered, or Nil
    writes, faults

vars == <<targets, index, call, answers, lookup, writes, faults>>

Hits == [id : Ids, score : Scores]

\* _compare_hits: the higher score first, then the lower id.
Before(h, g) == h.score > g.score \/ (h.score = g.score /\ h.id < g.id)

\* The order a cluster sends its hits in.
IndexOrder(h, g) ==
    h.score > g.score \/ (h.score = g.score /\ (OrderedTies => h.id < g.id))

Ordered(hits) == \A i, j \in 1..Len(hits) : i < j => IndexOrder(hits[i], hits[j])

\* The orders in which a cluster may keep a set of hits.
Rankings(set) == {hits \in SetToSeqs(set) : Ordered(hits)}

\* hits[first:last] as Python cuts it: what there is of it.
Cut(hits, first, last) == SubSeq(hits, first, IF last < Len(hits) THEN last ELSE Len(hits))

\* A cluster's hits apart from one document.
Others(c, id) == {h \in Range(index[c]) : h.id # id}

\* The orders a cluster may keep its hits in when it drops the others and takes
\* in new ones: those that stay keep theirs.
Reranked(c, stay, new) ==
    {hits \in Rankings(stay \cup new) :
        \A i, j \in DOMAIN hits, k, l \in DOMAIN index[c] :
            {hits[i], hits[j]} \subseteq stay /\ hits[i] = index[c][k] /\ hits[j] = index[c][l]
                => (i < j <=> k < l)}

Held(c) == {h.id : h \in Range(index[c])}

-----------------------------------------------------------------------------
(* One search.                                                             *)

Start(request) == request.offset
Window(request) == request.offset + request.limit

\* Variant: each cluster is asked for the requested page alone.
NeededPage(request) == request.limit + 1

\* One hit more than the window tells whether there is another page.
Needed(request) ==
    IF Window(request) + 1 < MaxDeep THEN Window(request) + 1 ELSE MaxDeep

PageSize(request) ==
    IF Needed(request) < ProviderMax THEN Needed(request) ELSE ProviderMax

NoPart == [hits |-> <<>>, found |-> Nil, page |-> 1, state |-> "fetching"]

\* Where the client goes on reading: a cursor ends where the answer offers no
\* next offset, page numbers end where there is no more to read.
NextOffset(answer) ==
    LET after == answer.request.offset + answer.request.limit IN
    IF ~answer.more THEN Nil
    ELSE IF answer.request.cursor /\ after + answer.request.limit > MaxDeep THEN Nil
    ELSE after

\* The requests a client makes: the first page, and after each answer the next.
\* Bound: it stops once the index has changed under it, when it is promised
\* nothing any more.
Requests ==
    IF answers = <<>>
    THEN [offset : {0}, limit : Limits, cursor : BOOLEAN]
    ELSE LET last == answers[Len(answers)] IN
         IF \/ ~last.still \/ last.status = "refused"
            \/ last.status = "ok" /\ NextOffset(last) = Nil
         THEN {}
         ELSE {[last.request EXCEPT !.offset = IF last.status = "ok" THEN NextOffset(last)
                                                                    ELSE last.request.offset]}

Empty(request, status) ==
    [request |-> request, status |-> status, hits |-> <<>>, more |-> FALSE,
     found |-> 0, relation |-> "none", partial |-> FALSE, still |-> TRUE]

Search ==
    /\ call = Nil /\ lookup = Nil
    /\ \E request \in Requests :
        IF Window(request) > MaxDeep
        THEN /\ answers' = Append(answers, Empty(request, "refused"))
             /\ UNCHANGED call
        ELSE /\ call' = [request |-> request, parts |-> [c \in targets |-> NoPart], still |-> TRUE]
             /\ UNCHANGED answers
    /\ UNCHANGED <<targets, index, lookup, writes, faults>>

\* _execute_typesense_search_window, one page of it: pages are numbered, so
\* what a page holds depends on the index when it is read.
Fetched(c, part, request) ==
    LET size  == PageSize(request)
        first == (part.page - 1) * size + 1
        page  == Cut(index[c], first, first + size - 1)
        found == IF part.found = Nil THEN Len(index[c]) ELSE part.found
        hits  == part.hits \o page
        ended == Len(page) < size \/ Len(hits) >= found \/ Len(hits) >= Needed(request)
    IN  [hits  |-> IF ended THEN Cut(hits, 1, Needed(request)) ELSE hits,
         found |-> found, page |-> part.page + 1,
         state |-> IF ended THEN "done" ELSE "fetching"]

FetchPage(c) ==
    /\ call # Nil /\ c \in targets /\ call.parts[c].state = "fetching"
    /\ call' = [call EXCEPT !.parts[c] = Fetched(c, @, call.request)]
    /\ UNCHANGED <<targets, index, answers, lookup, writes, faults>>

FetchFails(c) ==
    /\ call # Nil /\ c \in targets /\ call.parts[c].state = "fetching"
    /\ faults < MaxFaults
    /\ faults' = faults + 1
    /\ call' = [call EXCEPT !.parts[c] = [NoPart EXCEPT !.state = "failed"]]
    /\ UNCHANGED <<targets, index, answers, lookup, writes>>

-----------------------------------------------------------------------------
(* Merging.                                                                *)

Responded == {c \in targets : call.parts[c].state = "done"}

Received == UNION {Range(call.parts[c].hits) : c \in Responded}

\* Sums over the clusters, each cluster's hits counted on their own.
NumReceived == Cardinality(UNION {{c} \X DOMAIN call.parts[c].hits : c \in Responded})

NumFound == Cardinality(UNION {{c} \X (1 .. call.parts[c].found) : c \in Responded})

\* Of several copies of a document the best ranked one is kept.
Best(hits) == {h \in hits : ~\E g \in hits : g.id = h.id /\ Before(g, h)}

\* The place of a hit when a set of hits is sorted.
Place(h, hits) == 1 + Cardinality({g \in hits : Before(g, h)})

Merged(hits) ==
    [n \in 1 .. Cardinality(Best(hits)) |-> CHOOSE h \in Best(hits) : Place(h, Best(hits)) = n]

Duplicates == NumReceived > Cardinality({h.id : h \in Received})

\* Variant: only what the clusters kept back counts as more.
HasMoreBehind(merged) == NumFound > NumReceived

HasMore(merged) == Window(call.request) < Len(merged) \/ NumFound > NumReceived

\* Variant: duplicates do not weaken what the count claims.
RelationRaw == IF Cardinality(targets) = 1 THEN "exact" ELSE "upper_bound"

Relation ==
    IF Duplicates THEN "window_lower_bound"
    ELSE IF Cardinality(targets) = 1 THEN "exact" ELSE "upper_bound"

Response ==
    LET merged == Merged(Received) IN
    [request |-> call.request, status |-> "ok",
     hits |-> Cut(merged, Start(call.request) + 1, Window(call.request)),
     more |-> HasMore(merged),
     found |-> IF Duplicates THEN Len(merged) ELSE NumFound,
     relation |-> Relation,
     partial |-> Responded # targets,
     still |-> call.still]

Answer ==
    /\ call # Nil /\ \A c \in targets : call.parts[c].state # "fetching"
    /\ answers' = Append(answers, IF Responded = {} THEN Empty(call.request, "unavailable")
                                  ELSE Response)
    /\ call' = Nil
    /\ UNCHANGED <<targets, index, lookup, writes, faults>>

-----------------------------------------------------------------------------
(* Looking one document up: the first cluster that holds it answers.       *)

Lookup(id) ==
    /\ lookup = Nil /\ call = Nil /\ answers = <<>>
    /\ lookup' = [id |-> id, left |-> targets, failed |-> FALSE, result |-> Nil,
                  kept |-> {c \in targets : id \in Held(c)}]
    /\ UNCHANGED <<targets, index, call, answers, writes, faults>>

Retrieve(c) ==
    /\ lookup # Nil /\ lookup.result = Nil /\ c \in lookup.left
    /\ lookup' = [lookup EXCEPT !.left = @ \ {c},
                                !.result = IF lookup.id \in Held(c) THEN "found" ELSE Nil]
    /\ UNCHANGED <<targets, index, call, answers, writes, faults>>

\* Variant: a cluster that fails counts as one without the document.
RetrieveFailsQuietly(c) ==
    /\ lookup # Nil /\ lookup.result = Nil /\ c \in lookup.left
    /\ faults < MaxFaults
    /\ faults' = faults + 1
    /\ lookup' = [lookup EXCEPT !.left = @ \ {c}]
    /\ UNCHANGED <<targets, index, call, answers, writes>>

RetrieveFails(c) ==
    /\ lookup # Nil /\ lookup.result = Nil /\ c \in lookup.left
    /\ faults < MaxFaults
    /\ faults' = faults + 1
    /\ lookup' = [lookup EXCEPT !.left = @ \ {c}, !.failed = TRUE]
    /\ UNCHANGED <<targets, index, call, answers, writes>>

NotRetrieved ==
    /\ lookup # Nil /\ lookup.result = Nil /\ lookup.left = {}
    /\ lookup' = [lookup EXCEPT !.result = IF lookup.failed THEN "unavailable" ELSE "missing"]
    /\ UNCHANGED <<targets, index, call, answers, writes, faults>>

-----------------------------------------------------------------------------
(* The index, changed by the workers.                                      *)

\* Between calls a change only makes for another index to begin with; during
\* one it takes away what the answers may be held to.
Busy ==
    \/ "search" \in ChangesDuring /\ call # Nil
    \/ "lookup" \in ChangesDuring /\ lookup # Nil /\ lookup.result = Nil

Change(c, hits) ==
    /\ writes < MaxWrites /\ Busy
    /\ writes' = writes + 1
    /\ index' = [index EXCEPT ![c] = hits]
    /\ call' = IF call = Nil THEN Nil ELSE [call EXCEPT !.still = FALSE]
    /\ answers' = [i \in DOMAIN answers |-> [answers[i] EXCEPT !.still = FALSE]]
    /\ UNCHANGED <<targets, faults>>

Upsert(c, h) ==
    /\ c \in targets
    /\ \E hits \in Reranked(c, Others(c, h.id), {h}) : Change(c, hits)
    /\ UNCHANGED lookup

Withdraw(c, id) ==
    /\ c \in targets /\ id \in Held(c)
    /\ \E hits \in Reranked(c, Others(c, id), {}) : Change(c, hits)
    /\ lookup' = IF lookup = Nil \/ lookup.id # id THEN lookup
                 ELSE [lookup EXCEPT !.kept = @ \ {c}]

-----------------------------------------------------------------------------
Scorings == UNION {[set -> Scores] : set \in {set \in SUBSET Ids : IsFiniteSet(set)}}

Contents == UNION {Rankings({[id |-> i, score |-> s[i]] : i \in DOMAIN s}) : s \in Scorings}

Init ==
    /\ targets \in (SUBSET Clusters) \ {{}}
    /\ index \in [targets -> Contents]
    /\ call = Nil /\ answers = <<>> /\ lookup = Nil
    /\ writes = 0 /\ faults = 0

Next ==
    \/ Search \/ Answer \/ NotRetrieved
    \/ \E id \in Ids : Lookup(id)
    \/ \E c \in targets :
        \/ FetchPage(c) \/ FetchFails(c) \/ Retrieve(c) \/ RetrieveFails(c)
        \/ \E h \in Hits : Upsert(c, h)
        \/ \E id \in Ids : Withdraw(c, id)

Spec == Init /\ [][Next]_vars

-----------------------------------------------------------------------------
\* Every variable has its type; each cluster keeps one copy of a document, in
\* its order, and no page is longer than the client asked for.
TypeOK ==
    /\ targets \subseteq Clusters
    /\ \A c \in targets :
        /\ index[c] \in Seq(Hits) /\ Ordered(index[c])
        /\ Cardinality(Held(c)) = Len(index[c])
    /\ \A i \in DOMAIN answers :
        /\ answers[i].hits \in Seq(Hits)
        /\ Len(answers[i].hits) <= answers[i].request.limit
    /\ lookup # Nil => lookup.result \in {Nil, "found", "missing", "unavailable"}
    /\ writes \in 0..MaxWrites /\ faults \in 0..MaxFaults

\* The order of the whole collection, defined without windows or pages: the
\* place of a document is the number of documents with a better copy.
Collection == UNION {Range(index[c]) : c \in targets}

Rank(id) ==
    LET best(i) == CHOOSE h \in Collection : h.id = i /\ \A g \in Collection :
                                                g.id = i => ~Before(g, h)
    IN  1 + Cardinality({j \in {h.id : h \in Collection} : Before(best(j), best(id))})

\* What an answer may claim: no cluster failed and the index stands as it was.
Whole(answer) == answer.status = "ok" /\ ~answer.partial /\ answer.still

Total == Cardinality({h.id : h \in Collection})

\* A page of a search holds the documents whose places in the order of the
\* whole collection it stands for, however the copies are spread and the
\* windows are paged (_perform_federated_search, its merge and its slice).
PageIsExact ==
    \A i \in DOMAIN answers : Whole(answers[i]) =>
        LET page == answers[i].hits
            request == answers[i].request
        IN  /\ \A k \in DOMAIN page : Rank(page[k].id) = request.offset + k
            /\ request.offset + Len(page) < Total => Len(page) = request.limit

\* The counts of an answer mean what found_relation says, duplicates seen in
\* the fetched window or not (has_more and found, search.py:673).
CountsAreHonest ==
    \A i \in DOMAIN answers : Whole(answers[i]) =>
        /\ answers[i].more = (Window(answers[i].request) < Total)
        /\ answers[i].relation = "exact" => answers[i].found = Total
        /\ answers[i].relation = "upper_bound" => answers[i].found >= Total
        /\ answers[i].relation = "window_lower_bound" => answers[i].found <= Total

\* A client that followed the answers to their end has read every document
\* exactly once, up to the depth that can be read.
SessionReadsAll ==
    LET last   == answers[Len(answers)]
        places == UNION {{i} \X DOMAIN answers[i].hits : i \in DOMAIN answers}
        id(p)  == answers[p[1]].hits[p[2]].id
    IN  (/\ answers # <<>> /\ \A i \in DOMAIN answers : answers[i].still
         /\ \A i \in DOMAIN answers : ~answers[i].partial
         /\ Requests = {})
        => /\ \A p, q \in places : id(p) = id(q) => p = q
           /\ \/ {id(p) : p \in places} = {h.id : h \in Collection}
              \/ Window(last.request) + last.request.limit > MaxDeep
              \/ last.status = "refused"

\* A lookup that says the document does not exist had an answer from every
\* cluster, and none of them held the document all the while (get_document).
MissingIsMissing ==
    lookup # Nil /\ lookup.result = "missing" => lookup.kept = {}

\* search's docstring promises correct pagination across sharded data, and
\* query_api/README.md:141 only sort orders that the gateway can reproduce: a
\* client then never meets one document on two pages.  False where the provider's order
\* of equal scores is not the gateway's: see search_ties.
PagesDisjoint ==
    \A i, j \in DOMAIN answers : i < j /\ Whole(answers[i]) /\ Whole(answers[j]) =>
        Range(answers[i].hits) \cap Range(answers[j].hits) = {}

=============================================================================
