------------------------------- MODULE Listing -------------------------------
(* The read side of the service layer: BaseService.list with its clamp, allow lists and *)
(* the dictionary it shares with its caller, BaseRepository.list_paginated with the     *)
(* page arithmetic of PaginatedResponse. A queryset is lazy: rows come and go between   *)
(* the call and the query. A walker reads page after page; an auditor asks for deleted  *)
(* rows as well. The order of the pages is what list() was asked for (order_by), the    *)
(* model's Meta.ordering (newest first for User and APIKey, by name for Role), or none. *)
EXTENDS Naturals, FiniteSets

CONSTANTS InitialRows,    \* number of rows at the start, with keys 1, 2, ...
          MaxRows,        \* bound: rows
          Orders,         \* the orders a query may have: each gives every row its rank
          Limits,         \* page sizes a walker asks for
          max_page_size,  \* BaseService.max_page_size
          MaxDeletes      \* bound: soft deletes

ASSUME ListingAssumption ==
    /\ InitialRows \in Nat /\ MaxRows \in Nat /\ InitialRows <= MaxRows /\ Limits \subseteq Nat
    /\ max_page_size \in Nat \ {0} /\ MaxDeletes \in Nat /\ Orders \subseteq [1..MaxRows -> Nat]
    /\ \A rank \in Orders : \A r, s \in 1..MaxRows : rank[r] = rank[s] => r = s

VARIABLES
    rows, active,   \* keys of all rows, and of those with is_active; new rows get higher keys
    dict,           \* per caller, the names in its dictionary of filters; all rows match "kind".
                    \* An empty one stands for no filters, too
    allowed,        \* allowed_filter_fields: "all" (None), or without "is_active"
    sorts,          \* the walker's order_by: "none", "allowed" by allowed_order_fields, or "refused"
    way, limit,     \* service or repository; the page size asked for
    order,          \* the order of the walker's query, <<>> for none
    page,           \* pages fetched
    query,          \* the slice of an unevaluated queryset, <<>> for none
    more,           \* has_next of the last answer
    shown, again,   \* history: keys fetched, and keys fetched more than once
    stale,          \* history: a row was created after the count said that a page is the last
                    \* one, and before its query
    walk,           \* on, ended, or refused
    deletes,        \* soft deletes since the start
    passes,         \* whose dictionary the auditor passes: its own or the walker's
    audit, hidden   \* the auditor's call: none, answered, refused; the rows the answer left out

auditorVars == <<passes, audit, hidden>>
walkVars == <<allowed, sorts, way, limit, order, page, query, more, shown, again, walk>>
listingVars == <<rows, active, dict, walkVars, stale, deletes, auditorVars>>

Callers == {"walker", "auditor"}

ListingInit ==
    /\ rows = 1..InitialRows /\ active = rows /\ dict \in [Callers -> {{}, {"kind"}}]
    /\ allowed \in {"all", "no is_active"} /\ sorts \in {"none", "allowed", "refused"}
    /\ way \in {"service", "repository"} /\ limit \in Limits /\ order \in Orders \cup {<<>>}
    /\ sorts # "none" => way = "service" /\ order # <<>>     \* list_paginated takes no order
    /\ page = 0 /\ query = <<>> /\ more = TRUE /\ shown = {} /\ again = {} /\ stale = FALSE
    /\ walk = "on" /\ deletes = 0 /\ passes \in Callers /\ audit = "none" /\ hidden = {}

(* ------------------------------------------------------------------------ page arithmetic *)

CappedLimit(n) == IF n > max_page_size THEN max_page_size ELSE n

(* qs[offset:capped_limit]. *)
MutantServiceSlice(offset, n) == <<offset, CappedLimit(n)>>

(* qs[offset : offset + capped_limit]                                                    *)
ServiceSlice(offset, n) == <<offset, offset + CappedLimit(n)>>

(* list_paginated: pages count from 1, and page 0 is page 1.                               *)
PageOffset(number, size) == (IF number > 1 THEN number - 1 ELSE 0) * size
PageSlice(number, size) == <<PageOffset(number, size), PageOffset(number, size) + size>>

TotalPages(total, size) == IF size > 0 THEN (total + size - 1) \div size ELSE 0
HasNext(number, total, size) == number < TotalPages(total, size)

(* ---------------------------------------------------------------------------------- actions *)

(* The default of the parameter is a dictionary, which all calls without filters share. *)
MutantMarked ==
    [c \in Callers |-> IF c = "walker" \/ (dict["walker"] = {} /\ dict[c] = {}) THEN dict[c] \cup {"is_active"}
                       ELSE dict[c]]

(* filters = filters or {}: is_active goes into the dictionary that list() was given, unless  *)
(* that is empty, and then into a new one.                                                   *)
Marked == IF dict["walker"] = {} THEN dict ELSE [dict EXCEPT !["walker"] = @ \cup {"is_active"}]

(* list() marks the filters, validates filters and order, and slices.                         *)
ServiceList ==
    /\ walk = "on" /\ way = "service" /\ query = <<>> /\ allowed = "all" /\ sorts # "refused"
    /\ dict' = Marked
    /\ query' = ServiceSlice(page * limit, limit)
    /\ UNCHANGED <<rows, active, allowed, sorts, way, limit, order, page, more, shown, again, stale,
                   walk, deletes, auditorVars>>

(* is_active is a filter like any other: an allow list without it refuses the default, when   *)
(* the filters are marked already.                                                           *)
ServiceListRefused ==
    /\ walk = "on" /\ way = "service" /\ query = <<>> /\ allowed # "all"
    /\ dict' = Marked /\ walk' = "refused"
    /\ UNCHANGED <<rows, active, allowed, sorts, way, limit, order, page, query, more, shown, again,
                   stale, deletes, auditorVars>>

(* The order is validated after the filters were marked.                                      *)
ServiceOrderRefused ==
    /\ walk = "on" /\ way = "service" /\ query = <<>> /\ allowed = "all" /\ sorts = "refused"
    /\ dict' = Marked /\ walk' = "refused"
    /\ UNCHANGED <<rows, active, allowed, sorts, way, limit, order, page, query, more, shown, again,
                   stale, deletes, auditorVars>>

(* list_paginated counts at once and leaves the slice for later.                             *)
RepositoryList ==
    /\ walk = "on" /\ way = "repository" /\ query = <<>>
    /\ query' = PageSlice(page + 1, limit)
    /\ more' = HasNext(page + 1, Cardinality(active), limit)
    /\ UNCHANGED <<rows, active, dict, allowed, sorts, way, limit, order, page, shown, again, stale,
                   walk, deletes, auditorVars>>

(* A row's place among the active ones in the order of the query.                             *)
Place(r) == Cardinality({x \in active : order[x] <= order[r]})

InSlice(place) == query[1] < place /\ place <= query[2]

(* What the query may return: without an order, any rows, as many as the slice has.          *)
Results ==
    IF order # <<>> THEN {{r \in active : InSlice(Place(r))}}
    ELSE {got \in SUBSET active : Cardinality(got) = Cardinality({i \in 1..Cardinality(active) : InSlice(i)})}

(* The query runs. Of a service's list a short page is the last one.                         *)
Fetch ==
    /\ query # <<>> /\ query' = <<>> /\ page' = page + 1
    /\ \E got \in Results :
         /\ shown' = shown \cup got /\ again' = again \cup (shown \cap got)
         /\ walk' = IF (way = "service" /\ Cardinality(got) < limit) \/ (way = "repository" /\ ~more) \/ limit = 0
                    THEN "ended" ELSE "on"
    /\ UNCHANGED <<rows, active, dict, allowed, sorts, way, limit, order, more, stale, deletes,
                   auditorVars>>

(* list(filters, active_only=False) adds nothing: the filters are what the dictionary that    *)
(* the auditor passes holds by now, and they are validated. Its query runs at once.           *)
AuditorList ==
    /\ audit = "none"
    /\ LET filters == dict[passes]
       IN  IF "is_active" \in filters /\ allowed # "all"
           THEN audit' = "refused" /\ hidden' = hidden
           ELSE audit' = "answered" /\ hidden' = IF "is_active" \in filters THEN rows \ active ELSE {}
    /\ UNCHANGED <<rows, active, dict, walkVars, stale, deletes, passes>>

SoftDelete(r) ==
    /\ r \in active /\ deletes < MaxDeletes
    /\ active' = active \ {r} /\ deletes' = deletes + 1
    /\ UNCHANGED <<rows, dict, walkVars, stale, auditorVars>>

Create ==
    /\ Cardinality(rows) < MaxRows
    /\ rows' = rows \cup {Cardinality(rows) + 1} /\ active' = active \cup {Cardinality(rows) + 1}
    /\ stale' = (stale \/ (way = "repository" /\ query # <<>> /\ ~more))
    /\ UNCHANGED <<dict, walkVars, deletes, auditorVars>>

ListingNext ==
    \/ ServiceList \/ ServiceListRefused \/ ServiceOrderRefused \/ RepositoryList \/ Fetch \/ Create
    \/ \E r \in rows : SoftDelete(r)
    \/ AuditorList

ListingSpec == ListingInit /\ [][ListingNext]_listingVars

----------------------------------------------------------------------------------
(* What must hold. *)

(* New rows come last, as in the order of the key.                                           *)
Ascending == \A r, s \in 1..MaxRows : r < s => order[r] < order[s]

(* What an ordered walk promises. No row is shown twice while rows are deleted, unless a row  *)
(* was created and the order does not put new rows last: newest first, it shifts the others   *)
(* by one. And no row that was there at the start is missed, whatever is created meanwhile,   *)
(* when none was deleted, the page size is within the cap, and list_paginated's total was     *)
(* not outdated when the last page was read. Without an order there is no such promise.       *)
PagesFaithful ==
    order # <<>> =>
        /\ Ascending \/ rows = 1..InitialRows => again = {}
        /\ walk = "ended" /\ deletes = 0 /\ limit \in 1..max_page_size /\ ~stale => 1..InitialRows \subseteq shown

(* active_only=False is answered in full, deleted rows included, but to a caller that passes  *)
(* the very dictionary, not empty, that another call of list() had been given: that one has   *)
(* is_active in it, and hides deleted rows or, under an allow list without is_active, has the  *)
(* call refused. Calls that give no filters, or an empty dictionary, never meet.              *)
OptInHonoured ==
    hidden # {} \/ audit = "refused" =>
        passes = "walker" /\ dict["walker"] = {"kind", "is_active"} /\ way = "service"
==================================================================================
