------------------------------ MODULE ListQuery ------------------------------
(***************************************************************************)
(* The list endpoints, of users, generations, queue jobs, avatars and      *)
(* files.  They share one pattern: conditions joined by $and, a sort, and  *)
(* a page of what matches, found beside a count of all that matches.  The  *)
(* two queries of a page run in parallel, other requests write in between, *)
(* and a client that wants the whole list asks page after page until the   *)
(* answer says there are no more.                                          *)
(*                                                                         *)
(* Documents are numbered in the order of their creation, by which the     *)
(* lists are sorted if the client does not say otherwise.                  *)
(***************************************************************************)
EXTENDS Integers, FiniteSets

CONSTANTS
    MaxDocs,    \* bound on the documents ever created
    Limit,      \* documents per page
    Endpoints,  \* a subset of AllEndpoints
    FirstPages, \* the pages a client may begin with
    Searches,   \* what it may search for: "none", "word", or "id", that of document 1
    Marks       \* the attributes documents may have, a subset of AllMarks

AllEndpoints == {"users", "generations", "queue", "avatars", "files"}

\* A document belongs to the client or not, is active or not (avatars), and has the word the
\* client may search for or not.
AllMarks == {"mine", "active", "word"}

ASSUME ListAssumption ==
    /\ MaxDocs \in Nat /\ Limit \in Nat /\ Limit > 0
    /\ Endpoints \subseteq AllEndpoints /\ FirstPages \subseteq Nat
    /\ Searches \subseteq {"none", "word", "id"}
    /\ Marks \subseteq AllMarks

VARIABLES
    docs,      \* documents -> their attributes, or Absent
    born,      \* how many were ever created
    query,     \* what the client asks for, and the page it is at
    stage,     \* "asked", "done" or "failed500"
    answered,  \* the queries of the page that MongoDB has answered: "count", "find"
    counted,   \* the answer to countDocuments
    found,     \* the answer to find
    seen,      \* documents that the client got
    steady,    \* history: documents that matched ever since the first page was asked for
    disturbed  \* history: did a document stop matching, or start to between a count and its find?

reads == <<answered, counted, found, seen>>
listVars == <<docs, born, query, stage, reads, steady, disturbed>>

Docs == 1..MaxDocs
Absent == {"absent"}   \* as the attributes of a document
AnyOne == "anyone"

Attributes == SUBSET Marks
Owner(d) == IF "mine" \in docs[d] THEN "me" ELSE "other"

-----------------------------------------------------------------------------
(* The conditions of a query.  Operators no action uses, here and below,   *)
(* are faulty variants of the one after them.                              *)

\* Users and queue jobs are listed by administrators only.
Queries ==
    {q \in [endpoint : Endpoints, admin : BOOLEAN, order : {"asc", "desc"},
            search : Searches, owner : {AnyOne, "me", "other"}, page : FirstPages] :
        q.endpoint \in {"users", "queue"} => q.admin /\ q.owner = AnyOne}

HasSearchKeys == query.endpoint # "generations"
SearchesId == query.endpoint \in {"users", "generations", "queue"}

\* MongoDB rejects an $or of no conditions, and a negative skip.
Skips == query.page > 0
QueryFails == ~Skips \/ (query.search = "word" /\ ~HasSearchKeys)

SearchMatches(d) ==
    CASE query.search = "none" -> TRUE
      [] query.search = "word" -> "word" \in docs[d]
      [] OTHER -> SearchesId /\ d = 1

ClientsOwner == query.owner

\* The owner filter of the client; the userId of a non-admin's generations is overwritten.
OwnerFilter ==
    IF query.endpoint = "generations" /\ ~query.admin THEN "me" ELSE query.owner

ScopeMatches(d) ==
    /\ query.endpoint = "files" /\ ~query.admin => Owner(d) = "me"
    /\ query.endpoint = "avatars" /\ ~query.admin => "active" \in docs[d]

Matches(d) ==
    /\ docs[d] # Absent
    /\ SearchMatches(d)
    /\ OwnerFilter \in {AnyOne, Owner(d)}
    /\ ScopeMatches(d)

Matching == {d \in Docs : Matches(d)}

-----------------------------------------------------------------------------
(* The pages                                                               *)

Before(a, b) == IF query.order = "asc" THEN a < b ELSE a > b

\* The place of d in the list of S, from 1.
Position(S, d) == Cardinality({e \in S : e = d \/ Before(e, d)})

SkipTooMany == query.page * Limit
Skip == (query.page - 1) * Limit

PageUnlimited(S) == {d \in S : Skip < Position(S, d)}
PageOf(S) == {d \in S : Skip < Position(S, d) /\ Position(S, d) <= Skip + Limit}

TotalPages(total) == (total + Limit - 1) \div Limit

ListInit ==
    /\ born \in 0..MaxDocs
    /\ docs \in {f \in [Docs -> Attributes \cup {Absent}] : \A d \in Docs : d > born => f[d] = Absent}
    /\ query \in Queries
    /\ stage = "asked"
    /\ answered = {} /\ counted = 0 /\ found = {}
    /\ seen = {}
    /\ steady = Matching
    /\ disturbed = FALSE

Fail ==
    /\ stage = "asked" /\ QueryFails
    /\ stage' = "failed500"
    /\ UNCHANGED <<docs, born, query, reads, steady, disturbed>>

Count ==
    /\ stage = "asked" /\ ~QueryFails /\ "count" \notin answered
    /\ answered' = answered \cup {"count"}
    /\ counted' = Cardinality(Matching)
    /\ UNCHANGED <<docs, born, query, stage, found, seen, steady, disturbed>>

Find ==
    /\ stage = "asked" /\ ~QueryFails /\ "find" \notin answered
    /\ answered' = answered \cup {"find"}
    /\ found' = PageOf(Matching)
    /\ UNCHANGED <<docs, born, query, stage, counted, seen, steady, disturbed>>

\* The client takes the documents and asks for the next page, if there is one.
AnswerPage ==
    /\ stage = "asked" /\ answered = {"count", "find"}
    /\ seen' = seen \cup found
    /\ answered' = {} /\ counted' = 0 /\ found' = {}
    /\ IF query.page < TotalPages(counted)
         THEN query' = [query EXCEPT !.page = @ + 1] /\ UNCHANGED stage
         ELSE stage' = "done" /\ UNCHANGED query
    /\ UNCHANGED <<docs, born, steady, disturbed>>

-----------------------------------------------------------------------------
(* What other requests write meanwhile                                     *)

Write(d, a) ==
    /\ stage = "asked"
    /\ docs' = [docs EXCEPT ![d] = a]
    /\ UNCHANGED <<query, stage, reads>>
    /\ steady' = steady \cap Matching'
    /\ disturbed' = \/ disturbed
                    \/ ~(Matching \subseteq Matching')
                    \/ ~(Matching' \subseteq Matching) /\ answered = {"count"}

Create(a) ==
    /\ born < MaxDocs
    /\ born' = born + 1
    /\ Write(born', a)

\* An update changes no owner.
Update(d, a) ==
    /\ docs[d] # Absent
    /\ "mine" \in a <=> "mine" \in docs[d]
    /\ Write(d, a)
    /\ UNCHANGED born

Delete(d) ==
    /\ docs[d] # Absent
    /\ Write(d, Absent)
    /\ UNCHANGED born

ListNext ==
    \/ Fail \/ Count \/ Find \/ AnswerPage
    \/ \E a \in Attributes : Create(a)
    \/ \E d \in Docs, a \in Attributes : Update(d, a)
    \/ \E d \in Docs : Delete(d)

ListSpec == ListInit /\ [][ListNext]_listVars

-----------------------------------------------------------------------------
(* Properties                                                              *)

\* Every variable has its type, and a page is no longer than the limit.
ListTypeOK ==
    /\ docs \in [Docs -> Attributes \cup {Absent}]
    /\ born \in 0..MaxDocs
    /\ query \in [endpoint : Endpoints, admin : BOOLEAN, order : {"asc", "desc"}, page : Nat,
                  search : Searches, owner : {AnyOne, "me", "other"}]
    /\ stage \in {"asked", "done", "failed500"}
    /\ answered \subseteq {"count", "find"}
    /\ counted \in 0..MaxDocs
    /\ found \subseteq Docs /\ Cardinality(found) <= Limit
    /\ seen \subseteq Docs /\ steady \subseteq Docs
    /\ disturbed \in BOOLEAN

\* A client that asked for every page got each document that matched all along, unless some
\* other document stopped matching, or started to between the count and the find of a page:
\* documents created, or edited into the list, at other times may make it see one twice, but
\* never miss one.
WalksFindAll == stage = "done" => steady \subseteq seen \/ disturbed

\* Whatever owner it filters by and whatever id it searches for, a client that is no
\* administrator gets no generations and no files of others.
OthersStayHidden ==
    ~query.admin /\ query.endpoint \in {"generations", "files"} =>
        \A d \in seen : docs[d] = Absent \/ Owner(d) = "me"

-----------------------------------------------------------------------------
(* What the documents say and the code does not do: README.md shows, for   *)
(* each, how to see it fail.                                               *)

\* docs/patterns/query-filter.md: all list endpoints support searches.
SearchesAreAnswered == stage # "failed500"
=============================================================================
