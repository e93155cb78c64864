--------------------------- MODULE ObjectListing ---------------------------
(***************************************************************************)
(* The paged listings: ListObjects and ListObjectsV2 of a bucket's         *)
(* objects, ListMultipartUploads of its uploads and ListParts of one       *)
(* upload. A client asks page after page while names come and go, and may  *)
(* empty the bucket with DeleteObjects as it goes.                         *)
(*                                                                         *)
(* A name is its position in name order, which MongoDB and Go agree on:    *)
(* an object's name, an upload's pair of key and upload id, or a part      *)
(* number. Position 0 is the empty marker. A marker that is only a key is  *)
(* the position of the key's last upload. Each query of MongoDB is a step. *)
(***************************************************************************)
EXTENDS Integers, Sequences, FiniteSets

CONSTANTS
  NumNames,   \* how many names there are
  Views,      \* what prefix and delimiter select: the names lo..hi, grouped
  Starts,     \* where a client may start
  PageCap,    \* the largest page: 1000
  Asked,      \* the page sizes clients ask for
  MaxDelete,  \* the most keys in a DeleteObjects request: 1000
  MaxChanges  \* bound on the names that others put and delete

Names == 1..NumNames

\* A common prefix is a group [from, mark, to]: it sorts as the name `from`,
\* its names are from..to, and the names above `mark` begin with U+10FFFF
\* after the prefix, where the query that skips the group does not reach. A
\* name has one common prefix, the one up to its first delimiter.
ASSUME ListingAssumption ==
  /\ NumNames \in Nat /\ PageCap \in Nat \ {0}
  /\ MaxDelete \in Nat /\ PageCap <= MaxDelete
  /\ Asked \subseteq Nat /\ Starts \subseteq 0..NumNames /\ MaxChanges \in Nat
  /\ \A v \in Views :
       /\ v.lo \in Names /\ v.hi \in Names
       /\ v.groups \subseteq [from : Names, mark : Names, to : Names]
       /\ \A g \in v.groups : /\ v.lo <= g.from /\ g.from <= g.mark
                              /\ g.mark <= g.to /\ g.to <= v.hi
       /\ \A g, h \in v.groups : g = h \/ g.to < h.from \/ h.to < g.from

VARIABLES
  present,  \* the names that exist
  changes,  \* how often others changed them
  kind,     \* "objects", "uploads" or "parts"
  view,     \* prefix and delimiter of the client's requests
  start,    \* start-after, or the first marker
  purge,    \* the client deletes what it lists
  token,    \* continuation-token or marker, 0 before there is one
  limit,    \* max-keys of the request
  phase,    \* "idle", "paging", "deleting", "done", "refused"
  page,     \* the page being built: where it is, its items
  truncated,\* IsTruncated of the last page
  listed,   \* the items the client has got, in order
  batch,    \* the keys DeleteObjects has yet to delete
  errors,   \* the names a DeleteObjects answered an Error for
  stayed,   \* history: names that existed all the time
  put,      \* history: names that were put meanwhile
  blind     \* history: where pages of max-keys 0 sent the client on to

request == <<kind, view, start, purge>>
paging == <<token, limit, page, truncated, listed, blind>>
vars == <<present, changes, request, phase, paging, batch, errors, stayed,
          put>>

Entry(n) == [at |-> n, prefix |-> FALSE]
Prefix(g) == [at |-> g.from, prefix |-> TRUE]
PageFrom(n) == [cursor |-> n, items |-> <<>>]

TypeOK ==
  /\ present \subseteq Names
  /\ changes \in 0..MaxChanges
  /\ kind \in {"objects", "uploads", "parts"}
  /\ view \in Views /\ start \in Starts /\ purge \in BOOLEAN
  /\ token \in 0..NumNames
  /\ limit \in 0..PageCap
  /\ phase \in {"idle", "paging", "deleting", "done", "refused"}
  /\ page.cursor \in 0..NumNames
  /\ truncated \in BOOLEAN
  /\ Len(page.items) <= limit
  /\ \A i \in DOMAIN listed : listed[i].at \in Names
  /\ \A i \in DOMAIN batch : batch[i] \in 0..NumNames
  /\ Len(batch) <= MaxDelete
  /\ errors \subseteq 0..NumNames
  /\ stayed \subseteq present /\ put \subseteq Names
  /\ blind \subseteq Names

Init ==
  /\ present \in SUBSET Names
  /\ changes = 0
  /\ kind \in {"objects", "uploads", "parts"}
  /\ view \in {v \in Views : /\ kind # "objects" => v.groups = {}
                             /\ kind = "parts" => v.lo = 1 /\ v.hi = NumNames}
  /\ start \in Starts
  /\ purge \in {p \in BOOLEAN : p => kind = "objects" /\ view.groups = {}}
  /\ token = 0 /\ limit = 0
  /\ phase = "idle"
  /\ page = PageFrom(0) /\ truncated = FALSE
  /\ listed = <<>> /\ batch = <<>> /\ errors = {}
  /\ stayed = present /\ put = {} /\ blind = {}
-----------------------------------------------------------------------------
(***************************************************************************)
(* Queries and pages.                                                      *)
(***************************************************************************)

Last(s) == s[Len(s)]

\* The first k of a set of names.
FirstOf(S, k) == {n \in S : Cardinality({m \in S : m < n}) < k}

\* ListByBucketWithPrefixPage and ListByBucketPage: up to k names after a
\* marker, and whether there are more.
Matching(after) == {n \in present : view.lo <= n /\ n <= view.hi /\ n > after}
Query(after, k) == [names |-> FirstOf(Matching(after), k),
                    more |-> Cardinality(Matching(after)) > k]

\* Where the page starts: the token if there is one.
After == IF token # 0 THEN token ELSE start

BatchLimit == IF limit + 1 > PageCap + 1 THEN PageCap + 1 ELSE limit + 1

Groups(n) == {g \in view.groups : g.from <= n /\ n <= g.to}
OnPage(item) == \E i \in DOMAIN page.items : page.items[i] = item

\* Mutant: a group is left out only if this page has it.
NewOnPage(names) ==
  {Entry(n) : n \in {m \in names : Groups(m) = {}}}
    \cup {Prefix(g) : g \in {h \in UNION {Groups(m) : m \in names} :
                               ~OnPage(Prefix(h))}}

\* What the names of a query add to the page: themselves, or their groups
\* once. A group that an earlier page has lies before this page.
New(names) ==
  {Entry(n) : n \in {m \in names : Groups(m) = {}}}
    \cup {Prefix(g) : g \in {h \in UNION {Groups(m) : m \in names} :
                               h.from > After /\ ~OnPage(Prefix(h))}}

\* The first k of a set of items in order.
Items(S, k) ==
  [j \in 1..(IF Cardinality(S) < k THEN Cardinality(S) ELSE k) |->
     CHOOSE i \in S : Cardinality({h \in S : h.at < i.at}) = j - 1]

\* Mutant: only an item that is new moves the cursor.
BeyondItems(names) ==
  LET ends == {page.cursor} \cup {i.at : i \in New(names)}
  IN  CHOOSE n \in ends : \A m \in ends : m <= n

\* cursorAfter behind the names of a query: past the groups they are in.
Beyond(names) ==
  LET ends == names \cup {g.mark : g \in UNION {Groups(n) : n \in names}}
  IN  CHOOSE n \in ends : \A m \in ends : m <= n

\* Mutant: the token is the item that the page had no room for.
TokenLeft(new, items) == (Last(Items(new, limit - Len(page.items) + 1))).at

\* lastToken, the last item of the page; a page of max-keys 0 sends the
\* client past the item it found.
Token(new, items) == IF items = <<>> THEN Items(new, 1)[1].at
                                     ELSE Last(items).at

(***************************************************************************)
(* The client gets a page. A purging client sends its keys to              *)
(* DeleteObjects, and by mistake perhaps an empty one. A page fits into a  *)
(* request (ListingAssumption); a request with more keys, or one that does *)
(* not parse, is refused before anything is deleted.                       *)
(***************************************************************************)
Batches(items) ==
  LET keys == [i \in DOMAIN items |-> items[i].at]
  IN  {b \in {keys, Append(keys, 0)} : Len(b) <= MaxDelete}

Answer(items, more, next) ==
  /\ listed' = listed \o items
  /\ token' = IF more THEN next ELSE token
  /\ truncated' = more
  /\ page' = PageFrom(0)
  /\ IF purge /\ items # <<>>
     THEN batch' \in Batches(items) /\ phase' = "deleting"
     ELSE UNCHANGED batch /\ phase' = IF more THEN "idle" ELSE "done"

\* Mutant: the size the client asks for is taken as it is.
Uncapped(n) == n

\* parseListMaxKeys, parseMultipartMaxUploads, parseMultipartMaxParts.
Capped(n) == IF n > PageCap THEN PageCap ELSE n

\* ListObjects, ListObjectsV2: the first query is yet to come.
AskObjects(size) ==
  /\ phase = "idle" /\ kind = "objects"
  /\ purge => size > 0
  /\ limit' = size
  /\ page' = PageFrom(After)
  /\ phase' = "paging"
  /\ UNCHANGED <<present, changes, request, token, truncated, listed, batch,
                 errors, stayed, put, blind>>

\* A query and the loop over its names. A page that has no room for an item
\* is answered as truncated, and the names behind it are not looked at.
\* Otherwise the next query goes on behind the names, if there are more.
BuildPage ==
  /\ phase = "paging"
  /\ LET found == Query(page.cursor, BatchLimit)
         new == New(found.names)
         room == limit - Len(page.items)
         items == page.items \o Items(new, room)
     IN  CASE Cardinality(new) > room ->
                /\ Answer(items, TRUE, Token(new, items))
                /\ blind' = IF limit # 0 THEN blind
                            ELSE blind \cup {Token(new, items)}
           [] Cardinality(new) <= room /\ found.more ->
                /\ page' = [cursor |-> Beyond(found.names), items |-> items]
                /\ UNCHANGED <<token, truncated, listed, phase, batch, blind>>
           [] OTHER -> Answer(items, FALSE, 0) /\ UNCHANGED blind
  /\ UNCHANGED <<present, changes, request, limit, errors, stayed, put>>

\* ListMultipartUploads: one query; the next markers are the last entry. A
\* page of max-uploads 0 has no markers, the client keeps the ones it has.
\* ListParts: the same of the parts of one record.
AskMultipart(size) ==
  /\ phase = "idle" /\ kind \in {"uploads", "parts"}
  /\ limit' = size
  /\ LET found == Query(After, IF size = 0 THEN 1 ELSE size)
         items == IF size = 0 THEN <<>>
                  ELSE Items({Entry(n) : n \in found.names}, size)
         more == IF size = 0 THEN found.names # {} ELSE found.more
     IN  Answer(items, more, IF items = <<>> THEN token ELSE Last(items).at)
  /\ UNCHANGED <<present, changes, request, errors, stayed, put, blind>>

Ask(n) == AskObjects(Capped(n)) \/ AskMultipart(Capped(n))

\* The upload whose parts are listed was completed or aborted: NoSuchUpload.
UploadClosed ==
  /\ phase = "idle" /\ kind = "parts"
  /\ phase' = "refused"
  /\ UNCHANGED <<present, changes, request, paging, batch, errors, stayed,
                 put>>

(***************************************************************************)
(* DeleteObjects.                                                          *)
(***************************************************************************)

AfterKey == IF Len(batch) > 1 THEN "deleting"
            ELSE IF truncated THEN "idle" ELSE "done"

\* Mutant: the first error ends the request.
DeleteUntilError ==
  /\ phase = "deleting"
  /\ \/ /\ Head(batch) # 0
        /\ present' = present \ {Head(batch)}
        /\ batch' = Tail(batch) /\ phase' = AfterKey
        /\ UNCHANGED errors
     \/ /\ errors' = errors \cup {Head(batch)}
        /\ batch' = <<>>
        /\ phase' = IF truncated THEN "idle" ELSE "done"
        /\ UNCHANGED present
  /\ stayed' = stayed \cap present'
  /\ UNCHANGED <<changes, request, paging, put>>

\* One key: an empty one and one that cannot be deleted are answered with an
\* Error, a name that does not exist counts as deleted. An error of MongoDB
\* may hide that the document was deleted.
DeleteKey ==
  /\ phase = "deleting"
  /\ \/ /\ Head(batch) # 0
        /\ present' = present \ {Head(batch)}
        /\ UNCHANGED errors
     \/ /\ present' \in {present, present \ {Head(batch)}}
        /\ errors' = errors \cup {Head(batch)}
  /\ batch' = Tail(batch)
  /\ phase' = AfterKey
  /\ stayed' = stayed \cap present'
  /\ UNCHANGED <<changes, request, paging, put>>

(***************************************************************************)
(* Others meanwhile.                                                       *)
(***************************************************************************)

PutName ==
  /\ changes < MaxChanges
  /\ \E n \in Names \ present : /\ present' = present \cup {n}
                                /\ put' = put \cup {n}
  /\ changes' = changes + 1
  /\ UNCHANGED <<request, phase, paging, batch, errors, stayed>>

\* Parts are only removed with their upload.
RemoveName ==
  /\ changes < MaxChanges
  /\ kind # "parts"
  /\ \E n \in present : /\ present' = present \ {n}
                        /\ stayed' = stayed \ {n}
  /\ changes' = changes + 1
  /\ UNCHANGED <<request, phase, paging, batch, errors, put>>

Done ==
  /\ phase \in {"done", "refused"}
  /\ UNCHANGED vars

Next ==
  \/ \E n \in Asked : Ask(n)
  \/ BuildPage \/ DeleteKey \/ UploadClosed
  \/ PutName \/ RemoveName \/ Done

\* A request that arrived is served, and the client goes on to ask for
\* pages of at least one item.
Fairness == /\ WF_vars(BuildPage \/ DeleteKey)
            /\ WF_vars(\E n \in Asked \ {0} : Ask(n))

Spec == Init /\ [][Next]_vars /\ Fairness
-----------------------------------------------------------------------------
(***************************************************************************)
(* Properties.                                                             *)
(***************************************************************************)

\* The item that lists name n.
ItemOf(n) == IF Groups(n) = {} THEN Entry(n)
             ELSE Prefix(CHOOSE g \in Groups(n) : TRUE)

(***************************************************************************)
(* Over all pages a client gets every item at most once and in order: no   *)
(* key and no common prefix is repeated on a later page, whatever names    *)
(* come and go between two pages and within one.                           *)
(***************************************************************************)
EachListedOnce ==
  \A i, j \in DOMAIN listed : i < j => listed[i].at < listed[j].at

(***************************************************************************)
(* A listing that came to its end has listed every name that existed all   *)
(* the time, itself or by its common prefix: no name falls between two     *)
(* pages or two queries. (A common prefix that sorts up to the start is    *)
(* left out as a whole, and an object that a page of max-keys 0 found is   *)
(* where that page sends the client on, so the client misses it.)          *)
(***************************************************************************)
NothingMissed ==
  phase = "done" =>
    \A n \in stayed :
      LET item == ItemOf(n)
      IN  view.lo <= n /\ n <= view.hi /\ item.at > start
          /\ item.at \notin blind
            => \E i \in DOMAIN listed : listed[i] = item

(***************************************************************************)
(* A client that deletes every page it lists leaves, in the end, only      *)
(* names that were put meanwhile and names DeleteObjects reported: what it *)
(* deletes does not make it miss what it has yet to list.                  *)
(***************************************************************************)
PurgeLeavesNothing ==
  phase = "done" /\ purge =>
    \A n \in present : view.lo <= n /\ n <= view.hi /\ n > start
                         => n \in put \cup errors

(***************************************************************************)
(* A client that asks for more than nothing comes to the end of the        *)
(* listing: every page gets it further, however the names change, and no   *)
(* page is built forever.                                                  *)
(***************************************************************************)
ListingEnds == <>(phase \in {"done", "refused"})
=============================================================================
