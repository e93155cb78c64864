---------------------------- MODULE RequestGate ----------------------------
(***************************************************************************)
(* What stands before every handler: the limiter by address, the           *)
(* authentication, the limiter by identity, and what the handlers of       *)
(* accounts and bucket discovery do behind it. The routes are of two       *)
(* kinds, which share nothing but the limiters: the S3 routes, signed with *)
(* the access key of a bucket, and the REST routes, with the passwords and *)
(* tokens of accounts. The requests of a behaviour are all of one kind.    *)
(*                                                                         *)
(* A slot is a request under way, and idle before and after. An access key *)
(* and its secret are known by the name of their bucket, an account by its *)
(* username; every request comes from the one address Ip.                  *)
(***************************************************************************)
EXTENDS RateLimiter, SignatureV4

CONSTANTS
  Slots, Ip, Buckets,
  People,     \* those who have a GitHub account and may register
  Login,      \* their names at GitHub, and
  Suffixed,   \* the same with the GitHub ID
  TokenLife,  \* how long a token is valid
  None,
  MaxTime,    \* bound of the clock, and
  MaxRequests \* of the requests of a behaviour

Accounts == {Login[p] : p \in People} \cup {Suffixed[p] : p \in People}

Users == [owner : People, how : {"password", "github"}]

Tokens == [account : Accounts, exp : Nat]

\* The texts of the messages considered.
Written == {"GET", "HEAD", "POST", "b", "c", "prefix", "b;", "delimiter", "/",
            "none", "0-9", "0-8", "declared", "other", "X-Amz-Signature", "sig"}

ASSUME GateAssumption ==
  /\ Written \subseteq Text
  /\ Key = {Ip} \cup Buckets \cup Accounts
  /\ Limiters = {{Ip}, Buckets \cup Accounts}
  /\ {Ip, None} \cap (Buckets \cup Accounts) = {}
  /\ Buckets \cap Accounts = {}
  /\ None \notin Users \cup Tokens
  /\ TokenLife \in Nat /\ MaxTime \in Nat /\ MaxRequests \in Nat

VARIABLES
  site,     \* which routes: "s3" or "rest"
  live,     \* the buckets that exist
  account,  \* the users collection: username -> who made it and how, or None
  token,    \* the last token each person was given, or None
  slot,     \* the requests under way
  begun     \* how many requests came

gateVars == <<site, live, account, token, slot, begun>>
vars == <<limiterVars, gateVars>>

\* `by` is who sends the request: the owner of a secret, or a person; `key`
\* the identity it claims; `shown` the bucket or account it was answered
\* with; `due` is history: whether it ought to be let in, "either" when its
\* query or its life can be read in two ways or its account could not be
\* looked up. What else a request says is chosen by the action that reads it.
Idle == [phase |-> "idle", by |-> None, key |-> None, shown |-> None,
         due |-> "no"]

\* What a request that is sent right, or not, and is plain, or not, is due.
Due(right, plain) ==
  IF ~plain THEN "either" ELSE IF right THEN "yes" ELSE "no"

\* The phases of a request that was authenticated; a dropped one is over its
\* limit, or asked for what is not there, or could not be served.
Identified == {"limit", "handle", "served", "dropped"}

Phases == {"idle", "secret", "validate", "bearer", "basic", "create", "find",
           "createLogin", "createSuffixed", "issue", "done", "refused"}
          \cup Identified

Requests == [phase : Phases, by : Buckets \cup People \cup {None},
             key : Buckets \cup Accounts \cup {None},
             shown : Buckets \cup Accounts \cup {None},
             due : {"yes", "no", "either"}]

TypeOK ==
  /\ LimiterTypeOK /\ now <= MaxTime
  /\ site \in {"s3", "rest"}
  /\ live \subseteq Buckets
  /\ account \in [Accounts -> Users \cup {None}]
  /\ token \in [People -> Tokens \cup {None}]
  /\ slot \in [Slots -> Requests]
  /\ begun \in 0 .. MaxRequests

Init ==
  /\ LimiterInit
  /\ site \in {"s3", "rest"}
  /\ live = Buckets
  /\ account = [a \in Accounts |-> None]
  /\ token = [p \in People |-> None]
  /\ slot = [r \in Slots |-> Idle]
  /\ begun = 0

Go(r, phase) == slot' = [slot EXCEPT ![r].phase = phase]

\* Nothing is left to do but to answer with an error.
Leave(r, phase) ==
  slot' = [slot EXCEPT ![r] = [Idle EXCEPT !.phase = phase,
                                           !.due = slot[r].due]]

Show(r, phase, what) ==
  slot' = [slot EXCEPT ![r].phase = phase, ![r].shown = what]

\* The request is identified as key's, or it is not let in.
Admit(r, key, due) ==
  slot' = [slot EXCEPT ![r].phase = "limit", ![r].key = key, ![r].due = due]

Refuse(r, due) ==
  slot' = [slot EXCEPT ![r] = [Idle EXCEPT !.phase = "refused", !.due = due]]
-----------------------------------------------------------------------------
(***************************************************************************)
(* PreAuthIPMiddleware and, before public routes, IPMiddleware: the        *)
(* request is turned away when its address has used up its limit.          *)
(***************************************************************************)
Arrive(r, request, phase) ==
  /\ slot[r] = Idle
  /\ begun < MaxRequests /\ begun' = begun + 1
  /\ \/ /\ Grant(Ip)
        /\ slot' = [slot EXCEPT ![r] = [request EXCEPT !.phase = phase]]
     \/ Deny(Ip) /\ UNCHANGED slot
  /\ UNCHANGED <<site, live, account, token>>

ArriveS3(r) ==
  /\ site = "s3"
  /\ \E by, key \in Buckets :
       Arrive(r, [Idle EXCEPT !.by = by, !.key = key], "secret")

\* AccessKeyFromRequest finds none, or cannot read the credential.
ArriveWithoutKey(r) == site = "s3" /\ Arrive(r, Idle, "refused")

ArrivePublic(r) ==
  /\ site = "rest"
  /\ \E by \in People, phase \in {"create", "find"} :
       Arrive(r, [Idle EXCEPT !.by = by], phase)

\* With the token the requester was given last, with the password of an
\* account, or with nothing.
ArriveProtected(r) ==
  /\ site = "rest"
  /\ \/ \E by \in People :
          LET request == [Idle EXCEPT !.by = by] IN
          \/ token[by] # None /\ Arrive(r, request, "bearer")
          \/ Arrive(r, request, "basic")
     \/ Arrive(r, Idle, "refused")

\* The rest of PreAuthIPMiddleware: an identified request costs its address
\* nothing, whatever became of it.
CancelWhenIdentified(r) ==
  IF slot[r].phase \in Identified THEN Cancel(Ip) ELSE UNCHANGED limiterVars

Finish(r) ==
  /\ slot[r].phase \in {"served", "dropped", "done", "refused"}
  /\ slot' = [slot EXCEPT ![r] = Idle]
  /\ CancelWhenIdentified(r)
  /\ UNCHANGED <<begun, site, live, account, token>>

\* IdentityMiddleware, behind a successful authentication only.
LimitIdentity(r) ==
  /\ slot[r].phase = "limit"
  /\ \/ Grant(slot[r].key) /\ Go(r, "handle")
     \/ Deny(slot[r].key) /\ Leave(r, "dropped")
  /\ UNCHANGED <<begun, site, live, account, token>>

\* A call to MongoDB fails: 500.
CallFails(r) ==
  /\ \/ slot[r].phase \in {"secret", "basic", "create", "find", "createLogin",
                           "createSuffixed"} /\ Leave(r, "done")
     \/ slot[r].phase = "handle" /\ Leave(r, "dropped")
  /\ UNCHANGED <<limiterVars, begun, site, live, account, token>>
-----------------------------------------------------------------------------
(***************************************************************************)
(* The S3 routes. What a request says beside its key and its target is     *)
(* chosen where it is first read, among what clients send and what becomes *)
(* of it on the way: at most one thing is rewritten.                       *)
(***************************************************************************)
Prefix == <<"prefix", "b;", "minimal">>
Shorter == <<"prefix", "b", "minimal">>
Delimiter == <<"delimiter", "/", "minimal">>

Respelled(p, spelling) == <<p[1], p[2], spelling>>

Message(mode, date) ==
  [mode |-> mode, date |-> date, day |-> DateOf(date), ttl |-> 1,
   method |-> "GET", target |-> "b", params |-> <<Prefix, Delimiter>>,
   host |-> "no port", range |-> "none", signs |-> <<Host>>,
   sha |-> "none", body |-> FALSE]

\* A number of seconds that is short again when it has gone once around.
Overflowing == (2 * Limit) \div Second + 1

\* What clients sign, mistaken ones among them.
Variants(m) ==
  {m, [m EXCEPT !.day = @ + 1], [m EXCEPT !.params = <<>>],
   [m EXCEPT !.params = <<Shorter, Prefix>>],
   [m EXCEPT !.method = "POST", !.body = TRUE],
   [m EXCEPT !.method = "POST", !.body = TRUE, !.sha = "declared"],
   [m EXCEPT !.range = "0-9"],
   [m EXCEPT !.range = "0-9", !.signs = <<Host, RangeHeader>>]}
  \cup {[m EXCEPT !.ttl = ttl] : ttl \in {0, MaxTTL, MaxTTL + 1, Overflowing}}
  \cup {[m EXCEPT !.signs = signs] :
          signs \in {<<RangeHeader>>, <<Host, Host>>, <<Host, RangeHeader>>,
                     <<RangeHeader, Host>>, <<Authorization, Host>>}}

\* Dates before and after all that is in time.
DatesAround(t) == ((t - (MaxTTL + Skew + 1)) .. (t + Skew + 1)) \cap Nat

Sent(t) == UNION {Variants(Message(mode, date)) :
                   mode \in {"header", "presign"}, date \in DatesAround(t)}

\* What may become of a message on its way.
Rewritten(m) ==
  {m, [m EXCEPT !.host = "default port"], [m EXCEPT !.host = "other port"],
   [m EXCEPT !.params = <<Delimiter, Prefix>>],
   [m EXCEPT !.params = <<Prefix>>],
   [m EXCEPT !.params = <<Respelled(Prefix, "escaped"), Delimiter>>],
   [m EXCEPT !.params = <<Respelled(Prefix, "raw"), Delimiter>>],
   [m EXCEPT !.params = <<Prefix, Shorter>>],
   [m EXCEPT !.method = "HEAD"], [m EXCEPT !.target = "c"],
   [m EXCEPT !.range = "0-8"], [m EXCEPT !.range = "none"],
   [m EXCEPT !.ttl = MaxTTL], [m EXCEPT !.date = @ + 1],
   [m EXCEPT !.day = @ + 1], [m EXCEPT !.sha = "other"],
   [m EXCEPT !.body = TRUE]}

\* A presigned URL brings its signature as one more parameter.
Delivered(m) ==
  IF m.mode = "presign"
  THEN [m EXCEPT !.params = Append(@, SignatureParam)] ELSE m

\* Whether the secret, the message sent and the one that arrived, at time t,
\* make a request that ought to be let in.
Genuine(sent, got, right, t) ==
  right /\ WellFormed(sent) /\ InTime(sent, t) /\ SameRequest(sent, got)

\* What was sent and what arrived can be read in one way only.
Plain(sent, got) == OnceEach(sent) /\ OnceEach(got) /\ Legible(got) /\ Fits(got)

\* All verdicts at each time: what ought to be, and what Validate says.
Verdicts ==
  [t \in 0 .. MaxTime |-> [right \in BOOLEAN |->
     UNION {{[due |-> Due(Genuine(m, Delivered(n), right, t),
                          Plain(m, Delivered(n))),
              valid |-> Validates(Delivered(n), Signature(right, m), TRUE, t)] :
               n \in Rewritten(m)} : m \in Sent(t)}]]

\* AWS4Auth: the secret of the access key, which goes with its bucket.
ReadSecret(r) ==
  /\ slot[r].phase = "secret"
  /\ IF slot[r].key \in live THEN Go(r, "validate") ELSE Leave(r, "refused")
  /\ UNCHANGED <<limiterVars, begun, site, live, account, token>>

Validate(r) ==
  /\ slot[r].phase = "validate"
  /\ \E v \in Verdicts[now][slot[r].by = slot[r].key] :
       IF v.valid THEN Admit(r, slot[r].key, v.due) ELSE Refuse(r, v.due)
  /\ UNCHANGED <<limiterVars, begun, site, live, account, token>>

\* Mutant: the bucket is looked up by its name alone.
LookupBucketByName(r) ==
  /\ site = "s3" /\ slot[r].phase = "handle"
  /\ \E target \in Buckets :
       IF target \in live THEN Show(r, "served", target)
                          ELSE Leave(r, "dropped")
  /\ UNCHANGED <<limiterVars, begun, site, live, account, token>>

\* lookupBucket, before HeadBucket and all that names a bucket: it must be the
\* one of the access key.
LookupBucket(r) ==
  /\ site = "s3" /\ slot[r].phase = "handle"
  /\ \E target \in Buckets :
       IF target \in live /\ target = slot[r].key
       THEN Show(r, "served", target) ELSE Leave(r, "dropped")
  /\ UNCHANGED <<limiterVars, begun, site, live, account, token>>

\* ListBucketsS3 and lookupBucketByAccessKey.
ListBuckets(r) ==
  /\ site = "s3" /\ slot[r].phase = "handle"
  /\ IF slot[r].key \in live THEN Show(r, "served", slot[r].key)
                             ELSE Leave(r, "dropped")
  /\ UNCHANGED <<limiterVars, begun, site, live, account, token>>

\* Somebody deletes a bucket, and its access key with it.
DeleteBucket(b) ==
  /\ site = "s3" /\ live' = live \ {b}
  /\ UNCHANGED <<limiterVars, begun, site, account, token, slot>>
-----------------------------------------------------------------------------
(***************************************************************************)
(* The REST routes. `username` is the only unique index of the users.      *)
(***************************************************************************)
Free(name) == account[name] = None

Insert(name, owner, how) ==
  account' = [account EXCEPT ![name] = [owner |-> owner, how |-> how]]

\* CreateUser: the password in the answer is known to the requester alone.
Register(r) ==
  /\ slot[r].phase = "create"
  /\ \E name \in Accounts :
       IF Free(name) THEN Insert(name, slot[r].by, "password")
                     ELSE UNCHANGED account
  /\ Leave(r, "done")
  /\ UNCHANGED <<limiterVars, begun, site, live, token>>

\* gitHubCallback: GetByGitHubID returns any account that has the ID.
FindByGitHubID(r) ==
  LET mine == {a \in Accounts :
                 account[a] = [owner |-> slot[r].by, how |-> "github"]} IN
  /\ slot[r].phase = "find"
  /\ \/ \E a \in mine : Show(r, "issue", a)
     \/ mine = {} /\ Go(r, "createLogin")
  /\ UNCHANGED <<limiterVars, begun, site, live, account, token>>

\* Mutant: a username that is taken is taken over.
CreateLoginOrTakeOver(r) ==
  LET name == Login[slot[r].by] IN
  /\ slot[r].phase = "createLogin"
  /\ IF Free(name) THEN Insert(name, slot[r].by, "github") ELSE UNCHANGED account
  /\ Show(r, "issue", name)
  /\ UNCHANGED <<limiterVars, begun, site, live, token>>

CreateLogin(r) ==
  LET name == Login[slot[r].by] IN
  /\ slot[r].phase = "createLogin"
  /\ IF Free(name)
     THEN Insert(name, slot[r].by, "github") /\ Show(r, "issue", name)
     ELSE Go(r, "createSuffixed") /\ UNCHANGED account
  /\ UNCHANGED <<limiterVars, begun, site, live, token>>

CreateSuffixed(r) ==
  LET name == Suffixed[slot[r].by] IN
  /\ slot[r].phase = "createSuffixed"
  /\ IF Free(name)
     THEN Insert(name, slot[r].by, "github") /\ Show(r, "issue", name)
     ELSE Leave(r, "done") /\ UNCHANGED account
  /\ UNCHANGED <<limiterVars, begun, site, live, token>>

\* An account is stored and the answer of MongoDB is lost.
ReplyLost(r) ==
  /\ \/ /\ slot[r].phase = "create"
        /\ \E name \in Accounts :
             Free(name) /\ Insert(name, slot[r].by, "password")
     \/ /\ slot[r].phase = "createLogin" /\ Free(Login[slot[r].by])
        /\ Insert(Login[slot[r].by], slot[r].by, "github")
     \/ /\ slot[r].phase = "createSuffixed" /\ Free(Suffixed[slot[r].by])
        /\ Insert(Suffixed[slot[r].by], slot[r].by, "github")
  /\ Leave(r, "done")
  /\ UNCHANGED <<limiterVars, begun, site, live, token>>

IssueJWT(r, a) ==
  token' = [token EXCEPT ![slot[r].by] =
              [account |-> a, exp |-> now + TokenLife]]

FinishCallback(r) ==
  /\ slot[r].phase = "issue"
  /\ IssueJWT(r, slot[r].shown) /\ Leave(r, "done")
  /\ UNCHANGED <<limiterVars, begun, site, live, account>>

\* Auth with a token: valid until it expires, and its account must exist. If
\* the lookup of the account fails, for whatever reason, it is refused too.
AuthBearer(r) ==
  LET t == token[slot[r].by] IN
  /\ slot[r].phase = "bearer"
  /\ IF now < t.exp
     THEN \/ /\ ~Free(t.account)
             /\ Admit(r, t.account,
                      Due(account[t.account].owner = slot[r].by, TRUE))
          \/ Free(t.account) /\ Refuse(r, "yes")
          \/ Refuse(r, "either")
     ELSE Refuse(r, "no")
  /\ UNCHANGED <<limiterVars, begun, site, live, account, token>>

\* Auth with a password, which only the one who registered the account knows;
\* accounts made through GitHub have none.
AuthBasic(r) ==
  /\ slot[r].phase = "basic"
  /\ \E name \in Accounts :
       IF account[name] = [owner |-> slot[r].by, how |-> "password"]
       THEN Admit(r, name, "yes") ELSE Refuse(r, "no")
  /\ UNCHANGED <<limiterVars, begun, site, live, account, token>>

GetCurrentUser(r) ==
  /\ site = "rest" /\ slot[r].phase = "handle"
  /\ Show(r, "served", slot[r].key)
  /\ UNCHANGED <<limiterVars, begun, site, live, account, token>>

TokenLogin(r) ==
  /\ site = "rest" /\ slot[r].phase = "handle"
  /\ IssueJWT(r, slot[r].key) /\ Show(r, "served", slot[r].key)
  /\ UNCHANGED <<limiterVars, begun, site, live, account>>
-----------------------------------------------------------------------------
\* The ticker of NewLimiters cleans one limiter after the other.
CleanupLimiters == (\E keys \in Limiters : Cleanup(keys)) /\ UNCHANGED gateVars

TimePasses == now < MaxTime /\ Tick /\ UNCHANGED gateVars

\* Bound: the observer of GrantsBounded starts over once, and not in the end.
BeginToCount ==
  mark = 0 /\ 0 < now /\ now < MaxTime /\ Mark /\ UNCHANGED gateVars

Serve(r) ==
  \/ ArriveS3(r) \/ ArriveWithoutKey(r) \/ ArrivePublic(r)
  \/ ArriveProtected(r) \/ Finish(r) \/ LimitIdentity(r) \/ CallFails(r)
  \/ ReadSecret(r) \/ Validate(r) \/ LookupBucket(r) \/ ListBuckets(r)
  \/ Register(r) \/ FindByGitHubID(r) \/ CreateLogin(r) \/ CreateSuffixed(r)
  \/ ReplyLost(r) \/ FinishCallback(r) \/ AuthBearer(r) \/ AuthBasic(r)
  \/ GetCurrentUser(r) \/ TokenLogin(r)

Next ==
  \/ \E r \in Slots : Serve(r)
  \/ \E b \in Buckets : DeleteBucket(b)
  \/ CleanupLimiters \/ TimePasses \/ BeginToCount

Spec == Init /\ [][Next]_vars
-----------------------------------------------------------------------------
OwnerOf(x) == IF x \in Buckets THEN x ELSE account[x].owner

(***************************************************************************)
(* A request is let in exactly when it ought to be: signed with the secret *)
(* of its key, within its time, and unchanged in all that was signed,      *)
(* however it is spelled; or sent by the one who made the account, with    *)
(* its password or a token that has not expired. But for three cases: a    *)
(* query that the validator and the handlers read in two ways (a raw pair, *)
(* a name twice), a life so long that it overflows, and a token whose      *)
(* account could not be looked up. And whatever accounts and buckets came  *)
(* and went meanwhile, a request is shown its own.                         *)
(***************************************************************************)
VerdictIsRight ==
  \A r \in Slots :
    /\ slot[r].phase \in Identified => slot[r].due # "no"
    /\ slot[r].phase = "refused" => slot[r].due # "yes"
    /\ slot[r].phase = "served" => OwnerOf(slot[r].shown) = slot[r].by
=============================================================================
