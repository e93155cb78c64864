---------------------------- MODULE SignatureV4 ----------------------------
(***************************************************************************)
(* How a signed S3 request is validated: the time window, the form of what *)
(* was signed, and the canonical request over which the signature is       *)
(* computed again. A signature is the record of what went into the HMAC,   *)
(* so that two are equal exactly when all of that is.                      *)
(*                                                                         *)
(* A query is read twice. The validator decodes each pair by itself, and   *)
(* takes one that it cannot decode as it is written (queryPartUnescape).   *)
(* The handlers read c.Query, behind which url.ParseQuery drops every pair *)
(* with a bare ";" or a broken escape, and of the values of a name the     *)
(* first is theirs. So a pair says a text, in one of three spellings:      *)
(*   minimal  with the escapes it needs                                    *)
(*   escaped  with more of them, + for %20, small hex digits               *)
(*   raw      with a ";" or a "%" that is not escaped: the same text to    *)
(*            the validator, and nothing to the handlers                   *)
(*                                                                         *)
(* A message, as it is sent or as it arrives, is a record:                 *)
(*   mode    the Authorization header or a presigned URL                   *)
(*   date    the time it was signed, day the date of its credential scope, *)
(*           ttl X-Amz-Expires of a presigned URL                          *)
(*   method, target: the path net/http decoded before either reads it      *)
(*   params  the pairs of the query: name, value and spelling              *)
(*   host    with no port, the scheme's own port or another one            *)
(*   range   a header that may be signed                                   *)
(*   signs   SignedHeaders, by number in alphabetical order                *)
(*   sha     X-Amz-Content-Sha256, body whether there is one               *)
(***************************************************************************)
EXTENDS Integers, Sequences, FiniteSets

CONSTANTS
  Text,    \* what methods, paths, names and values are written in
  Skew,    \* how far the clocks of client and server may be apart
  MaxTTL,  \* the longest life of a presigned URL
  Day,     \* the length of a day
  Second,  \* how many units of a time.Duration make a second, and
  Limit    \* the first number that is too large for a signed word

ASSUME SignatureAssumption ==
  /\ Skew \in Nat /\ MaxTTL \in Nat /\ Day \in Nat \ {0}
  /\ Second \in Nat \ {0} /\ Limit \in Nat \ {0}
  /\ MaxTTL * Second < Limit

\* The header names that tell SignedHeaders apart, in alphabetical order.
Authorization == 0
Host == 1
RangeHeader == 2

Members(s) == {s[i] : i \in DOMAIN s}

Spelling == {"minimal", "escaped", "raw"}

\* A presigned URL carries its own signature among its parameters.
SignatureParam == <<"X-Amz-Signature", "sig", "minimal">>

IsMessage(m) ==
  m \in [mode : {"header", "presign"}, date : Int, day : Int, ttl : Nat,
         method : Text, target : Text, params : Seq(Text \X Text \X Spelling),
         host : {"no port", "default port", "other port"}, range : Text,
         signs : Seq(Authorization .. RangeHeader),
         sha : Text, body : BOOLEAN]

\* amzDate.Format("20060102")
DateOf(date) == date \div Day
-----------------------------------------------------------------------------
\* normalizeAndValidateSignedHeaders, and host must be there.
SignedHeadersOk(signs) ==
  /\ \A i, j \in DOMAIN signs : i < j => signs[i] < signs[j]
  /\ Authorization \notin Members(signs)
  /\ Host \in Members(signs)

CanonicalHost(m) == IF m.host = "default port" THEN "no port" ELSE m.host

\* Blanks are normalised; a signed header that is missing is an error.
CanonicalHeader(m, h) == IF h = Host THEN CanonicalHost(m) ELSE m.range

SignedHeadersPresent(m) ==
  RangeHeader \in Members(m.signs) => m.range # "none"

\* The pairs that are signed: all but the signature of a presigned URL.
Signed(m) ==
  {i \in DOMAIN m.params :
     ~(m.mode = "presign" /\ m.params[i][1] = SignatureParam[1])}

Says(m, i) == <<m.params[i][1], m.params[i][2]>>

\* Mutant: the pairs in the order in which they come.
CanonicalQueryUnsorted(m) == [i \in Signed(m) |-> Says(m, i)]

\* Decoded, encoded one way and sorted: what is left of the pairs is what
\* they say to the validator, and how often.
CanonicalQuery(m) ==
  [x \in {Says(m, i) : i \in Signed(m)} |->
     Cardinality({i \in Signed(m) : Says(m, i) = x})]

\* A body without a declared hash is refused under header authorization; the
\* hash is never compared with the body.
PayloadHash(m) ==
  IF m.sha # "none" THEN m.sha
  ELSE IF m.mode = "presign" THEN "UNSIGNED-PAYLOAD"
  ELSE IF m.body THEN "missing" ELSE "empty"

\* buildCanonicalRequest; X-Amz-Expires is a parameter of presigned URLs only.
CanonicalRequest(m) ==
  [method  |-> m.method,
   uri     |-> m.target,
   query   |-> CanonicalQuery(m),
   expires |-> IF m.mode = "presign" THEN m.ttl ELSE -1,
   headers |-> [h \in Members(m.signs) |-> CanonicalHeader(m, h)],
   signs   |-> m.signs,
   hash    |-> PayloadHash(m)]

Signature(secret, m) ==
  [secret  |-> secret,
   scope   |-> m.day,
   time    |-> m.date,
   request |-> CanonicalRequest(m)]

\* time.Duration(expires) * time.Second, in a signed word.
Lifetime(m) == ((m.ttl * Second + Limit) % (2 * Limit)) - Limit

\* A presigned URL may be used from Skew before its date until it expires.
Timely(m, t) ==
  IF m.mode = "header"
  THEN t - Skew <= m.date /\ m.date <= t + Skew
  ELSE /\ 0 < m.ttl /\ m.ttl < Limit
       /\ Lifetime(m) <= MaxTTL * Second
       /\ m.date - Skew <= t /\ t * Second <= m.date * Second + Lifetime(m)

WellFormed(m) ==
  /\ m.day = DateOf(m.date)
  /\ SignedHeadersOk(m.signs)
  /\ SignedHeadersPresent(m)
  /\ PayloadHash(m) # "missing"

Validates(m, signature, secret, t) ==
  WellFormed(m) /\ Timely(m, t) /\ signature = Signature(secret, m)
-----------------------------------------------------------------------------
(***************************************************************************)
(* What a signature is for, without a canonical form: the request that     *)
(* arrives asks for what the sender meant, whatever was rewritten on its   *)
(* way, and while the sender meant it to be good for.                      *)
(***************************************************************************)
\* Of the pairs of m with a number in S, the first of each name.
FirstOfEach(m, S) ==
  {Says(m, i) : i \in {i \in S : \A j \in S :
                         m.params[j][1] = m.params[i][1] => i <= j}}

Meant(m) == FirstOfEach(m, Signed(m))

\* url.ParseQuery and c.Query.
Asks(m) == FirstOfEach(m, {i \in Signed(m) : m.params[i][3] # "raw"})

\* The two readings of a query can differ in these only.
Legible(m) == \A i \in Signed(m) : m.params[i][3] # "raw"

OnceEach(m) ==
  \A i, j \in Signed(m) : m.params[i][1] = m.params[j][1] => i = j

\* The number of seconds is not too large for a time.Duration.
Fits(m) == m.mode = "presign" => m.ttl * Second < Limit

InTime(m, t) ==
  IF m.mode = "header"
  THEN t - Skew <= m.date /\ m.date <= t + Skew
  ELSE /\ 0 < m.ttl /\ m.ttl <= MaxTTL
       /\ m.date - Skew <= t /\ t <= m.date + m.ttl

SameServer(m, n) ==
  m.host = n.host \/ {m.host, n.host} = {"no port", "default port"}

SameButForQuery(sent, got) ==
  /\ got.mode = sent.mode /\ got.date = sent.date /\ got.day = sent.day
  /\ sent.mode = "presign" => got.ttl = sent.ttl
  /\ got.method = sent.method /\ got.target = sent.target
  /\ got.signs = sent.signs
  /\ SameServer(sent, got)
  /\ RangeHeader \in Members(sent.signs) => got.range = sent.range
  /\ PayloadHash(got) = PayloadHash(sent)

SameRequest(sent, got) == SameButForQuery(sent, got) /\ Asks(got) = Meant(sent)
=============================================================================
