----------------------- MODULE DecisionRecordsProofs -----------------------
(***************************************************************************)
(* DecisionRecords for any number of requests, keys and users, whatever    *)
(* texts have bars in them and whatever the columns make of a value: an    *)
(* idempotency key records once, and a decision that verifies, of a        *)
(* decision_id under which nothing with a bar was recorded, is one that    *)
(* was submitted to record_human_decision_v2 and let through by its gate.  *)
(***************************************************************************)
EXTENDS DecisionRecords, SequenceTheorems, TLAPS

Columns == {"id", "case", "opinion_id", "opinion_version", "user", "role", "ai", "human", "type",
            "justified", "amount", "created", "seal"}

Asked   == Requests \cup RequestsV2 \cup {NoKey}
Answers == {"", "SUCCESS", "SUCCESS_IDEMPOTENT", "invalid_request", "403", "409", "422",
            "IntegrityError"}
CallSet == [at: {"idle", "insert", "done"}, by: {"", "v1", "v2"}, req: Asked, answer: Answers]

Types ==
    /\ call \in [Calls -> CallSet]
    /\ rows = [id \in DOMAIN rows |-> rows[id]]
    /\ \A id \in DOMAIN rows : rows[id] = [x \in Columns |-> rows[id][x]] /\ rows[id].id = id
    /\ DOMAIN rows \subseteq Keys \cup Calls

\* A call is over just when it is answered; what is recorded was asked.
InOrder == \A c \in Calls :
    /\ call[c].at = "done" <=> call[c].answer # ""
    /\ Succeeded(c) /\ call[c].by = "v1" => call[c].req \in Requests
    /\ Succeeded(c) /\ call[c].by = "v2" => call[c].req \in RequestsV2

\* Who is about to insert has been let through, and has no answer yet.
LetThrough == \A c \in Calls : call[c].at = "insert" =>
    /\ call[c].by = "v2" /\ call[c].answer = ""
    /\ call[c].req \in RequestsV2 /\ Verdict(call[c].req) = "insert"

\* An answer of success is that of a call whose row is in the table.
InTable == \A c \in Calls : Succeeded(c) => DecisionOf(c).id \in DOMAIN rows

\* Calls of record_human_decision_v2 that had success differ in their keys.
Once == \A c, d \in Calls :
    Succeeded(c) /\ Succeeded(d) /\ call[c].by = "v2" /\ call[d].by = "v2" =>
        c = d \/ call[c].req.key # call[d].req.key \/ call[c].req.key = NoKey

\* A row has the seal of what was recorded under its decision_id: by way of
\* record_human_decision,
OfV1(c, r) ==
    /\ Succeeded(c) /\ call[c].by = "v1"
    /\ DecisionOf(c).id = r.id
    /\ r.seal = SealV1(DecisionOf(c))

\* or of record_human_decision_v2, and then what the seal does not cover too.
OfV2(c, r) ==
    /\ Succeeded(c) /\ call[c].by = "v2" /\ Verdict(call[c].req) = "insert"
    /\ DecisionOf(c).id = r.id
    /\ r.seal = SealV2(DecisionOf(c))
    /\ r.role = call[c].req.role
    /\ r.ai = call[c].req.opinion.decision
    /\ r.justified = call[c].req.narrative

Provenance == \A id \in DOMAIN rows : \E c \in Calls : OfV1(c, rows[id]) \/ OfV2(c, rows[id])

RecordInv == Types /\ InOrder /\ LetThrough /\ InTable /\ Once /\ Provenance

----------------------------------------------------------------------------
\* Payloads

\* A text is in at least one piece, and in one only if it is that piece.
LEMMA PartsFacts ==
    ASSUME NEW S, STRING \subseteq S, NEW x \in S
    PROVE  /\ Parts(x) \in Seq(S) /\ Len(Parts(x)) \in Nat /\ Len(Parts(x)) >= 1
           /\ x \notin DOMAIN Barred => Parts(x) = <<x>> /\ Len(Parts(x)) = 1
           /\ Len(Parts(x)) = 1 => Parts(x) = <<x>>
<1> DEFINE n == Len(Parts(x))
<1>1. CASE x \in DOMAIN Barred
  <2>1. Barred[x] \in Seq(STRING) /\ Len(Barred[x]) > 1
    BY <1>1, RecordAssumptions
  <2>2. Parts(x) = Barred[x]
    BY <1>1 DEF Parts
  <2>3. Parts(x) \in Seq(S)
    BY <2>1, <2>2, SeqMonotonic
  <2>4. n \in Nat
    BY <2>3, LenProperties
  <2>5. n > 1
    BY <2>1, <2>2
  <2> HIDE DEF n
  <2>6. n >= 1 /\ n # 1
    BY <2>4, <2>5
  <2> QED BY <1>1, <2>3, <2>4, <2>6 DEF n
<1>2. CASE x \notin DOMAIN Barred
  <2>1. Parts(x) = <<x>>
    BY <1>2 DEF Parts
  <2>2. <<x>> \in Seq(S) /\ Len(<<x>>) = 1
    OBVIOUS
  <2> QED BY <2>1, <2>2
<1> QED BY <1>1, <1>2

LEMMA BarFacts ==
    ASSUME NEW S, STRING \subseteq S, NEW x \in S, NEW q \in Seq(S)
    PROVE  /\ Bar(x, q) \in Seq(S)
           /\ Len(q) \in Nat
           /\ Len(Bar(x, q)) = Len(Parts(x)) + Len(q)
<1>1. Parts(x) \in Seq(S)
  BY PartsFacts
<1> QED BY <1>1, ConcatProperties, LenProperties DEF Bar

\* One sequence over S is at least as long as another, or longer.
AtLeast(S, p, q) == p \in Seq(S) /\ q \in Seq(S) /\ Len(p) >= Len(q)
Longer(S, p, q)  == p \in Seq(S) /\ q \in Seq(S) /\ Len(p) > Len(q)

\* They stay so with a field before each, if the second has no bar.
LEMMA BarKeeps ==
    ASSUME NEW S, STRING \subseteq S, NEW x \in S, NEW y \in S, y \notin DOMAIN Barred,
           NEW p, NEW q
    PROVE  /\ AtLeast(S, p, q) => AtLeast(S, Bar(x, p), Bar(y, q))
           /\ Longer(S, p, q) => Longer(S, Bar(x, p), Bar(y, q))
<1> SUFFICES ASSUME p \in Seq(S), q \in Seq(S)
             PROVE  /\ AtLeast(S, p, q) => AtLeast(S, Bar(x, p), Bar(y, q))
                    /\ Longer(S, p, q) => Longer(S, Bar(x, p), Bar(y, q))
  BY DEF AtLeast, Longer
<1> DEFINE i == Len(Parts(x))  j == Len(Parts(y))  m == Len(p)  n == Len(q)
           a == Len(Bar(x, p))  b == Len(Bar(y, q))
<1>1. /\ Bar(x, p) \in Seq(S) /\ Bar(y, q) \in Seq(S)
      /\ m \in Nat /\ n \in Nat /\ a = i + m /\ b = j + n
  BY BarFacts
<1>2. i \in Nat /\ i >= 1 /\ j = 1
  BY PartsFacts
<1> HIDE DEF i, j, m, n, a, b
<1>3. (m >= n => a >= b) /\ (m > n => a > b)
  BY <1>1, <1>2
<1> QED BY <1>1, <1>3 DEF AtLeast, Longer, m, n, a, b

\* The first field of two equal payloads is the same, if that of the one has no
\* bar in it and what remains of it is not longer.
LEMMA PeelOff ==
    ASSUME NEW S, STRING \subseteq S, NEW x \in S, NEW y \in S, y \notin DOMAIN Barred,
           NEW p, NEW q, AtLeast(S, p, q), Bar(x, p) = Bar(y, q)
    PROVE  x = y /\ p = q
<1> DEFINE i == Len(Parts(x))  m == Len(p)  n == Len(q)
<1>1. p \in Seq(S) /\ q \in Seq(S) /\ m >= n
  BY DEF AtLeast
<1>2. m \in Nat /\ n \in Nat /\ i + m = Len(Parts(y)) + n
  BY <1>1, BarFacts
<1>3. i \in Nat /\ i >= 1 /\ Len(Parts(y)) = 1 /\ Parts(y) = <<y>>
  BY PartsFacts
<1>4. i = 1 /\ m = n
  <2> DEFINE j == Len(Parts(y))
  <2>1. m >= n /\ m \in Nat /\ n \in Nat /\ i + m = j + n /\ i \in Nat /\ i >= 1 /\ j = 1
    BY <1>1, <1>2, <1>3
  <2> HIDE DEF i, j, m, n
  <2> QED BY <2>1
<1>5. Parts(x) = <<x>>
  BY <1>4, PartsFacts
<1> DEFINE s == <<x>> \o p  t == <<y>> \o q
<1>6. s = t
  BY <1>3, <1>5 DEF Bar
<1>7. /\ \A k \in 1 .. 1 + m : s[k] = IF k <= 1 THEN <<x>>[k] ELSE p[k - 1]
      /\ \A k \in 1 .. 1 + n : t[k] = IF k <= 1 THEN <<y>>[k] ELSE q[k - 1]
  <2>1. <<x>> \in Seq(S) /\ <<y>> \in Seq(S) /\ Len(<<x>>) = 1 /\ Len(<<y>>) = 1
    OBVIOUS
  <2> QED BY <1>1, <2>1, ConcatProperties
<1> HIDE DEF s, t, m, n
<1>8. x = y
  <2> DEFINE u == <<x>>  v == <<y>>
  <2>1. u[1] = x /\ v[1] = y
    OBVIOUS
  <2>2. /\ \A k \in 1 .. 1 + m : s[k] = IF k <= 1 THEN u[k] ELSE p[k - 1]
        /\ \A k \in 1 .. 1 + n : t[k] = IF k <= 1 THEN v[k] ELSE q[k - 1]
    BY <1>7
  <2> HIDE DEF u, v
  <2>3. s[1] = u[1] /\ t[1] = v[1]
    BY <1>2, <2>2
  <2> QED BY <1>6, <2>1, <2>3
<1>9. ASSUME NEW k \in 1 .. m PROVE p[k] = q[k]
  <2>1. s[k + 1] = p[k] /\ t[k + 1] = q[k]
    BY <1>2, <1>4, <1>7
  <2> QED BY <1>6, <2>1
<1>10. p = q
  BY <1>1, <1>4, <1>9, SeqEqual DEF m, n
<1> QED BY <1>8, <1>10

\* The same of all the fields that both payloads have before the last.
LEMMA HeadKeeps ==
    ASSUME NEW S, STRING \subseteq S, NEW r, NEW d,
           \A x \in SealedFields : r[x] \in S /\ d[x] \in S /\ d[x] \notin DOMAIN Barred,
           NEW p, NEW q
    PROVE  /\ Longer(S, p, q) => Longer(S, Head7(r, p), Head7(d, q))
           /\ AtLeast(S, p, q) /\ Head7(r, p) = Head7(d, q) =>
                /\ p = q
                /\ \A x \in SealedFields \ {"amount", "created"} : r[x] = d[x]
<1> DEFINE p7 == Bar(r.type, p)  q7 == Bar(d.type, q)
           p6 == Bar(r.human, p7)  q6 == Bar(d.human, q7)
           p5 == Bar(r.user, p6)  q5 == Bar(d.user, q6)
           p4 == Bar(r.opinion_version, p5)  q4 == Bar(d.opinion_version, q5)
           p3 == Bar(r.opinion_id, p4)  q3 == Bar(d.opinion_id, q4)
           p2 == Bar(r.case, p3)  q2 == Bar(d.case, q3)
           p1 == Bar(r.id, p2)  q1 == Bar(d.id, q2)
<1>1. /\ r.id \in S /\ d.id \in S /\ d.id \notin DOMAIN Barred
      /\ r.case \in S /\ d.case \in S /\ d.case \notin DOMAIN Barred
      /\ r.opinion_id \in S /\ d.opinion_id \in S /\ d.opinion_id \notin DOMAIN Barred
      /\ r.opinion_version \in S /\ d.opinion_version \in S /\ d.opinion_version \notin DOMAIN Barred
      /\ r.user \in S /\ d.user \in S /\ d.user \notin DOMAIN Barred
      /\ r.human \in S /\ d.human \in S /\ d.human \notin DOMAIN Barred
      /\ r.type \in S /\ d.type \in S /\ d.type \notin DOMAIN Barred
  BY DEF SealedFields
<1>2. Head7(r, p) = p1 /\ Head7(d, q) = q1
  BY DEF Head7
<1>3. /\ Longer(S, p, q) => Longer(S, p7, q7)
      /\ AtLeast(S, p, q) => AtLeast(S, p7, q7)
  BY <1>1, BarKeeps
<1>4. /\ Longer(S, p7, q7) => Longer(S, p6, q6)
      /\ AtLeast(S, p7, q7) => AtLeast(S, p6, q6)
  BY <1>1, BarKeeps
<1>5. /\ Longer(S, p6, q6) => Longer(S, p5, q5)
      /\ AtLeast(S, p6, q6) => AtLeast(S, p5, q5)
  BY <1>1, BarKeeps
<1>6. /\ Longer(S, p5, q5) => Longer(S, p4, q4)
      /\ AtLeast(S, p5, q5) => AtLeast(S, p4, q4)
  BY <1>1, BarKeeps
<1>7. /\ Longer(S, p4, q4) => Longer(S, p3, q3)
      /\ AtLeast(S, p4, q4) => AtLeast(S, p3, q3)
  BY <1>1, BarKeeps
<1>8. /\ Longer(S, p3, q3) => Longer(S, p2, q2)
      /\ AtLeast(S, p3, q3) => AtLeast(S, p2, q2)
  BY <1>1, BarKeeps
<1>9. /\ Longer(S, p2, q2) => Longer(S, p1, q1)
      /\ AtLeast(S, p2, q2) => AtLeast(S, p1, q1)
  BY <1>1, BarKeeps
<1>10. ASSUME AtLeast(S, p, q), p1 = q1
      PROVE  p = q /\ \A x \in SealedFields \ {"amount", "created"} : r[x] = d[x]
  <2> HIDE DEF p1, q1, p2, q2, p3, q3, p4, q4, p5, q5, p6, q6, p7, q7
  <2>1. AtLeast(S, p, q) /\ AtLeast(S, p7, q7) /\ AtLeast(S, p6, q6) /\ AtLeast(S, p5, q5)
        /\ AtLeast(S, p4, q4) /\ AtLeast(S, p3, q3) /\ AtLeast(S, p2, q2)
    BY <1>10, <1>3, <1>4, <1>5, <1>6, <1>7, <1>8, <1>9
  <2>2. r.id = d.id /\ p2 = q2
    BY <1>1, <2>1, <1>10, PeelOff DEF p1, q1
  <2>3. r.case = d.case /\ p3 = q3
    BY <1>1, <2>1, <2>2, PeelOff DEF p2, q2
  <2>4. r.opinion_id = d.opinion_id /\ p4 = q4
    BY <1>1, <2>1, <2>3, PeelOff DEF p3, q3
  <2>5. r.opinion_version = d.opinion_version /\ p5 = q5
    BY <1>1, <2>1, <2>4, PeelOff DEF p4, q4
  <2>6. r.user = d.user /\ p6 = q6
    BY <1>1, <2>1, <2>5, PeelOff DEF p5, q5
  <2>7. r.human = d.human /\ p7 = q7
    BY <1>1, <2>1, <2>6, PeelOff DEF p6, q6
  <2>8. r.type = d.type /\ p = q
    BY <1>1, <2>1, <2>7, PeelOff DEF p7, q7
  <2> QED BY <2>2, <2>3, <2>4, <2>5, <2>6, <2>7, <2>8 DEF SealedFields
<1> HIDE DEF p1, q1, p2, q2, p3, q3, p4, q4, p5, q5, p6, q6, p7, q7
<1> QED BY <1>2, <1>3, <1>4, <1>5, <1>6, <1>7, <1>8, <1>9, <1>10

\* The texts of two decisions, and what their fields may be
Texts(r, d) == STRING \cup {r[x] : x \in SealedFields} \cup {d[x] : x \in SealedFields}

\* The payload of record_human_decision_v2 tells field by field what was hashed,
\* if nothing of that has a bar in it.
LEMMA SameFields ==
    ASSUME NEW r, NEW d, \A x \in SealedFields : d[x] \notin DOMAIN Barred, SealV2(r) = SealV2(d)
    PROVE  \A x \in SealedFields : r[x] = d[x]
<1> DEFINE S == Texts(r, d)
           p == Bar(r.amount, Parts(r.created))  q == Bar(d.amount, Parts(d.created))
<1>1. STRING \subseteq S /\ \A x \in SealedFields : r[x] \in S /\ d[x] \in S
  BY DEF Texts
<1>2. /\ r.amount \in S /\ d.amount \in S /\ d.amount \notin DOMAIN Barred
      /\ r.created \in S /\ d.created \in S /\ d.created \notin DOMAIN Barred
  BY <1>1 DEF SealedFields
<1> HIDE DEF S
<1>3. AtLeast(S, Parts(r.created), Parts(d.created))
  <2>1. /\ Parts(r.created) \in Seq(S) /\ Len(Parts(r.created)) >= 1
        /\ Parts(d.created) \in Seq(S) /\ Len(Parts(d.created)) = 1
    BY <1>1, <1>2, PartsFacts
  <2> QED BY <2>1 DEF AtLeast
<1>4. AtLeast(S, p, q)
  BY <1>1, <1>2, <1>3, BarKeeps
<1>5. Head7(r, p) = Head7(d, q)
  BY DEF SealV2
<1>6. p = q /\ \A x \in SealedFields \ {"amount", "created"} : r[x] = d[x]
  <2> HIDE DEF p, q
  <2> QED BY <1>1, <1>4, <1>5, HeadKeeps
<1>7. r.amount = d.amount /\ Parts(r.created) = Parts(d.created)
  BY <1>1, <1>2, <1>3, <1>6, PeelOff
<1>8. r.created = d.created
  <2>1. Len(Parts(d.created)) = 1 /\ Parts(d.created) = <<d.created>>
    BY <1>1, <1>2, PartsFacts
  <2>2. Parts(r.created) = <<r.created>>
    BY <1>1, <1>2, <1>7, <2>1, PartsFacts
  <2>3. <<r.created>> = <<d.created>>
    BY <1>7, <2>1, <2>2
  <2> QED BY <2>3
<1> QED BY <1>6, <1>7, <1>8

\* The payload of record_human_decision has a field less.
LEMMA SealsDiffer ==
    ASSUME NEW r, NEW d, \A x \in SealedFields : d[x] \notin DOMAIN Barred
    PROVE  SealV2(r) # SealV1(d)
<1> DEFINE S == Texts(r, d)
           p == Bar(r.amount, Parts(r.created))  q == Parts(d.created)
<1>1. STRING \subseteq S /\ \A x \in SealedFields : r[x] \in S /\ d[x] \in S
  BY DEF Texts
<1>2. r.amount \in S /\ r.created \in S /\ d.created \in S /\ d.created \notin DOMAIN Barred
  BY <1>1 DEF SealedFields
<1> HIDE DEF S
<1>3. Longer(S, p, q)
  <2> DEFINE i == Len(Parts(r.amount))  j == Len(Parts(r.created))
  <2>1. /\ Parts(r.created) \in Seq(S) /\ j \in Nat /\ j >= 1
        /\ q \in Seq(S) /\ Len(q) = 1 /\ i \in Nat /\ i >= 1
    BY <1>1, <1>2, PartsFacts
  <2>2. p \in Seq(S) /\ Len(p) = i + j
    BY <1>1, <1>2, <2>1, BarFacts
  <2> HIDE DEF i, j, p, q
  <2> QED BY <2>1, <2>2 DEF Longer
<1>4. Longer(S, Head7(r, p), Head7(d, q))
  <2> HIDE DEF p, q
  <2> QED BY <1>1, <1>3, HeadKeeps
<1>5. SealV2(r) = Head7(r, p) /\ SealV1(d) = Head7(d, q)
  BY DEF SealV1, SealV2
<1> DEFINE a == Head7(r, p)  b == Head7(d, q)
<1>6. a # b
  <2> HIDE DEF a, b
  <2>1. Longer(S, a, b)
    BY <1>4 DEF a, b
  <2>2. Len(a) \in Nat /\ Len(b) \in Nat /\ Len(a) > Len(b)
    BY <2>1, LenProperties DEF Longer
  <2> QED BY <2>2
<1> QED BY <1>5, <1>6

----------------------------------------------------------------------------
\* Decisions and rows

LEMMA DecisionFields ==
    ASSUME NEW c, NEW req
    PROVE  /\ LET d == DecisionV1(c, req) IN
              /\ d = [x \in Columns |-> d[x]]
              /\ d.id = IF req.id = NoKey THEN c ELSE req.id
           /\ LET d == DecisionV2(c, req) IN
              /\ d = [x \in Columns |-> d[x]]
              /\ d.id = IF req.key = NoKey THEN c ELSE req.key
              /\ d.role = req.role /\ d.ai = req.opinion.decision
              /\ d.type = req.alignment /\ d.justified = req.narrative
BY DEF DecisionV1, DecisionV2, Columns

\* A row has its own seal, and of a decision what no column changes.
LEMMA StoredFields ==
    ASSUME NEW d, NEW seal, d = [x \in Columns |-> d[x]]
    PROVE  LET r == Stored(d, seal) IN
           /\ r = [x \in Columns |-> r[x]]
           /\ r.id = d.id /\ r.role = d.role /\ r.ai = d.ai /\ r.justified = d.justified
           /\ r.seal = seal
BY DEF Stored, Columns

\* An upsert leaves the row where it is, with the new seal.
LEMMA UpsertedFields ==
    ASSUME NEW old, NEW new, old = [x \in Columns |-> old[x]]
    PROVE  LET r == Upserted(old, new) IN
           /\ r = [x \in Columns |-> r[x]]
           /\ r.id = old.id
           /\ r.seal = new.seal
BY DEF Upserted, Columns

----------------------------------------------------------------------------
LEMMA Idle == NoCall.at = "idle" /\ NoCall.by = "" /\ NoCall.answer = "" /\ NoCall \in CallSet
BY DEF NoCall, CallSet, Asked, Answers

\* An empty table, and nothing asked.
LEMMA InitInv == Init => RecordInv
<1> SUFFICES ASSUME Init PROVE RecordInv
  OBVIOUS
<1>1. \A c \in Calls : call[c] = NoCall
  BY DEF Init
<1>2. NoCall.at = "idle" /\ NoCall.by = "" /\ NoCall.answer = "" /\ NoCall \in CallSet
  BY Idle
<1>3. call \in [Calls -> CallSet]
  BY <1>2 DEF Init
<1>4. DOMAIN rows = {}
  BY DEF Init
<1>5. rows = [id \in DOMAIN rows |-> rows[id]]
  BY DEF Init
<1>6. Types
  BY <1>3, <1>4, <1>5 DEF Types
<1>7. \A c \in Calls : ~ Succeeded(c)
  BY <1>1, <1>2 DEF Succeeded
<1>8. InOrder /\ LetThrough /\ InTable /\ Once
  BY <1>1, <1>2, <1>7 DEF InOrder, LetThrough, InTable, Once
<1>9. Provenance
  BY <1>4 DEF Provenance
<1> QED BY <1>6, <1>8, <1>9 DEF RecordInv

\* What of the invariant is about rows is kept by a row that takes its place.
LEMMA PutTypes ==
    ASSUME Types, NEW r, r = [x \in Columns |-> r[x]], Put(r)
    PROVE  /\ rows' = [id \in DOMAIN rows' |-> rows'[id]]
           /\ DOMAIN rows' = DOMAIN rows \cup {r.id}
           /\ \A id \in DOMAIN rows' : /\ rows'[id] = [x \in Columns |-> rows'[id][x]]
                                       /\ rows'[id].id = id
           /\ rows'[r.id] = r
           /\ \A id \in DOMAIN rows : id # r.id => rows'[id] = rows[id]
BY DEF Types, Put

\* An answer ends a call, and no other.
LEMMA AnswerTypes ==
    ASSUME Types, NEW c \in Calls, NEW by \in {"v1", "v2"}, NEW answer \in Answers,
           Over(c, by, answer)
    PROVE  /\ call' \in [Calls -> CallSet]
           /\ call'[c].at = "done" /\ call'[c].by = by /\ call'[c].answer = answer
           /\ \A d \in Calls : d # c => call'[d] = call[d]
<1> DEFINE v == [at |-> "done", by |-> by, req |-> NoKey, answer |-> answer]
<1>1. v \in CallSet /\ v.at = "done" /\ v.by = by /\ v.answer = answer
  BY DEF CallSet, Asked
<1>2. call' = [call EXCEPT ![c] = v] /\ call \in [Calls -> CallSet]
  BY DEF Over, Types
<1> HIDE DEF v
<1> QED BY <1>1, <1>2

\* What a row is of, it stays of as long as no call that was answered changes.
LEMMA KeepProvenance ==
    ASSUME NEW c \in Calls, call[c].answer = "", \A d \in Calls : d # c => call'[d] = call[d],
           NEW id, rows'[id] = rows[id],
           \E d \in Calls : OfV1(d, rows[id]) \/ OfV2(d, rows[id])
    PROVE  \E d \in Calls : (OfV1(d, rows[id]) \/ OfV2(d, rows[id]))'
<1> PICK d \in Calls : OfV1(d, rows[id]) \/ OfV2(d, rows[id])
  OBVIOUS
<1>1. d # c
  BY DEF OfV1, OfV2, Succeeded
<1>2. call'[d] = call[d]
  BY <1>1
<1>3. (OfV1(d, rows[id]) \/ OfV2(d, rows[id]))'
  BY <1>2 DEF OfV1, OfV2, Succeeded, DecisionOf
<1> QED BY <1>3

----------------------------------------------------------------------------
\* record_human_decision: the row that takes its place has the seal of this
\* decision.
LEMMA RecordStep ==
    ASSUME RecordInv, NEW c \in Calls, NEW req \in Requests, Record(c, req)
    PROVE  RecordInv'
<1> USE DEF RecordInv
<1>1. call[c].by = "" /\ call[c].answer = ""
  BY Idle DEF Record
<1>2. CASE Over(c, "v1", "invalid_request") /\ UNCHANGED rows
  <2>1. /\ call' \in [Calls -> CallSet]
        /\ call'[c].at = "done" /\ call'[c].by = "v1" /\ call'[c].answer = "invalid_request"
        /\ \A d \in Calls : d # c => call'[d] = call[d]
    BY <1>2, AnswerTypes DEF Answers
  <2>2. Types'
    BY <1>2, <2>1 DEF Types
  <2>3. \A d \in Calls : Succeeded(d)' => d # c /\ call'[d] = call[d] /\ Succeeded(d)
    BY <2>1 DEF Succeeded
  <2>4. InOrder' /\ LetThrough'
    BY <2>1, <2>3 DEF InOrder, LetThrough
  <2>5. InTable'
    BY <1>2, <2>3 DEF InTable, DecisionOf
  <2>6. Once'
    BY <2>1, <2>3 DEF Once
  <2>7. Provenance'
    BY <1>1, <1>2, <2>1, KeepProvenance DEF Provenance
  <2> QED BY <2>2, <2>4, <2>5, <2>6, <2>7
<1> DEFINE d1 == DecisionV1(c, req)  new == RowV1(c, req)
           row == IF new.id \in DOMAIN rows THEN Upserted(rows[new.id], new) ELSE new
           v == [at |-> "done", by |-> "v1", req |-> req, answer |-> "SUCCESS"]
<1>3. CASE call' = [call EXCEPT ![c] = v] /\ Put(row)
  <2>1. /\ new = [x \in Columns |-> new[x]] /\ new.id = d1.id /\ new.seal = SealV1(d1)
        /\ d1.id = IF req.id = NoKey THEN c ELSE req.id
    BY DecisionFields, StoredFields DEF RowV1
  <2>2. v \in CallSet /\ v.at = "done" /\ v.by = "v1" /\ v.req = req /\ v.answer = "SUCCESS"
    BY DEF CallSet, Asked, Answers
  <2> HIDE DEF v, d1, new
  <2>3. /\ call' \in [Calls -> CallSet]
        /\ call'[c].at = "done" /\ call'[c].by = "v1" /\ call'[c].req = req
        /\ call'[c].answer = "SUCCESS"
        /\ \A d \in Calls : d # c => call'[d] = call[d]
    BY <1>3, <2>2 DEF Types
  <2>4. row = [x \in Columns |-> row[x]] /\ row.id = d1.id /\ row.seal = SealV1(d1)
    <3>1. CASE new.id \in DOMAIN rows
      <4>1. rows[new.id] = [x \in Columns |-> rows[new.id][x]] /\ rows[new.id].id = new.id
        BY <3>1 DEF Types
      <4> QED BY <2>1, <3>1, <4>1, UpsertedFields
    <3>2. CASE new.id \notin DOMAIN rows
      BY <2>1, <3>2
    <3> QED BY <3>1, <3>2
  <2> HIDE DEF row
  <2>5. /\ rows' = [id \in DOMAIN rows' |-> rows'[id]]
        /\ DOMAIN rows' = DOMAIN rows \cup {row.id}
        /\ \A id \in DOMAIN rows' : /\ rows'[id] = [x \in Columns |-> rows'[id][x]]
                                    /\ rows'[id].id = id
        /\ rows'[row.id] = row
        /\ \A id \in DOMAIN rows : id # row.id => rows'[id] = rows[id]
    BY <1>3, <2>4, PutTypes
  <2>6. Types'
    <3>1. d1.id \in Keys \cup Calls
      BY <2>1, RecordAssumptions
    <3> QED BY <2>3, <2>4, <2>5, <3>1 DEF Types
  <2>7. \A d \in Calls : d # c /\ Succeeded(d)' => call'[d] = call[d] /\ Succeeded(d)
    BY <2>3 DEF Succeeded
  <2>8. InOrder' /\ LetThrough'
    BY <2>3, <2>7 DEF InOrder, LetThrough
  <2>9. Succeeded(c)' /\ DecisionOf(c)' = d1
    BY <2>3 DEF Succeeded, DecisionOf, d1
  <2>10. InTable'
    <3>1. ASSUME NEW d \in Calls, d # c, Succeeded(d)' PROVE (DecisionOf(d).id)' \in DOMAIN rows'
      <4>1. DecisionOf(d).id \in DOMAIN rows /\ call'[d] = call[d]
        BY <2>7, <3>1 DEF InTable
      <4> QED BY <2>5, <4>1 DEF DecisionOf
    <3> QED BY <2>4, <2>5, <2>9, <3>1 DEF InTable
  <2>11. Once'
    BY <2>3, <2>7 DEF Once
  <2>12. ASSUME NEW id \in DOMAIN rows'
         PROVE  \E d \in Calls : (OfV1(d, rows[id]) \/ OfV2(d, rows[id]))'
    <3>1. CASE id = row.id
      <4>1. OfV1(c, rows[id])'
        BY <2>3, <2>4, <2>5, <2>9, <3>1 DEF OfV1
      <4> QED BY <4>1
    <3>2. CASE id # row.id
      <4>1. id \in DOMAIN rows /\ rows'[id] = rows[id]
        BY <2>5, <3>2
      <4> QED BY <1>1, <2>3, <4>1, KeepProvenance DEF Provenance
    <3> QED BY <3>1, <3>2
  <2>13. Provenance'
    BY <2>12 DEF Provenance
  <2> QED BY <2>6, <2>8, <2>10, <2>11, <2>13
<1> QED BY <1>2, <1>3 DEF Record

\* The lookup writes no row, and remembers what it has let through.
LEMMA LookupStep ==
    ASSUME RecordInv, NEW c \in Calls, NEW req \in RequestsV2, Lookup(c, req)
    PROVE  RecordInv'
<1> USE DEF RecordInv
<1>1. call[c].by = "" /\ call[c].answer = "" /\ UNCHANGED rows
  BY Idle DEF Lookup
<1>2. /\ call' \in [Calls -> CallSet]
      /\ \A d \in Calls : d # c => call'[d] = call[d]
      /\ call'[c].answer # "SUCCESS"
      /\ call'[c].at = "done" <=> call'[c].answer # ""
      /\ call'[c].at = "insert" => /\ call'[c].by = "v2" /\ call'[c].answer = ""
                                   /\ call'[c].req = req /\ Verdict(req) = "insert"
  <2>1. CASE Over(c, "v2", "SUCCESS_IDEMPOTENT")
    BY <2>1, AnswerTypes DEF Answers
  <2>2. CASE Verdict(req) # "insert" /\ Over(c, "v2", Verdict(req))
    <3>1. Verdict(req) \in {"403", "409", "422"}
      BY <2>2 DEF Verdict
    <3> QED BY <2>2, <3>1, AnswerTypes DEF Answers
  <2>3. CASE /\ Verdict(req) = "insert"
             /\ call' = [call EXCEPT ![c] = [at |-> "insert", by |-> "v2", req |-> req, answer |-> ""]]
    <3> DEFINE v == [at |-> "insert", by |-> "v2", req |-> req, answer |-> ""]
    <3>1. v \in CallSet /\ v.at = "insert" /\ v.by = "v2" /\ v.req = req /\ v.answer = ""
      BY DEF CallSet, Asked, Answers
    <3>2. call' = [call EXCEPT ![c] = v] /\ call \in [Calls -> CallSet]
      BY <2>3 DEF Types
    <3> HIDE DEF v
    <3> QED BY <2>3, <3>1, <3>2
  <2> QED BY <2>1, <2>2, <2>3 DEF Lookup
<1>3. \A d \in Calls : Succeeded(d)' => d # c /\ call'[d] = call[d] /\ Succeeded(d)
  BY <1>2 DEF Succeeded
<1>4. Types'
  BY <1>1, <1>2 DEF Types
<1>5. InOrder' /\ LetThrough'
  BY <1>2, <1>3 DEF InOrder, LetThrough
<1>6. InTable' /\ Once'
  BY <1>1, <1>3 DEF InTable, Once, DecisionOf
<1>7. Provenance'
  BY <1>1, <1>2, KeepProvenance DEF Provenance
<1> QED BY <1>4, <1>5, <1>6, <1>7

\* The insert of a decision_id that is free: no call of this key has had
\* success, or its row would be there.
LEMMA InsertStep ==
    ASSUME RecordInv, NEW c \in Calls, Insert(c)
    PROVE  RecordInv'
<1> USE DEF RecordInv
<1> DEFINE req == call[c].req  d2 == DecisionV2(c, req)  new == RowV2(c, req)
<1>1. /\ call[c].at = "insert" /\ call[c].by = "v2" /\ call[c].answer = ""
      /\ req \in RequestsV2 /\ Verdict(req) = "insert"
  BY DEF Insert, LetThrough
<1>2. CASE Over(c, "v2", "IntegrityError") /\ UNCHANGED rows
  <2>1. /\ call' \in [Calls -> CallSet]
        /\ call'[c].at = "done" /\ call'[c].answer = "IntegrityError"
        /\ \A d \in Calls : d # c => call'[d] = call[d]
    BY <1>2, AnswerTypes DEF Answers
  <2>2. \A d \in Calls : Succeeded(d)' => d # c /\ call'[d] = call[d] /\ Succeeded(d)
    BY <2>1 DEF Succeeded
  <2>3. Types'
    BY <1>2, <2>1 DEF Types
  <2>4. InOrder' /\ LetThrough'
    BY <2>1, <2>2 DEF InOrder, LetThrough
  <2>5. InTable' /\ Once'
    BY <1>2, <2>2 DEF InTable, Once, DecisionOf
  <2>6. Provenance'
    BY <1>1, <1>2, <2>1, KeepProvenance DEF Provenance
  <2> QED BY <2>3, <2>4, <2>5, <2>6
<1>3. CASE /\ new.id \notin DOMAIN rows /\ Put(new)
           /\ call' = [call EXCEPT ![c].at = "done", ![c].answer = "SUCCESS"]
  <2>1. /\ d2 = [x \in Columns |-> d2[x]]
        /\ d2.id = IF req.key = NoKey THEN c ELSE req.key
        /\ d2.role = req.role /\ d2.ai = req.opinion.decision /\ d2.justified = req.narrative
    BY DecisionFields
  <2>2. /\ new = [x \in Columns |-> new[x]] /\ new.id = d2.id
        /\ new.role = req.role /\ new.ai = req.opinion.decision /\ new.justified = req.narrative
        /\ new.seal = SealV2(d2)
    <3>1. new = Stored(d2, SealV2(d2))
      BY DEF RowV2
    <3> HIDE DEF d2, new
    <3> QED BY <2>1, <3>1, StoredFields
  <2>3. /\ call' \in [Calls -> CallSet]
        /\ call'[c].at = "done" /\ call'[c].by = "v2" /\ call'[c].answer = "SUCCESS"
        /\ call'[c].req = req
        /\ \A d \in Calls : d # c => call'[d] = call[d]
    <3>1. call[c] \in CallSet /\ c \in DOMAIN call /\ call \in [Calls -> CallSet]
      BY DEF Types
    <3> DEFINE v == [call[c] EXCEPT !.at = "done", !.answer = "SUCCESS"]
    <3>2. v \in CallSet /\ v.at = "done" /\ v.by = "v2" /\ v.answer = "SUCCESS" /\ v.req = req
      BY <1>1, <3>1 DEF CallSet, Answers
    <3>3. call' = [call EXCEPT ![c] = v]
      BY <1>3, <3>1
    <3> HIDE DEF v
    <3> QED BY <3>1, <3>2, <3>3
  <2>4. /\ rows' = [id \in DOMAIN rows' |-> rows'[id]]
        /\ DOMAIN rows' = DOMAIN rows \cup {new.id}
        /\ \A id \in DOMAIN rows' : /\ rows'[id] = [x \in Columns |-> rows'[id][x]]
                                    /\ rows'[id].id = id
        /\ rows'[new.id] = new
        /\ \A id \in DOMAIN rows : id # new.id => rows'[id] = rows[id]
    <3> HIDE DEF new
    <3> QED BY <1>3, <2>2, PutTypes
  <2>5. \A d \in Calls : d # c /\ Succeeded(d)' => call'[d] = call[d] /\ Succeeded(d)
    BY <2>3 DEF Succeeded
  <2>6. Succeeded(c)' /\ DecisionOf(c)' = d2
    BY <2>3 DEF Succeeded, DecisionOf
  <2> HIDE DEF d2, new
  <2>7. Types'
    <3>1. new.id \in Keys \cup Calls
      BY <1>1, <2>1, <2>2, RecordAssumptions
    <3> QED BY <2>3, <2>4, <3>1 DEF Types
  <2>8. InOrder' /\ LetThrough'
    BY <1>1, <2>3, <2>5 DEF InOrder, LetThrough
  <2>9. InTable'
    <3>1. ASSUME NEW d \in Calls, d # c, Succeeded(d)' PROVE (DecisionOf(d).id)' \in DOMAIN rows'
      <4>1. DecisionOf(d).id \in DOMAIN rows /\ call'[d] = call[d]
        BY <2>5, <3>1 DEF InTable
      <4> QED BY <2>4, <4>1 DEF DecisionOf
    <3> QED BY <2>2, <2>4, <2>6, <3>1 DEF InTable
  <2>10. Once'
    <3>1. ASSUME NEW d \in Calls, d # c, Succeeded(d), call[d].by = "v2", call[d].req.key = req.key
          PROVE  req.key = NoKey
      <4>1. DecisionOf(d).id \in DOMAIN rows
        BY <3>1 DEF InTable
      <4>2. DecisionOf(d).id = IF call[d].req.key = NoKey THEN d ELSE call[d].req.key
        BY <3>1, DecisionFields DEF DecisionOf
      <4> QED BY <1>3, <2>1, <2>2, <3>1, <4>1, <4>2
    <3> QED BY <2>3, <2>5, <3>1 DEF Once
  <2>11. ASSUME NEW id \in DOMAIN rows'
         PROVE  \E d \in Calls : (OfV1(d, rows[id]) \/ OfV2(d, rows[id]))'
    <3>1. CASE id = new.id
      <4>1. OfV2(c, rows[id])'
        BY <1>1, <2>2, <2>3, <2>4, <2>6, <3>1 DEF OfV2
      <4> QED BY <4>1
    <3>2. CASE id # new.id
      <4>1. id \in DOMAIN rows /\ rows'[id] = rows[id]
        BY <2>4, <3>2
      <4> QED BY <1>1, <2>3, <4>1, KeepProvenance DEF Provenance
    <3> QED BY <3>1, <3>2
  <2>12. Provenance'
    BY <2>11 DEF Provenance
  <2> QED BY <2>7, <2>8, <2>9, <2>10, <2>12
<1> QED BY <1>2, <1>3 DEF Insert

\* An edit of the table leaves all but the amount.
LEMMA EditStep ==
    ASSUME RecordInv, NEW id \in DOMAIN rows, Edit(id)
    PROVE  RecordInv'
<1> USE DEF RecordInv
<1>1. DOMAIN rows' = DOMAIN rows /\ UNCHANGED call
  BY DEF Edit
<1>2. rows' = [x \in DOMAIN rows' |-> rows'[x]]
  BY DEF Edit
<1>3. ASSUME NEW k \in DOMAIN rows
      PROVE  /\ rows'[k] = [x \in Columns |-> rows'[k][x]]
             /\ \A x \in Columns : x # "amount" => rows'[k][x] = rows[k][x]
  <2>1. rows[k] = [x \in Columns |-> rows[k][x]]
    BY DEF Types
  <2>2. rows'[k] = rows[k] \/ rows'[k] = [rows[k] EXCEPT !["amount"] = "0"]
    BY DEF Edit
  <2> QED BY <2>1, <2>2
<1>4. \A k \in DOMAIN rows : /\ rows'[k].id = rows[k].id /\ rows'[k].seal = rows[k].seal
                              /\ rows'[k].role = rows[k].role /\ rows'[k].ai = rows[k].ai
                              /\ rows'[k].justified = rows[k].justified
  BY <1>3 DEF Columns
<1>5. Types'
  BY <1>1, <1>2, <1>3, <1>4 DEF Types
<1>6. InOrder' /\ LetThrough' /\ InTable' /\ Once'
  BY <1>1 DEF InOrder, LetThrough, InTable, Once, Succeeded, DecisionOf
<1>7. Provenance'
  BY <1>1, <1>4 DEF Provenance, OfV1, OfV2, Succeeded, DecisionOf
<1> QED BY <1>5, <1>6, <1>7

LEMMA StutterStep == RecordInv /\ UNCHANGED vars => RecordInv'
<1> SUFFICES ASSUME RecordInv, UNCHANGED vars PROVE RecordInv'
  OBVIOUS
<1>1. rows' = rows /\ call' = call
  BY DEF vars
<1>2. Types' /\ InOrder' /\ LetThrough' /\ InTable' /\ Once'
  BY <1>1 DEF RecordInv, Types, InOrder, LetThrough, InTable, Once, Succeeded, DecisionOf
<1>3. Provenance'
  BY <1>1 DEF RecordInv, Provenance, OfV1, OfV2, Succeeded, DecisionOf
<1> QED BY <1>2, <1>3 DEF RecordInv

\* The invariant holds of every behaviour of the two ways of recording.
THEOREM RecordsCorrect == Spec => []RecordInv
<1>1. Init => RecordInv
  BY InitInv
<1>2. RecordInv /\ [Next]_vars => RecordInv'
  <2> SUFFICES ASSUME RecordInv, [Next]_vars PROVE RecordInv'
    OBVIOUS
  <2>1. CASE UNCHANGED vars
    BY <2>1, StutterStep
  <2>2. ASSUME NEW c \in Calls, NEW req \in Requests, Record(c, req) PROVE RecordInv'
    BY <2>2, RecordStep
  <2>3. ASSUME NEW c \in Calls, NEW req \in RequestsV2, Lookup(c, req) PROVE RecordInv'
    BY <2>3, LookupStep
  <2>4. ASSUME NEW c \in Calls, Insert(c) PROVE RecordInv'
    BY <2>4, InsertStep
  <2>5. ASSUME NEW id \in DOMAIN rows, Edit(id) PROVE RecordInv'
    BY <2>5, EditStep
  <2> QED BY <2>1, <2>2, <2>3, <2>4, <2>5 DEF Next
<1> QED BY <1>1, <1>2, PTL DEF Spec

\* decision_ids are keys or calls, every row is under its own, and each call
\* that is over has one of the answers of the two ways of recording.
THEOREM TypeCorrect == Spec => []TypeOK
<1>1. RecordInv => TypeOK
  BY DEF RecordInv, Types, CallSet, Answers, InOrder, TypeOK
<1> QED BY <1>1, RecordsCorrect, PTL

\* However requests under one key race, on whatever cases and by whomever,
\* record_human_decision_v2 answers SUCCESS to one.
THEOREM KeyRecordsOnce == Spec => []OneSuccessPerKey
<1>1. RecordInv => OneSuccessPerKey
  <2> SUFFICES ASSUME RecordInv, NEW c \in Calls, NEW d \in Calls,
                      {call[c].by, call[d].by} = {"v2"},
                      {call[c].answer, call[d].answer} = {"SUCCESS"},
                      call[c].req.key = call[d].req.key
               PROVE  c = d \/ call[c].req.key = NoKey
    BY DEF OneSuccessPerKey
  <2>1. call[c].by = "v2" /\ call[d].by = "v2" /\ call[c].answer = "SUCCESS" /\ call[d].answer = "SUCCESS"
    OBVIOUS
  <2> QED BY <2>1 DEF RecordInv, Once, Succeeded
<1> QED BY <1>1, RecordsCorrect, PTL

----------------------------------------------------------------------------
\* What verifies

\* A row that verifies is what a call of record_human_decision_v2 has submitted:
\* its seal has the amount, and the seals of the other way do not.
LEMMA VerifiedRow ==
    ASSUME RecordInv, NEW id \in DOMAIN rows, Separated(id), Verifies(rows[id])
    PROVE  \E c \in Calls : OfV2(c, rows[id]) /\ Recorded(c, rows[id])
<1> PICK c \in Calls : OfV1(c, rows[id]) \/ OfV2(c, rows[id])
  BY DEF RecordInv, Provenance
<1> DEFINE d == DecisionOf(c)  r == Read(rows[id])
<1>1. rows[id].id = id
  BY DEF RecordInv, Types
<1>2. \A x \in SealedFields : d[x] \notin DOMAIN Barred
  BY <1>1 DEF Separated, OfV1, OfV2
<1>3. SealV2(r) = rows[id].seal
  BY DEF Verifies, Recomputed
<1> HIDE DEF r, d
<1>4. ~ OfV1(c, rows[id])
  BY <1>2, <1>3, SealsDiffer DEF OfV1, d
<1>5. OfV2(c, rows[id])
  BY <1>4
<1>6. \A x \in SealedFields : r[x] = d[x]
  BY <1>2, <1>3, <1>5, SameFields DEF OfV2, d
<1>7. Recorded(c, rows[id])
  BY <1>5, <1>6 DEF Recorded, OfV2, r, d
<1> QED BY <1>5, <1>7

\* What is read for the seal is in the row but for two of its fields.
LEMMA ReadFields ==
    ASSUME NEW r, r = [x \in Columns |-> r[x]]
    PROVE  Read(r).id = r.id /\ Read(r).type = r.type
BY DEF Read, Columns

\* A row that passes verify_decision_integrity_seal is a decision that the
\* gate of record_human_decision_v2 has let through, whoever has changed an
\* amount in the table or recorded over it by record_human_decision since, as
\* long as nothing that was recorded under its decision_id has a bar in it.
THEOREM VerifiedWasAllowed == Spec => []VerifiedIsLegitimate
<1>1. ASSUME RecordInv, NEW id \in DOMAIN rows, Separated(id), Verifies(rows[id])
      PROVE  /\ rows[id].type = "DIVERGENT" => rows[id].justified
             /\ \E c \in Calls :
                 /\ Recorded(c, rows[id])
                 /\ call[c].req.opinion.hard_block => rows[id].role \in {"CRO", "CREDIT_AUTHORITY"}
                 /\ call[c].req.action = "SIGN" => rows[id].ai = "APPROVE_WITH_CONDITIONS"
  <2> PICK c \in Calls : OfV2(c, rows[id]) /\ Recorded(c, rows[id])
    BY <1>1, VerifiedRow
  <2> DEFINE req == call[c].req
  <2>1. Verdict(req) = "insert"
    BY DEF OfV2
  <2>2. Authorized(req) /\ Explained(req) /\ req.action \in AllowedActions(req.opinion)
    BY <2>1 DEF Verdict
  <2>3. rows[id].type = req.alignment
    <3>1. Read(rows[id]).type = rows[id].type
      BY <1>1, ReadFields DEF RecordInv, Types
    <3>2. DecisionOf(c).type = req.alignment
      BY DecisionFields DEF OfV2, DecisionOf
    <3> QED BY <3>1, <3>2 DEF Recorded, SealedFields
  <2>4. rows[id].type = "DIVERGENT" => rows[id].justified
    BY <2>2, <2>3 DEF OfV2, Explained
  <2>5. req.opinion.hard_block => rows[id].role \in {"CRO", "CREDIT_AUTHORITY"}
    BY <2>2 DEF OfV2, Authorized
  <2>6. req.action = "SIGN" => rows[id].ai = "APPROVE_WITH_CONDITIONS"
    <3>1. req.action = "SIGN" => req.opinion.decision = "APPROVE_WITH_CONDITIONS"
      BY <2>2 DEF AllowedActions
    <3> QED BY <3>1 DEF OfV2
  <2> QED BY <2>4, <2>5, <2>6
<1>2. RecordInv => VerifiedIsLegitimate
  BY <1>1 DEF VerifiedIsLegitimate
<1> QED BY <1>2, RecordsCorrect, PTL

\* Under one decision_id record_human_decision_v2 has recorded once.
LEMMA SameCall ==
    ASSUME RecordInv, NEW c \in Calls, NEW d \in Calls, Succeeded(c), Succeeded(d),
           call[c].by = "v2", call[d].by = "v2", DecisionOf(c).id = DecisionOf(d).id
    PROVE  c = d
<1>1. /\ DecisionOf(c).id = IF call[c].req.key = NoKey THEN c ELSE call[c].req.key
      /\ DecisionOf(d).id = IF call[d].req.key = NoKey THEN d ELSE call[d].req.key
  BY DecisionFields DEF DecisionOf
<1>2. call[c].req.key \in Keys \cup {NoKey} /\ call[d].req.key \in Keys \cup {NoKey}
  BY RecordAssumptions DEF RecordInv, InOrder
<1>3. Keys \cap Calls = {}
  BY RecordAssumptions
<1>4. c = d \/ call[c].req.key # call[d].req.key \/ call[c].req.key = NoKey
  BY DEF RecordInv, Once
<1> QED BY <1>1, <1>2, <1>3, <1>4

\* verify_decision_integrity_seal accepts a row, of a decision_id under which
\* nothing with a bar was recorded, only if it reads as a call of record_human_
\* decision_v2 has submitted it, and accepts every row that does and that
\* record_human_decision has not recorded over.
THEOREM SealIsExact == Spec => []SealTells
<1>1. ASSUME RecordInv PROVE SealTells
  <2> USE <1>1
  <2>1. ASSUME NEW id \in DOMAIN rows, Separated(id), Verifies(rows[id])
        PROVE  \E c \in Calls : Recorded(c, rows[id])
    BY <2>1, VerifiedRow
  <2>2. ASSUME NEW id \in DOMAIN rows, NEW c \in Calls, Recorded(c, rows[id]),
               \A d \in Calls : Succeeded(d) /\ call[d].by = "v1" => DecisionOf(d).id # id
        PROVE  Verifies(rows[id])
    <3>1. rows[id].id = id /\ Read(rows[id]).id = id
      BY ReadFields DEF RecordInv, Types
    <3>2. DecisionOf(c).id = id
      BY <2>2, <3>1 DEF Recorded, SealedFields
    <3> PICK d \in Calls : OfV1(d, rows[id]) \/ OfV2(d, rows[id])
      BY DEF RecordInv, Provenance
    <3>3. OfV2(d, rows[id])
      BY <2>2, <3>1 DEF OfV1
    <3>4. c = d
      BY <2>2, <3>1, <3>2, <3>3, SameCall DEF OfV2, Recorded
    <3>5. rows[id].seal = SealV2(DecisionOf(c))
      BY <3>3, <3>4 DEF OfV2
    <3> DEFINE r == Read(rows[id])  e == DecisionOf(c)
    <3>6. \A x \in SealedFields : r[x] = e[x]
      BY <2>2 DEF Recorded
    <3> HIDE DEF r, e
    <3>7. SealV2(r) = SealV2(e)
      BY <3>6 DEF SealV2, Head7, SealedFields
    <3> QED BY <3>5, <3>7 DEF Verifies, Recomputed, r, e
  <2> QED BY <2>1, <2>2 DEF SealTells
<1> QED BY <1>1, RecordsCorrect, PTL
=============================================================================
