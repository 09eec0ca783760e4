--------------------------- MODULE BeforeAfterProofs ---------------------------
(***************************************************************************)
(* Theorems about what Algorithms says of the program before a crawl (the  *)
(* login, the command line, the API specification it starts from) and      *)
(* after it (the laboratory: its oracle and statistics), for every input.  *)
(***************************************************************************)
EXTENDS AlgorithmsProofs

-----------------------------------------------------------------------------
(* Logging in.                                                             *)

LEMMA FieldsKnown ==
  ASSUME NEW inputs, Sequence(inputs)
  PROVE  \A i \in ToSet(inputs) : i.hidden /\ i.name # "" => i.name \in DOMAIN FieldsOf(inputs)
<1> DEFINE N == Len(inputs)
           Names == {x.name : x \in ToSet(inputs)}
           V == {x.value : x \in ToSet(inputs)}
           S == UNION {[K -> V] : K \in SUBSET Names}
           Turn(map, k) == IF inputs[k].hidden /\ inputs[k].name # ""
                             THEN Over(Entry(inputs[k].name, inputs[k].value), map) ELSE map
           Asked(k) == inputs[k].hidden /\ inputs[k].name # ""
           G == [k \in 1..N |-> [map \in S |-> Turn(map, k)]]
           Step(w) == [k \in 0..N |-> IF k = 0 THEN <<>> ELSE Turn(w[k - 1], k)]
           F == CHOOSE w : w = Step(w)
<1>1. N \in Nat /\ DOMAIN inputs = 1..N /\ \A k \in 1..N : inputs[k] \in ToSet(inputs)
  BY SequenceFacts
<1>2. FieldsOf(inputs) = F[N]
  BY DEF FieldsOf
<1>3. ASSUME NEW k \in 1..N, NEW map
      PROVE  /\ DOMAIN map \subseteq DOMAIN Turn(map, k)
             /\ Asked(k) => inputs[k].name \in DOMAIN Turn(map, k)
  BY DEF Over, Entry
<1>4. ASSUME NEW k \in 1..N, NEW map \in S PROVE Turn(map, k) \in S
  <2> DEFINE x == inputs[k]
  <2>1. x \in ToSet(inputs) /\ x.name \in Names /\ x.value \in V
    BY <1>1
  <2>2. PICK K \in SUBSET Names : map \in [K -> V]
    BY <1>4
  <2> HIDE DEF x, V, Names
  <2>3. Over(Entry(x.name, x.value), map) \in [K \cup {x.name} -> V] /\ K \cup {x.name} \in SUBSET Names
    BY <2>1, <2>2 DEF Over, Entry
  <2>4. Over(Entry(x.name, x.value), map) \in S
    BY <2>3
  <2> QED BY <1>4, <2>4 DEF x
<1> HIDE DEF Turn
<1>5. <<>> \in S
  <2> HIDE DEF V, Names
  <2>1. <<>> \in [{} -> V]
    OBVIOUS
  <2> QED BY <2>1
<1>6. G \in [1..N -> [S -> S]]
  <2> HIDE DEF S
  <2> QED BY <1>4
<1>7. PICK W : Walks(W, S, N, <<>>, G)
  <2> HIDE DEF S, G
  <2> QED BY <1>1, <1>5, <1>6, PrefixRecursion
<1>8. W = Step(W)
  <2>1. /\ W \in [0..N -> S] /\ W[0] = <<>>
        /\ \A n \in 1..N : W[n] = G[n][W[n - 1]]
    BY <1>7 DEF Walks
  <2> HIDE DEF S
  <2>2. ASSUME NEW n \in 1..N PROVE W[n] = Turn(W[n - 1], n)
    <3>1. n - 1 \in 0..N
      BY <1>1
    <3>2. W[n - 1] \in S
      BY <2>1, <3>1
    <3> QED BY <2>1, <3>2
  <2>3. \A n \in 0..N : W[n] = Step(W)[n]
    <3>1. \A n \in 0..N : n = 0 \/ n \in 1..N
      BY <1>1
    <3> QED BY <2>1, <2>2, <3>1
  <2>4. W = [n \in 0..N |-> W[n]]
    BY <2>1
  <2> QED BY <2>3, <2>4
<1>9. F = Step(F)
  <2> HIDE DEF Step
  <2> QED BY <1>8
<1> HIDE DEF F
<1> DEFINE T == {n \in 0..N : \A k \in 1..n : Asked(k) => inputs[k].name \in DOMAIN F[n]}
<1> HIDE DEF Asked, N
<1>10. \A n \in 0..N : n \in T
  <2>1. 0 \in T
    <3>1. 0 \in 0..N /\ \A k \in 1..0 : FALSE
      BY <1>1
    <3> QED BY <3>1
  <2>2. ASSUME NEW n \in 0..N - 1, n \in T PROVE n + 1 \in T
    <3>1. n + 1 \in 1..N /\ n + 1 \in 0..N /\ n + 1 # 0 /\ (n + 1) - 1 = n
      BY <1>1
    <3>2. F[n + 1] = Turn(F[n], n + 1)
      BY <1>9, <3>1
    <3>3. DOMAIN F[n] \subseteq DOMAIN F[n + 1] /\ (Asked(n + 1) => inputs[n + 1].name \in DOMAIN F[n + 1])
      BY <1>3, <3>1, <3>2
    <3>4. \A k \in 1..n + 1 : k \in 1..n \/ k = n + 1
      BY <1>1
    <3>5. \A k \in 1..n : Asked(k) => inputs[k].name \in DOMAIN F[n]
      BY <2>2
    <3>6. \A k \in 1..n + 1 : Asked(k) => inputs[k].name \in DOMAIN F[n + 1]
      BY <3>3, <3>4, <3>5
    <3> QED BY <3>1, <3>6
  <2> HIDE DEF T
  <2> QED BY <1>1, <2>1, <2>2, PrefixInd
<1>11. ASSUME NEW i \in ToSet(inputs), i.hidden /\ i.name # ""
       PROVE  i.name \in DOMAIN F[N]
  <2>1. PICK k \in 1..N : i = inputs[k]
    BY <1>1, <1>11 DEF ToSet
  <2>2. Asked(k)
    BY <1>11, <2>1, Zenon DEF Asked
  <2>3. N \in 0..N
    BY <1>1
  <2>4. N \in T
    BY <1>10, <2>3
  <2> QED BY <2>1, <2>2, <2>4
<1> QED BY <1>2, <1>11
-----------------------------------------------------------------------------
\* What a login that succeeded gave.
LEMMA LoginGives ==
  ASSUME NEW account, Login(account).ok
  PROVE  LET headers == Login(account).headers IN
         headers = <<>> \/ \E v : headers = AuthHeader(v)
<1> DEFINE flags == account.flags
           active == Active(flags)
<1>1. Cardinality(active) > 1 \/ active = {} \/ \E m \in {"form", "bearer", "basic"} : active = {m}
  <2>1. active \subseteq {"form", "bearer", "basic"}
    BY DEF Active
  <2>2. IsFiniteSet({"form", "bearer", "basic"})
    <3>1. {"form", "bearer", "basic"} = (({} \cup {"form"}) \cup {"bearer"}) \cup {"basic"}
      OBVIOUS
    <3>2. IsFiniteSet({})
      BY FS_EmptySet
    <3>3. IsFiniteSet({} \cup {"form"})
      BY <3>2, FS_AddElement
    <3>4. IsFiniteSet(({} \cup {"form"}) \cup {"bearer"})
      BY <3>3, FS_AddElement
    <3>5. IsFiniteSet((({} \cup {"form"}) \cup {"bearer"}) \cup {"basic"})
      BY <3>4, FS_AddElement
    <3> QED BY <3>1, <3>5
  <2> HIDE DEF active
  <2>3. IsFiniteSet(active)
    BY <2>1, <2>2, FS_Subset
  <2>4. Cardinality(active) \in Nat
    BY <2>3, FS_CardinalityType
  <2>5. CASE Cardinality(active) = 0
    BY <2>3, <2>5, FS_EmptySet
  <2>6. CASE Cardinality(active) = 1
    <3>1. PICK x : active = {x}
      BY <2>3, <2>6, FS_Singleton
    <3> QED BY <2>1, <3>1
  <2> QED BY <2>4, <2>5, <2>6
<1> HIDE DEF active
<1>2. CASE Cardinality(active) > 1
  <2>1. /\ active # {} /\ active # {"form"} /\ active # {"bearer"} /\ active # {"basic"}
    <3>1. Cardinality({}) = 0 /\ \A x : Cardinality({x}) = 1
      BY FS_EmptySet, FS_Singleton
    <3>2. ~(0 > 1) /\ ~(1 > 1)
      OBVIOUS
    <3> QED BY <1>2, <3>1, <3>2, Zenon
  <2>2. Login(account) = Failed
    BY <1>2, <2>1, Zenon DEF Login, active, flags
  <2> QED BY <2>2 DEF Failed
<1>3. CASE ~(Cardinality(active) > 1) /\ active = {}
  <2>1. active # {"form"} /\ active # {"bearer"} /\ active # {"basic"}
    BY <1>3
  <2>2. Login(account) = Nothing
    BY <1>3, <2>1, Zenon DEF Login, active, flags
  <2>3. Nothing.headers = <<>>
    BY DEF Nothing
  <2> QED BY <2>2, <2>3, Zenon
<1>4. CASE ~(Cardinality(active) > 1) /\ active = {"form"}
  <2>1. active # {} /\ active # {"bearer"} /\ active # {"basic"}
    BY <1>4
  <2>2. Login(account) = FormLogin(account)
    BY <1>4, <2>1, Zenon DEF Login, active, flags
  <2> QED BY <2>2 DEF FormLogin, Failed
<1>5. CASE ~(Cardinality(active) > 1) /\ active = {"bearer"}
  <2>1. active # {} /\ active # {"form"} /\ active # {"basic"}
    BY <1>5
  <2>2. Login(account) = BearerLogin(account)
    BY <1>5, <2>1, Zenon DEF Login, active, flags
  <2>3. BearerLogin(account) # Failed
    BY <2>2 DEF Failed
  <2>4. \A v : [Nothing EXCEPT !.headers = v].headers = v
    BY DEF Nothing
  <2>5. BearerLogin(account) = [Nothing EXCEPT !.headers = AuthHeader(<<"Bearer", Tokens(account.answer)[1]>>)]
    BY <2>3, Zenon DEF BearerLogin
  <2> QED BY <2>2, <2>4, <2>5, Zenon
<1>6. CASE ~(Cardinality(active) > 1) /\ active = {"basic"}
  <2>1. active # {} /\ active # {"form"} /\ active # {"bearer"}
    BY <1>6
  <2>2. Login(account) = BasicAuth(flags)
    BY <1>6, <2>1, Zenon DEF Login, active, flags
  <2> QED BY <2>2 DEF BasicAuth, Nothing
<1> QED BY <1>1, <1>2, <1>3, <1>4, <1>5, <1>6

\* A request has each of the headers and the cookies, which stand for a header called
\* Cookie; the other spelling may stand for Authorization.
Carried(headers, h, n) ==
  \/ h[n] = headers[n]
  \/ n = "Authorization" /\ "authorization" \in DOMAIN headers /\ h[n] = headers["authorization"]

LEMMA BaseIsSent ==
  ASSUME NEW headers, NEW cookies, NEW h \in BaseHeaders(headers, cookies)
  PROVE  /\ \A n \in DOMAIN headers \ {"authorization"} :
              n \in DOMAIN h /\ (n # "Cookie" => Carried(headers, h, n))
         /\ "authorization" \in DOMAIN headers => "Authorization" \in DOMAIN h
         /\ cookies # "" => h["Cookie"] = <<cookies>>
<1> DEFINE names == {Canonical(n) : n \in DOMAIN headers}
           Values(n) == {headers[m] : m \in {x \in DOMAIN headers : Canonical(x) = n}}
           all == {g \in [names -> {headers[n] : n \in DOMAIN headers}] : \A n \in names : g[n] \in Values(n)}
<1>1. \A n \in DOMAIN headers : Canonical(n) = IF n = "authorization" THEN "Authorization" ELSE n
  BY DEF Canonical
<1>2. /\ \A n \in DOMAIN headers \ {"authorization"} : n \in names
      /\ "authorization" \in DOMAIN headers => "Authorization" \in names
  BY <1>1
<1>3. ASSUME NEW n \in DOMAIN headers \ {"authorization"}, NEW v \in Values(n)
      PROVE  \/ v = headers[n]
             \/ n = "Authorization" /\ "authorization" \in DOMAIN headers /\ v = headers["authorization"]
  <2>1. PICK m \in DOMAIN headers : Canonical(m) = n /\ v = headers[m]
    OBVIOUS
  <2>2. m = n \/ (m = "authorization" /\ n = "Authorization")
    BY <1>1, <2>1
  <2> QED BY <2>1, <2>2
<1> HIDE DEF names, Values
<1>4. \A g \in all : DOMAIN g = names /\ \A n \in DOMAIN headers \ {"authorization"} : Carried(headers, g, n)
  BY <1>2, <1>3 DEF Carried
<1>5. BaseHeaders(headers, cookies) = IF cookies = "" THEN all ELSE {Over(Entry("Cookie", <<cookies>>), g) : g \in all}
  BY DEF BaseHeaders, names, Values
<1> HIDE DEF all
<1>6. CASE cookies = ""
  BY <1>2, <1>4, <1>5, <1>6
<1>7. CASE cookies # ""
  <2>1. PICK g \in all : h = Over(Entry("Cookie", <<cookies>>), g)
    BY <1>5, <1>7
  <2>2. /\ DOMAIN h = {"Cookie"} \cup names /\ h["Cookie"] = <<cookies>>
        /\ \A n \in names : n # "Cookie" => h[n] = g[n]
    BY <1>4, <2>1 DEF Over, Entry
  <2> QED BY <1>2, <1>4, <1>7, <2>2 DEF Carried
<1> QED BY <1>6, <1>7

\* The credentials of the command line and of the login are in every request of
\* the crawl (auth.FormLogin, chcrawl's merge of the headers, fetch.New); where a
\* header is given as "authorization", one of the two is.
THEOREM CredentialsCorrect == Spec => []CredentialsReachRequests
<1>1. ASSUME NEW account, IsAccount(account)
      PROVE  LET result == Login(account)
                 given == account.flags.headers
                 fields == Submitted(ParseLoginForm(account.page), account.flags)
                 Sends(h, n, v) ==
                   \/ h[n] = v
                   \/ n = "Authorization" /\ OtherSpelling(account) /\ h[n] = given["authorization"]
             IN  /\ account.page.forms # <<>> =>
                      /\ \A i \in ToSet(account.page.forms[1].inputs) :
                           i.hidden /\ i.name # "" => i.name \in DOMAIN fields
                      /\ fields[account.flags.passField] = account.flags.pass
                 /\ result.ok =>
                      \A h \in Sent(account) :
                        /\ \A n \in DOMAIN result.headers : n \in DOMAIN h /\ Sends(h, n, result.headers[n])
                        /\ \A n \in DOMAIN given \ (DOMAIN result.headers \cup {"authorization"}) :
                             n \in DOMAIN h /\ (n # "Cookie" => Sends(h, n, given[n]))
                        /\ OtherSpelling(account) => "Authorization" \in DOMAIN h
                        /\ account.flags.cookies # "" => h["Cookie"] = <<account.flags.cookies>>
                        /\ account.flags.cookies = "" /\ result.cookies # "" => h["Cookie"] = <<result.cookies>>
  <2> DEFINE flags == account.flags
             given == flags.headers
             result == Login(account)
             form == ParseLoginForm(account.page)
             fields == Submitted(form, flags)
             forms == account.page.forms
             Sends(h, n, v) ==
               \/ h[n] = v
               \/ n = "Authorization" /\ OtherSpelling(account) /\ h[n] = given["authorization"]
  <2>1. fields[flags.passField] = flags.pass /\ DOMAIN form.hidden \subseteq DOMAIN fields
    <3> HIDE DEF form
    <3> QED BY DEF Submitted, Over, Entry
  <2>2. ASSUME forms # <<>>, NEW i \in ToSet(forms[1].inputs), i.hidden /\ i.name # ""
        PROVE  i.name \in DOMAIN fields
    <3>1. Sequence(forms[1].inputs)
      <4> HIDE DEF forms
      <4>1. Sequence(forms) /\ \A f \in ToSet(forms) : Sequence(f.inputs)
        BY <1>1, Zenon DEF IsAccount, forms
      <4>2. Len(forms) \in Nat /\ Len(forms) # 0
        <5>1. forms \in Seq(ToSet(forms))
          BY <4>1 DEF Sequence
        <5> HIDE DEF forms
        <5> QED BY <2>2, <5>1, EmptySeq
      <4>3. 1 \in 1..Len(forms)
        BY <4>2
      <4>4. forms[1] \in ToSet(forms)
        BY <4>1, <4>3, SequenceFacts
      <4> QED BY <4>1, <4>4
    <3>2. form.hidden = FieldsOf(forms[1].inputs)
      BY <2>2 DEF ParseLoginForm
    <3>3. i.name \in DOMAIN FieldsOf(forms[1].inputs)
      BY <2>2, <3>1, FieldsKnown
    <3> QED BY <2>1, <3>2, <3>3
  <2>3. ASSUME result.ok, NEW h \in Sent(account)
        PROVE  /\ \A n \in DOMAIN result.headers : n \in DOMAIN h /\ Sends(h, n, result.headers[n])
               /\ \A n \in DOMAIN given \ (DOMAIN result.headers \cup {"authorization"}) :
                    n \in DOMAIN h /\ (n # "Cookie" => Sends(h, n, given[n]))
               /\ OtherSpelling(account) => "Authorization" \in DOMAIN h
               /\ flags.cookies # "" => h["Cookie"] = <<flags.cookies>>
               /\ flags.cookies = "" /\ result.cookies # "" => h["Cookie"] = <<result.cookies>>
    <3> DEFINE merged == MergedHeaders(result, given)
               cookies == MergedCookies(result, flags)
    <3>1. DOMAIN result.headers \subseteq {"Authorization"}
      <4>1. result.headers = <<>> \/ \E v : result.headers = AuthHeader(v)
        BY <2>3, LoginGives, Zenon
      <4> HIDE DEF result
      <4> QED BY <4>1 DEF AuthHeader, Entry
    <3>2. h \in BaseHeaders(merged, cookies)
      BY <2>3, Zenon DEF Sent
    <3>3. cookies = IF flags.cookies = "" THEN result.cookies ELSE flags.cookies
      BY Zenon DEF MergedCookies
    <3> HIDE DEF result, cookies
    <3>4. /\ DOMAIN merged = DOMAIN result.headers \cup DOMAIN given
          /\ \A n \in DOMAIN result.headers : merged[n] = result.headers[n]
          /\ \A n \in DOMAIN given \ DOMAIN result.headers : merged[n] = given[n]
      BY DEF MergedHeaders, Over
    <3> HIDE DEF merged
    <3>5. OtherSpelling(account) <=> "authorization" \in DOMAIN merged
      BY <3>1, <3>4 DEF OtherSpelling
    <3>6. OtherSpelling(account) => merged["authorization"] = given["authorization"]
      BY <3>1, <3>4 DEF OtherSpelling
    <3>7. /\ \A n \in DOMAIN merged \ {"authorization"} :
               n \in DOMAIN h /\ (n # "Cookie" => Carried(merged, h, n))
          /\ "authorization" \in DOMAIN merged => "Authorization" \in DOMAIN h
          /\ cookies # "" => h["Cookie"] = <<cookies>>
      BY <3>2, BaseIsSent
    <3>8. \A n, v : Carried(merged, h, n) /\ merged[n] = v => Sends(h, n, v)
      BY <3>5, <3>6 DEF Carried
    <3> HIDE DEF Sends
    <3>9. \A n \in DOMAIN result.headers : n \in DOMAIN h /\ Sends(h, n, result.headers[n])
      BY <3>1, <3>4, <3>7, <3>8
    <3>10. \A n \in DOMAIN given \ (DOMAIN result.headers \cup {"authorization"}) :
             n \in DOMAIN h /\ (n # "Cookie" => Sends(h, n, given[n]))
      BY <3>4, <3>7, <3>8
    <3> QED BY <3>3, <3>5, <3>7, <3>9, <3>10
  <2> QED BY <2>1, <2>2, <2>3
<1>2. ASSUME IsCase(input) PROVE CredentialsReachRequests
  <2>1. Is("login") => IsAccount(input.account)
    BY <1>2, CaseOfKind, AlgorithmsAssumption DEF Is
  <2> QED BY <1>1, <2>1, Zenon DEF CredentialsReachRequests
<1>3. Init => IsCase(input)
  BY DEF Init
<1>4. IsCase(input) /\ [Next]_<<input, writerVars>> => IsCase(input)'
  BY DEF Next
<1> QED BY <1>2, <1>3, <1>4, PTL DEF Spec
-----------------------------------------------------------------------------
(* The specification that is read.                                         *)

\* A parameter replaces the one with its key or comes last.
LEMMA AddParamIs ==
  ASSUME NEW merged, Sequence(merged), NEW p
  PROVE  LET after == AddParam(merged, p)
             same(k) == ParamKey(merged[k]) = ParamKey(p)
         IN  \/ /\ \E k \in 1..Len(merged) : same(k)
                /\ Sequence(after) /\ Len(after) = Len(merged)
                /\ \A k \in 1..Len(merged) : after[k] = IF same(k) THEN p ELSE merged[k]
             \/ /\ \A k \in 1..Len(merged) : ~same(k)
                /\ Sequence(after) /\ Len(after) = Len(merged) + 1 /\ after[Len(merged) + 1] = p
                /\ \A k \in 1..Len(merged) : after[k] = merged[k]
<1> DEFINE after == AddParam(merged, p)
           same(k) == ParamKey(merged[k]) = ParamKey(p)
           N == Len(merged)
<1>1. N \in Nat /\ DOMAIN merged = 1..N
  BY SequenceFacts
<1> HIDE DEF N
<1>2. CASE \E k \in 1..N : same(k)
  <2> HIDE DEF same
  <2> DEFINE A == [k \in 1..N |-> IF same(k) THEN p ELSE merged[k]]
  <2>1. after = A
    BY <1>1, <1>2 DEF AddParam, same
  <2>2. A = [k \in 1..N |-> A[k]]
    OBVIOUS
  <2>3. \A k \in 1..N : A[k] = IF same(k) THEN p ELSE merged[k]
    OBVIOUS
  <2> HIDE DEF A, after
  <2>4. Sequence(A) /\ Len(A) = N
    BY <1>1, <2>2, SequenceByIndex
  <2>5. /\ \E k \in 1..N : same(k)
        /\ Sequence(after) /\ Len(after) = N
        /\ \A k \in 1..N : after[k] = IF same(k) THEN p ELSE merged[k]
    BY <1>2, <2>1, <2>3, <2>4
  <2> QED BY <2>5 DEF N, after, same
<1>3. CASE \A k \in 1..N : ~same(k)
  <2>1. after = Append(merged, p)
    BY <1>1, <1>3 DEF AddParam
  <2> DEFINE S == ToSet(merged) \cup {p}
  <2>2. merged \in Seq(S) /\ p \in S
    BY SeqMonotonic DEF Sequence
  <2> HIDE DEF S, after
  <2>3. Append(merged, p) \in Seq(S)
    BY <2>2, AppendTyped
  <2>4. Sequence(after)
    BY <2>1, <2>3, TypedSequence
  <2>5. Len(after) = N + 1 /\ after[N + 1] = p /\ \A k \in 1..N : after[k] = merged[k]
    BY <2>1, <2>2, <1>1 DEF N
  <2> QED BY <1>3, <2>4, <2>5 DEF N, after, same
<1>4. (\E k \in 1..N : same(k)) \/ (\A k \in 1..N : ~same(k))
  OBVIOUS
<1> HIDE DEF same, after
<1> QED BY <1>2, <1>3, <1>4 DEF N, same, after

\* What merging leaves of the first n declarations, the first m of them the path's:
\* the last of each key, once, with the path's keys first.
KeyIn(R, n, key) == \E l \in 1..n : ParamKey(R[l]) = key
LastIn(R, n, p) == \E l \in 1..n : p = R[l] /\ \A j \in l + 1..n : ParamKey(R[j]) # ParamKey(R[l])
Merged(R, m, n, q) ==
  /\ Sequence(q)
  /\ \A i \in 1..Len(q) : LastIn(R, n, q[i])
  /\ \A l \in 1..n : \E i \in 1..Len(q) : ParamKey(q[i]) = ParamKey(R[l])
  /\ \A i, j \in 1..Len(q) : ParamKey(q[i]) = ParamKey(q[j]) => i = j
  /\ \A i, j \in 1..Len(q) : i < j /\ KeyIn(R, m, ParamKey(q[j])) => KeyIn(R, m, ParamKey(q[i]))

LEMMA MergedStep ==
  ASSUME NEW R, NEW m \in Nat, NEW n \in Nat, NEW q, Merged(R, m, n, q)
  PROVE  Merged(R, m, n + 1, AddParam(q, R[n + 1]))
<1> DEFINE p == R[n + 1]
           r == AddParam(q, p)
           N == Len(q)
           M == Len(r)
           same(k) == ParamKey(q[k]) = ParamKey(p)
<1>1. /\ Sequence(q) /\ N \in Nat
      /\ \A i \in 1..N : LastIn(R, n, q[i])
      /\ \A l \in 1..n : \E i \in 1..N : ParamKey(q[i]) = ParamKey(R[l])
      /\ \A i, j \in 1..N : ParamKey(q[i]) = ParamKey(q[j]) => i = j
      /\ \A i, j \in 1..N : i < j /\ KeyIn(R, m, ParamKey(q[j])) => KeyIn(R, m, ParamKey(q[i]))
  BY SequenceFacts DEF Merged
<1>2. \/ /\ \E k \in 1..N : same(k)
         /\ Sequence(r) /\ M = N
         /\ \A k \in 1..N : r[k] = IF same(k) THEN p ELSE q[k]
      \/ /\ \A k \in 1..N : ~same(k)
         /\ Sequence(r) /\ M = N + 1 /\ r[N + 1] = p
         /\ \A k \in 1..N : r[k] = q[k]
  BY <1>1, AddParamIs
<1>3. LastIn(R, n + 1, p)
  <2>1. n + 1 \in 1..n + 1 /\ \A j \in (n + 1) + 1..n + 1 : FALSE
    OBVIOUS
  <2> QED BY <2>1 DEF LastIn
<1>4. ASSUME NEW k \in 1..N, ~same(k) PROVE LastIn(R, n + 1, q[k])
  <2>1. PICK l \in 1..n : q[k] = R[l] /\ \A j \in l + 1..n : ParamKey(R[j]) # ParamKey(R[l])
    BY <1>1 DEF LastIn
  <2>2. l \in 1..n + 1 /\ \A j \in l + 1..n + 1 : j \in l + 1..n \/ j = n + 1
    OBVIOUS
  <2>3. \A j \in l + 1..n + 1 : ParamKey(R[j]) # ParamKey(R[l])
    BY <1>4, <2>1, <2>2
  <2> QED BY <2>1, <2>2, <2>3 DEF LastIn
<1>5. \A l \in 1..n + 1 : l \in 1..n \/ l = n + 1
  OBVIOUS
<1> HIDE DEF r, N, M
<1>6. CASE \E k \in 1..N : same(k)
  <2>1. Sequence(r) /\ M = N /\ \A k \in 1..N : r[k] = IF same(k) THEN p ELSE q[k]
    BY <1>2, <1>6
  <2>2. \A k \in 1..N : ParamKey(r[k]) = ParamKey(q[k])
    BY <2>1
  <2>3. \A k \in 1..N : LastIn(R, n + 1, r[k])
    <3> HIDE DEF p
    <3> QED BY <1>3, <1>4, <2>1
  <2>4. \A l \in 1..n + 1 : \E i \in 1..N : ParamKey(r[i]) = ParamKey(R[l])
    BY <1>1, <1>5, <1>6, <2>2
  <2>5. \A i, j \in 1..N : ParamKey(r[i]) = ParamKey(r[j]) => i = j
    BY <1>1, <2>2
  <2>6. \A i, j \in 1..N : i < j /\ KeyIn(R, m, ParamKey(r[j])) => KeyIn(R, m, ParamKey(r[i]))
    BY <1>1, <2>2
  <2>7. Merged(R, m, n + 1, r)
    <3> HIDE DEF p
    <3> QED BY <2>1, <2>3, <2>4, <2>5, <2>6 DEF Merged, M
  <2> QED BY <2>7 DEF r
<1>7. CASE \A k \in 1..N : ~same(k)
  <2>1. Sequence(r) /\ M = N + 1 /\ r[N + 1] = p /\ \A k \in 1..N : r[k] = q[k]
    BY <1>2, <1>7
  <2>2. N \in Nat /\ (\A k \in 1..M : k \in 1..N \/ k = N + 1) /\ N + 1 \in 1..M /\ \A k \in 1..N : k \in 1..M
    BY <1>1, <2>1
  <2>3. \A k \in 1..M : LastIn(R, n + 1, r[k])
    <3> HIDE DEF p
    <3> QED BY <1>3, <1>4, <1>7, <2>1, <2>2
  <2>4. \A l \in 1..n + 1 : \E i \in 1..M : ParamKey(r[i]) = ParamKey(R[l])
    BY <1>1, <1>5, <2>1, <2>2
  <2>5. \A i, j \in 1..M : ParamKey(r[i]) = ParamKey(r[j]) => i = j
    BY <1>1, <1>7, <2>1, <2>2
  <2>6. ASSUME NEW i \in 1..M, NEW j \in 1..M, i < j, KeyIn(R, m, ParamKey(r[j]))
        PROVE  KeyIn(R, m, ParamKey(r[i]))
    <3>1. i \in 1..N
      BY <2>1, <2>2, <2>6
    <3>2. CASE j \in 1..N
      BY <1>1, <2>1, <2>6, <3>1, <3>2
    <3>3. CASE j = N + 1
      <4>1. PICK l \in 1..m : ParamKey(R[l]) = ParamKey(p)
        BY <2>1, <2>6, <3>3 DEF KeyIn
      <4>2. ~(l \in 1..n)
        BY <1>1, <1>7, <4>1
      <4>3. n < m
        BY <4>2
      <4>4. PICK k \in 1..n : q[i] = R[k]
        BY <1>1, <3>1 DEF LastIn
      <4>5. k \in 1..m
        BY <4>3
      <4> QED BY <2>1, <3>1, <4>4, <4>5 DEF KeyIn
    <3> QED BY <2>2, <3>2, <3>3
  <2>7. Merged(R, m, n + 1, r)
    <3> HIDE DEF p
    <3> QED BY <2>1, <2>3, <2>4, <2>5, <2>6 DEF Merged, M
  <2> QED BY <2>7 DEF r
<1> QED BY <1>6, <1>7

LEMMA MergesAll ==
  ASSUME NEW doc, NEW P, Sequence(P), NEW O, Sequence(O)
  PROVE  Merged([l \in 1..Len(P \o O) |-> ResolveObj(doc, (P \o O)[l])], Len(P), Len(P \o O),
                MergeParams(doc, P, O))
<1> DEFINE list == P \o O
           N == Len(list)
           m == Len(P)
           R == [l \in 1..N |-> ResolveObj(doc, list[l])]
           All == {R[l] : l \in 1..N}
           S == Seq(All)
           G == [n \in 1..N |-> [q \in S |-> AddParam(q, R[n])]]
           Step(w) == [n \in 0..N |-> IF n = 0 THEN <<>> ELSE AddParam(w[n - 1], ResolveObj(doc, list[n]))]
           F == CHOOSE w : w = Step(w)
<1>1. N \in Nat /\ m \in Nat
  <2>1. Sequence(list)
    BY JoinSequences
  <2> HIDE DEF list
  <2> QED BY <2>1, SequenceFacts
<1>2. MergeParams(doc, P, O) = F[N]
  BY DEF MergeParams
<1>3. \A l \in 1..N : R[l] = ResolveObj(doc, list[l]) /\ R[l] \in All
  OBVIOUS
<1> HIDE DEF R, list, N, m
<1>4. ASSUME NEW n \in 1..N, NEW q \in S PROVE AddParam(q, R[n]) \in S
  <2> DEFINE r == AddParam(q, R[n])
             L == Len(q)
  <2>1. R[n] \in All
    BY <1>3
  <2> HIDE DEF All
  <2>2. Sequence(q) /\ L \in Nat /\ \A k \in 1..L : q[k] \in All
    BY <1>4, TypedSequence
  <2>3. /\ Sequence(r)
        /\ \/ Len(r) = L /\ \A k \in 1..L : r[k] = R[n] \/ r[k] = q[k]
           \/ Len(r) = L + 1 /\ r[L + 1] = R[n] /\ \A k \in 1..L : r[k] = q[k]
    BY <2>2, AddParamIs
  <2> HIDE DEF r, L
  <2>4. \A k \in 1..Len(r) : r[k] \in All
    <3>1. \A k \in 1..L + 1 : k \in 1..L \/ k = L + 1
      BY <2>2
    <3> QED BY <2>1, <2>2, <2>3, <3>1
  <2>5. Len(r) \in Nat /\ r = [k \in 1..Len(r) |-> r[k]]
    BY <2>3, SequenceFacts
  <2>6. r \in [1..Len(r) -> All]
    BY <2>4, <2>5
  <2> QED BY <2>5, <2>6 DEF r
<1>5. <<>> \in S
  <2> HIDE DEF All
  <2> QED OBVIOUS
<1>6. G \in [1..N -> [S -> S]]
  <2> HIDE DEF S
  <2> QED BY <1>4
<1>7. PICK W : Walks(W, S, N, <<>>, G)
  <2> HIDE DEF S, G
  <2> QED BY <1>1, <1>5, <1>6, PrefixRecursion
<1>8. W = Step(W)
  <2>1. /\ W \in [0..N -> S] /\ W[0] = <<>>
        /\ \A n \in 1..N : W[n] = G[n][W[n - 1]]
    BY <1>7 DEF Walks
  <2> HIDE DEF S
  <2>2. ASSUME NEW n \in 1..N PROVE W[n] = AddParam(W[n - 1], ResolveObj(doc, list[n]))
    <3>1. n - 1 \in 0..N
      BY <1>1
    <3>2. W[n - 1] \in S
      BY <2>1, <3>1
    <3>3. W[n] = AddParam(W[n - 1], R[n])
      BY <2>1, <3>2
    <3> QED BY <1>3, <3>3
  <2>3. \A n \in 0..N : W[n] = Step(W)[n]
    <3>1. \A n \in 0..N : n = 0 \/ n \in 1..N
      BY <1>1
    <3> QED BY <2>1, <2>2, <3>1
  <2>4. W = [n \in 0..N |-> W[n]]
    BY <2>1
  <2> QED BY <2>3, <2>4
<1>9. F = Step(F)
  <2> HIDE DEF Step
  <2> QED BY <1>8
<1> HIDE DEF F
<1> DEFINE T == {n \in 0..N : Merged(R, m, n, F[n])}
<1>10. \A n \in 0..N : n \in T
  <2>1. 0 \in T
    <3>1. 0 \in 0..N /\ F[0] = <<>>
      BY <1>1, <1>9
    <3>2. Merged(R, m, 0, <<>>)
      <4>1. Sequence(<<>>)
        BY ShortSequences
      <4>2. Len(<<>>) = 0 /\ \A k \in 1..0 : FALSE
        OBVIOUS
      <4> QED BY <4>1, <4>2 DEF Merged
    <3> QED BY <3>1, <3>2
  <2>2. ASSUME NEW n \in 0..N - 1, n \in T PROVE n + 1 \in T
    <3>1. n + 1 \in 1..N /\ n + 1 \in 0..N /\ n + 1 # 0 /\ (n + 1) - 1 = n /\ n \in Nat
      BY <1>1
    <3>2. F[n + 1] = AddParam(F[n], R[n + 1])
      BY <1>3, <1>9, <3>1
    <3>3. Merged(R, m, n, F[n])
      BY <2>2
    <3>4. Merged(R, m, n + 1, AddParam(F[n], R[n + 1]))
      BY <1>1, <3>1, <3>3, MergedStep
    <3> QED BY <3>1, <3>2, <3>4
  <2> HIDE DEF T
  <2> QED BY <1>1, <2>1, <2>2, PrefixInd
<1>11. Merged(R, m, N, F[N])
  <2>1. N \in 0..N
    BY <1>1
  <2> QED BY <1>10, <2>1
<1> QED BY <1>2, <1>11 DEF R, m, N, list

\* A set whose elements are numbered from 1 to n has n.
LEMMA NumberedSet ==
  ASSUME NEW n \in Nat, NEW S, NEW f \in [1..n -> S],
         \A i, j \in 1..n : f[i] = f[j] => i = j, \A x \in S : \E i \in 1..n : f[i] = x
  PROVE  IsFiniteSet(S) /\ n = Cardinality(S)
<1>1. f \in Bijection(1..n, S)
  <2>1. f \in Injection(1..n, S)
    BY DEF Injection, IsInjective
  <2>2. f \in Surjection(1..n, S)
    BY DEF Surjection
  <2> QED BY <2>1, <2>2 DEF Bijection
<1>2. ExistsBijection(1..n, S)
  BY <1>1 DEF ExistsBijection
<1>3. IsFiniteSet(1..n) /\ Cardinality(1..n) = n
  BY FS_Interval
<1> QED BY <1>2, <1>3, FS_Bijection

\* The last declaration of a key in a list is the one the rule names.
LEMMA LastDeclared ==
  ASSUME NEW doc, NEW list, Sequence(list), NEW l \in 1..Len(list),
         \A j \in l + 1..Len(list) : ParamKey(Referent(doc, list[j])) # ParamKey(Referent(doc, list[l]))
  PROVE  LET D == DeclaredIn(doc, list, ParamKey(Referent(doc, list[l]))) IN
         l = CHOOSE k \in D : \A j \in D : j <= k
<1> DEFINE D == DeclaredIn(doc, list, ParamKey(Referent(doc, list[l])))
           N == Len(list)
<1>1. N \in Nat /\ DOMAIN list = 1..N
  BY SequenceFacts
<1>2. l \in D
  BY <1>1 DEF DeclaredIn
<1>3. ASSUME NEW j \in D PROVE j \in Nat /\ j <= l
  <2>1. j \in 1..N /\ ParamKey(Referent(doc, list[j])) = ParamKey(Referent(doc, list[l]))
    BY <1>1 DEF DeclaredIn
  <2>2. ~(j \in l + 1..N)
    BY <2>1
  <2> HIDE DEF D, N
  <2> QED BY <1>1, <2>1, <2>2 DEF N
<1>4. ASSUME NEW k \in D, \A j \in D : j <= k PROVE k = l
  <2>1. l <= k /\ k <= l /\ k \in Nat /\ l \in Nat
    BY <1>2, <1>3, <1>4
  <2> QED BY <2>1
<1> HIDE DEF D
<1> QED BY <1>2, <1>3, <1>4 DEF D

LEMMA MergedFollows ==
  ASSUME NEW doc, IsDocument(doc), NEW item, NEW op, IsParams(item.params), IsParams(op.params)
  PROVE  ParamsFollowTheRule(doc, item, op) /\ Sequence(MergeParams(doc, item.params, op.params))
<1> DEFINE P == item.params
           O == op.params
           list == P \o O
           N == Len(list)
           m == Len(P)
           n == Len(O)
           q == MergeParams(doc, P, O)
           M == Len(q)
           Keys == ParamKeys(doc, item, op)
           Key(p) == ParamKey(Referent(doc, p))
<1>1. /\ Sequence(P) /\ Sequence(O) /\ Sequence(list) /\ ToSet(list) = ToSet(P) \cup ToSet(O)
      /\ \A p \in ToSet(P) \cup ToSet(O) : ~p.nil
  BY JoinSequences DEF IsParams
<1>2. m \in Nat /\ n \in Nat /\ N = m + n
  <2>1. P \in Seq(ToSet(P) \cup ToSet(O)) /\ O \in Seq(ToSet(P) \cup ToSet(O))
    BY <1>1, SeqMonotonic DEF Sequence
  <2> HIDE DEF P, O
  <2> QED BY <2>1
<1>13. DOMAIN P = 1..m /\ DOMAIN O = 1..n
  <2> HIDE DEF P, O
  <2> QED BY <1>1, SequenceFacts
<1>14. \A l \in 1..N : list[l] \in ToSet(list)
  <2> HIDE DEF list
  <2> QED BY <1>1, SequenceFacts
<1>15. (\A l \in 1..m : list[l] = P[l]) /\ (\A l \in m + 1..N : list[l] = O[l - m])
  <2>1. P \in Seq(ToSet(P) \cup ToSet(O)) /\ O \in Seq(ToSet(P) \cup ToSet(O))
    BY <1>1, SeqMonotonic DEF Sequence
  <2> HIDE DEF P, O
  <2> QED BY <2>1
<1>3. \A p \in ToSet(list) : ResolveObj(doc, p) = Referent(doc, p)
  BY <1>1, Zenon DEF ResolveObj, Referent, IsDocument
<1> DEFINE R == [l \in 1..N |-> ResolveObj(doc, list[l])]
<1>4. Merged(R, m, N, q)
  <2> HIDE DEF P, O
  <2> QED BY <1>1, MergesAll
<1>5. \A l \in 1..N : R[l] = Referent(doc, list[l])
  BY <1>3, <1>14
<1> HIDE DEF R, q, list, N, P, O, m, n
<1>6. /\ Sequence(q) /\ M \in Nat /\ DOMAIN q = 1..M
      /\ \A i \in 1..M : \E l \in 1..N : q[i] = Referent(doc, list[l]) /\ \A j \in l + 1..N : Key(list[j]) # Key(list[l])
      /\ \A l \in 1..N : \E i \in 1..M : ParamKey(q[i]) = Key(list[l])
      /\ \A i, j \in 1..M : ParamKey(q[i]) = ParamKey(q[j]) => i = j
      /\ \A i, j \in 1..M : i < j /\ KeyIn(R, m, ParamKey(q[j])) => KeyIn(R, m, ParamKey(q[i]))
  <2>1. Sequence(q) /\ M \in Nat /\ DOMAIN q = 1..M
    BY <1>4, SequenceFacts DEF Merged
  <2>2. ASSUME NEW i \in 1..M
        PROVE  \E l \in 1..N : q[i] = Referent(doc, list[l]) /\ \A j \in l + 1..N : Key(list[j]) # Key(list[l])
    <3>1. PICK l \in 1..N : q[i] = R[l] /\ \A j \in l + 1..N : ParamKey(R[j]) # ParamKey(R[l])
      BY <1>4 DEF Merged, LastIn
    <3>2. \A j \in l + 1..N : j \in 1..N
      BY <1>2
    <3> QED BY <1>5, <3>1, <3>2
  <2>3. \A l \in 1..N : \E i \in 1..M : ParamKey(q[i]) = Key(list[l])
    BY <1>4, <1>5 DEF Merged
  <2> QED BY <1>4, <2>1, <2>2, <2>3 DEF Merged
<1>7. Keys = {Key(list[l]) : l \in 1..N}
  <2>1. Keys = {Key(p) : p \in ToSet(list)}
    BY <1>1 DEF ParamKeys, P, O
  <2>2. ToSet(list) = {list[l] : l \in 1..N}
    BY <1>1, SequenceFacts DEF ToSet, N
  <2> HIDE DEF Key, Keys
  <2> QED BY <2>1, <2>2
<1> HIDE DEF Keys, M
<1>8. {ParamKey(q[k]) : k \in DOMAIN q} = Keys
  <2>1. ASSUME NEW i \in 1..M PROVE ParamKey(q[i]) \in Keys
    BY <1>6, <1>7
  <2>2. ASSUME NEW key \in Keys PROVE \E i \in 1..M : ParamKey(q[i]) = key
    BY <1>6, <1>7
  <2> QED BY <1>6, <2>1, <2>2
<1>9. M = Cardinality(Keys)
  <2> DEFINE f == [k \in 1..M |-> ParamKey(q[k])]
  <2>1. f \in [1..M -> Keys] /\ (\A i, j \in 1..M : f[i] = f[j] => i = j) /\ \A x \in Keys : \E i \in 1..M : f[i] = x
    BY <1>6, <1>8
  <2>2. M \in Nat
    BY <1>6
  <2> HIDE DEF f
  <2> QED BY <2>1, <2>2, NumberedSet
<1>10. ASSUME NEW k \in 1..M PROVE q[k] = EffectiveParam(doc, item, op, ParamKey(q[k]))
  <2>1. PICK l \in 1..N : q[k] = Referent(doc, list[l]) /\ \A j \in l + 1..N : Key(list[j]) # Key(list[l])
    BY <1>6
  <2> DEFINE key == ParamKey(q[k])
  <2>2. key = Key(list[l])
    BY <2>1
  <2>3. CASE Declares(doc, O, key)
    <3>1. PICK d \in 1..n : Key(O[d]) = key
      BY <1>13, <2>3 DEF Declares, DeclaredIn
    <3>2. m + d \in 1..N /\ m + d \in m + 1..N /\ (m + d) - m = d
      BY <1>2
    <3>3. Key(list[m + d]) = key
      BY <1>15, <3>1, <3>2
    <3>4. ~(m + d \in l + 1..N)
      BY <2>1, <2>2, <3>3
    <3>5. l - m \in 1..n /\ l \in m + 1..N
      BY <1>2, <3>2, <3>4
    <3>6. list[l] = O[l - m]
      BY <1>15, <3>5
    <3>7. ASSUME NEW j \in (l - m) + 1..n PROVE Key(O[j]) # Key(O[l - m])
      <4>1. m + j \in l + 1..N /\ m + j \in m + 1..N /\ (m + j) - m = j
        BY <1>2, <3>5
      <4>2. Key(list[m + j]) # Key(list[l]) /\ list[m + j] = O[j]
        BY <1>15, <2>1, <4>1
      <4> QED BY <3>6, <4>2
    <3> DEFINE D == DeclaredIn(doc, O, key)
    <3>8. l - m = CHOOSE x \in D : \A j \in D : j <= x
      <4>1. key = Key(O[l - m])
        BY <2>2, <3>6
      <4>2. LET E == DeclaredIn(doc, O, Key(O[l - m])) IN l - m = CHOOSE x \in E : \A j \in E : j <= x
        BY <1>1, <3>5, <3>7, LastDeclared DEF n
      <4> HIDE DEF key, Key
      <4> QED BY <4>1, <4>2
    <3>9. EffectiveParam(doc, item, op, key) = Referent(doc, O[CHOOSE x \in D : \A j \in D : j <= x])
      BY <2>3 DEF EffectiveParam, O
    <3>10. EffectiveParam(doc, item, op, key) = Referent(doc, O[l - m])
      <4> HIDE DEF D
      <4> QED BY <3>8, <3>9
    <3> QED BY <2>1, <3>6, <3>10
  <2>4. CASE ~Declares(doc, O, key)
    <3>1. l \in 1..m
      <4>1. SUFFICES ASSUME ~(l \in 1..m) PROVE FALSE
        OBVIOUS
      <4>2. l \in m + 1..N /\ l - m \in 1..n
        BY <1>2, <4>1
      <4>3. Key(O[l - m]) = key
        BY <1>15, <2>2, <4>2
      <4> QED BY <1>13, <2>4, <4>2, <4>3 DEF Declares, DeclaredIn
    <3>2. list[l] = P[l]
      BY <1>15, <3>1
    <3>3. ASSUME NEW j \in l + 1..m PROVE Key(P[j]) # Key(P[l])
      <4>1. j \in l + 1..N /\ j \in 1..m
        BY <1>2, <3>1
      <4> QED BY <1>15, <2>1, <3>2, <4>1
    <3> DEFINE D == DeclaredIn(doc, P, key)
    <3>4. l = CHOOSE x \in D : \A j \in D : j <= x
      <4>1. key = Key(P[l])
        BY <2>2, <3>2
      <4>2. LET E == DeclaredIn(doc, P, Key(P[l])) IN l = CHOOSE x \in E : \A j \in E : j <= x
        BY <1>1, <3>1, <3>3, LastDeclared DEF m
      <4> HIDE DEF key, Key
      <4> QED BY <4>1, <4>2
    <3>5. EffectiveParam(doc, item, op, key) = Referent(doc, P[CHOOSE x \in D : \A j \in D : j <= x])
      BY <2>4 DEF EffectiveParam, P, O
    <3>6. EffectiveParam(doc, item, op, key) = Referent(doc, P[l])
      <4> HIDE DEF D
      <4> QED BY <3>4, <3>5
    <3> QED BY <2>1, <3>2, <3>6
  <2> QED BY <2>3, <2>4
<1>11. ASSUME NEW key PROVE Declares(doc, P, key) <=> KeyIn(R, m, key)
  <2>1. \A l \in 1..m : l \in 1..N /\ list[l] = P[l] /\ R[l] = Referent(doc, P[l])
    <3>1. \A l \in 1..m : l \in 1..N
      BY <1>2
    <3> QED BY <1>5, <1>15, <3>1
  <2> QED BY <1>13, <2>1 DEF Declares, DeclaredIn, KeyIn
<1>12. \A j, k \in 1..M : j < k /\ Declares(doc, P, ParamKey(q[k])) => Declares(doc, P, ParamKey(q[j]))
  BY <1>6, <1>11
<1> QED BY <1>6, <1>8, <1>9, <1>10, <1>12 DEF ParamsFollowTheRule, q, M, Keys, P, O

\* FlattenSeq keeps every element of every sequence.
LEMMA FlattenCounts ==
  ASSUME NEW ss, Sequence(ss), \A i \in DOMAIN ss : Sequence(ss[i])
  PROVE  Len(FlattenSeq(ss)) = Cardinality(UNION {{i} \X DOMAIN ss[i] : i \in DOMAIN ss})
<1> DEFINE N == Len(ss)
           Row(i) == {i} \X DOMAIN ss[i]
           Up(i) == UNION {Row(j) : j \in 1..i}
<1>1. N \in Nat /\ DOMAIN ss = 1..N
  BY SequenceFacts
<1>2. ASSUME NEW i \in 1..N PROVE IsFiniteSet(Row(i)) /\ Cardinality(Row(i)) = Len(ss[i]) /\ Len(ss[i]) \in Nat
  <2>1. Len(ss[i]) \in Nat /\ DOMAIN ss[i] = 1..Len(ss[i])
    BY <1>1, SequenceFacts
  <2> DEFINE f == [k \in 1..Len(ss[i]) |-> <<i, k>>]
  <2>2. /\ f \in [1..Len(ss[i]) -> Row(i)]
        /\ \A j, k \in 1..Len(ss[i]) : f[j] = f[k] => j = k
        /\ \A x \in Row(i) : \E k \in 1..Len(ss[i]) : f[k] = x
    BY <2>1
  <2> HIDE DEF f, Row
  <2> QED BY <2>1, <2>2, NumberedSet
<1>3. CASE N = 0
  <2>1. FlattenSeq(ss) = ss
    BY <1>3 DEF FlattenSeq
  <2>2. UNION {Row(i) : i \in DOMAIN ss} = {}
    BY <1>1, <1>3
  <2> QED BY <1>3, <2>1, <2>2, FS_EmptySet
<1>4. CASE N # 0
  <2>1. PICK F : /\ FlattenSeq(ss) = F[N] /\ F[1] = ss[1]
                 /\ \A i \in 1..N - 1 : F[i + 1] = F[i] \o ss[i + 1]
    BY <1>4, FlattenFunction
  <2> DEFINE T == {i \in Nat : i # 0 => /\ Sequence(F[i]) /\ IsFiniteSet(Up(i))
                                        /\ Len(F[i]) = Cardinality(Up(i))}
  <2>2. 0 \in T
    OBVIOUS
  <2>3. ASSUME NEW i \in 0..N - 1, i \in T PROVE i + 1 \in T
    <3>1. i \in Nat /\ i + 1 \in 1..N /\ i + 1 \in Nat
      BY <1>1, <2>3
    <3>2. Sequence(ss[i + 1])
      BY <1>1, <3>1
    <3>3. IsFiniteSet(Row(i + 1)) /\ Cardinality(Row(i + 1)) = Len(ss[i + 1])
      BY <1>2, <3>1
    <3>4. CASE i = 0
      <4>1. Up(1) = Row(1)
        OBVIOUS
      <4> HIDE DEF Up, Row
      <4> QED BY <2>1, <3>1, <3>2, <3>3, <3>4, <4>1
    <3>5. CASE i # 0
      <4>1. i \in 1..N - 1
        BY <1>1, <3>1, <3>5
      <4>2. F[i + 1] = F[i] \o ss[i + 1]
        BY <2>1, <4>1
      <4>3. Sequence(F[i]) /\ IsFiniteSet(Up(i)) /\ Len(F[i]) = Cardinality(Up(i))
        BY <2>3, <3>5
      <4>4. Up(i + 1) = Up(i) \cup Row(i + 1)
        <5>1. \A j : j \in 1..i + 1 <=> j \in 1..i \/ j = i + 1
          BY <3>1
        <5> HIDE DEF Row
        <5> QED BY <5>1
      <4>5. Up(i) \cap Row(i + 1) = {}
        <5>1. \A j \in 1..i : j # i + 1
          BY <3>1
        <5> QED BY <5>1
      <4> HIDE DEF Up, Row
      <4>6. IsFiniteSet(Up(i + 1)) /\ Cardinality(Up(i + 1)) = Cardinality(Up(i)) + Cardinality(Row(i + 1))
        BY <3>3, <4>3, <4>4, <4>5, ApartAdds
      <4>7. Sequence(F[i + 1]) /\ Len(F[i + 1]) = Len(F[i]) + Len(ss[i + 1])
        <5> DEFINE S == ToSet(F[i]) \cup ToSet(ss[i + 1])
        <5>1. F[i] \in Seq(S) /\ ss[i + 1] \in Seq(S)
          BY <3>2, <4>3, SeqMonotonic DEF Sequence
        <5>2. Sequence(F[i] \o ss[i + 1])
          BY <3>2, <4>3, JoinSequences
        <5> HIDE DEF S
        <5>3. Len(F[i] \o ss[i + 1]) = Len(F[i]) + Len(ss[i + 1])
          BY <5>1
        <5> QED BY <4>2, <5>2, <5>3
      <4> QED BY <3>1, <3>3, <4>3, <4>6, <4>7
    <3> QED BY <3>4, <3>5
  <2>4. N \in T
    <3>1. \A i \in 0..N : i \in T
      <4> HIDE DEF T
      <4> QED BY <1>1, <2>2, <2>3, PrefixInd
    <3> HIDE DEF T
    <3> QED BY <1>1, <3>1
  <2>5. Up(N) = UNION {Row(i) : i \in DOMAIN ss}
    BY <1>1
  <2> HIDE DEF Up
  <2> QED BY <1>4, <2>1, <2>4, <2>5
<1> QED BY <1>3, <1>4

\* A bucket has the names that are given for its place.
LEMMA BucketNames ==
  ASSUME NEW params, Sequence(params), NEW in
  PROVE  LET given == {ParamKey(params[k]) : k \in DOMAIN params}
         IN  ToSet(Bucket(params, in)) = {key[1] : key \in {x \in given : x[2] = in}} \ {""}
<1> DEFINE N == Len(params)
           Here(k) == params[k].in = in /\ params[k].name # ""
           ss == [k \in DOMAIN params |-> IF Here(k) THEN <<params[k].name>> ELSE <<>>]
           given == {ParamKey(params[k]) : k \in DOMAIN params}
           Names == {key[1] : key \in {x \in given : x[2] = in}}
<1>1. N \in Nat /\ DOMAIN params = 1..N
  BY SequenceFacts
<1>2. Bucket(params, in) = FlattenSeq(ss)
  BY DEF Bucket
<1>3. Names \ {""} = {params[k].name : k \in {j \in 1..N : Here(j)}}
  <2>1. \A p : ParamKey(p)[1] = p.name /\ ParamKey(p)[2] = p.in
    BY DEF ParamKey
  <2>2. ASSUME NEW x \in Names \ {""} PROVE \E k \in 1..N : Here(k) /\ x = params[k].name
    <3>1. PICK k \in 1..N : ParamKey(params[k])[2] = in /\ x = ParamKey(params[k])[1]
      BY <1>1
    <3>2. x # ""
      BY Zenon
    <3> QED BY <2>1, <3>1, <3>2, Zenon
  <2>3. ASSUME NEW k \in 1..N, Here(k) PROVE params[k].name \in Names \ {""}
    <3>1. ParamKey(params[k]) \in given /\ ParamKey(params[k])[2] = in
      BY <1>1, <2>1, <2>3, Zenon
    <3>2. ParamKey(params[k])[1] = params[k].name /\ params[k].name # ""
      BY <2>1, <2>3, Zenon
    <3> HIDE DEF given
    <3> QED BY <3>1, <3>2, Zenon
  <2> HIDE DEF Names, Here
  <2> QED BY <2>2, <2>3, Zenon
<1> HIDE DEF Here
<1>4. \A k \in 1..N : ss[k] = IF Here(k) THEN <<params[k].name>> ELSE <<>>
  BY <1>1
<1>5. \A k \in 1..N : Sequence(ss[k]) /\ ToSet(ss[k]) = {x \in {params[k].name} : Here(k)}
  <2> HIDE DEF ss
  <2>1. ASSUME NEW k \in 1..N, Here(k) PROVE Sequence(ss[k]) /\ ToSet(ss[k]) = {x \in {params[k].name} : Here(k)}
    BY <1>4, <2>1, ShortSequences
  <2>2. ASSUME NEW k \in 1..N, ~Here(k) PROVE Sequence(ss[k]) /\ ToSet(ss[k]) = {x \in {params[k].name} : Here(k)}
    BY <1>4, <2>2, ShortSequences
  <2> QED BY <2>1, <2>2
<1>6. Sequence(ss) /\ DOMAIN ss = 1..N
  <2>1. ss = [k \in 1..N |-> ss[k]]
    BY <1>1
  <2> HIDE DEF ss
  <2> QED BY <1>1, <2>1, SequenceByIndex
<1> HIDE DEF ss
<1>7. ToSet(FlattenSeq(ss)) = UNION {ToSet(ss[k]) : k \in 1..N}
  BY <1>5, <1>6, FlattenSequences
<1>8. UNION {ToSet(ss[k]) : k \in 1..N} = {params[k].name : k \in {j \in 1..N : Here(j)}}
  <2>1. ASSUME NEW x, NEW k \in 1..N PROVE x \in ToSet(ss[k]) <=> Here(k) /\ x = params[k].name
    BY <1>5
  <2>2. ASSUME NEW x \in UNION {ToSet(ss[k]) : k \in 1..N}
        PROVE  x \in {params[k].name : k \in {j \in 1..N : Here(j)}}
    BY <2>1
  <2>3. ASSUME NEW k \in {j \in 1..N : Here(j)}
        PROVE  params[k].name \in UNION {ToSet(ss[j]) : j \in 1..N}
    <3>1. k \in 1..N /\ Here(k)
      BY <2>3
    <3>2. params[k].name \in ToSet(ss[k])
      BY <2>1, <3>1
    <3> QED BY <3>1, <3>2
  <2> QED BY <2>2, <2>3
<1> HIDE DEF Names, N
<1>9. ToSet(Bucket(params, in)) = Names \ {""}
  BY <1>2, <1>3, <1>7, <1>8, Zenon
<1> QED BY <1>9, Zenon DEF Names

LEMMA DocumentRead ==
  ASSUME NEW doc, IsDocument(doc), NEW v2
  PROVE  /\ Len(Endpoints(doc, v2)) = Cardinality(Operations(doc))
         /\ \A o \in Operations(doc) :
              LET item == doc.items[o[1]]
                  op == item.ops[o[2]]
              IN  /\ IsParams(item.params) /\ IsParams(op.params)
                  /\ EndpointOf(doc, v2, item, op) \in ToSet(Endpoints(doc, v2))
<1> DEFINE items == doc.items
           N == Len(items)
           ss == [k \in DOMAIN items |-> OfItem(doc, v2, items[k])]
<1>1. /\ Sequence(items)
      /\ \A item \in ToSet(items) :
           IsParams(item.params) /\ Sequence(item.ops) /\ \A op \in ToSet(item.ops) : IsParams(op.params)
  BY Zenon DEF IsDocument
<1>2. N \in Nat /\ DOMAIN items = 1..N /\ \A k \in 1..N : items[k] \in ToSet(items)
  BY <1>1, SequenceFacts
<1>3. ASSUME NEW k \in 1..N
      PROVE  /\ Sequence(ss[k]) /\ DOMAIN ss[k] = DOMAIN items[k].ops
             /\ \A j \in DOMAIN items[k].ops : ss[k][j] = EndpointOf(doc, v2, items[k], items[k].ops[j])
  <2> DEFINE ops == items[k].ops
             e == OfItem(doc, v2, items[k])
  <2>1. Len(ops) \in Nat /\ DOMAIN ops = 1..Len(ops)
    BY <1>1, <1>2, SequenceFacts
  <2>2. e = [j \in DOMAIN ops |-> EndpointOf(doc, v2, items[k], ops[j])]
    BY DEF OfItem
  <2>3. ss[k] = e
    BY <1>2
  <2> HIDE DEF e, ops, items
  <2>4. e = [j \in 1..Len(ops) |-> e[j]] /\ DOMAIN e = DOMAIN ops
    BY <2>1, <2>2
  <2>5. Sequence(e)
    BY <2>1, <2>4, SequenceByIndex
  <2>6. \A j \in DOMAIN ops : e[j] = EndpointOf(doc, v2, items[k], ops[j])
    BY <2>2
  <2> HIDE DEF ss
  <2> QED BY <2>3, <2>4, <2>5, <2>6 DEF ops
<1>4. Sequence(ss) /\ DOMAIN ss = 1..N
  <2>1. ss = [k \in 1..N |-> ss[k]]
    BY <1>2
  <2> HIDE DEF ss
  <2> QED BY <1>2, <2>1, SequenceByIndex
<1>5. Endpoints(doc, v2) = FlattenSeq(ss)
  BY DEF Endpoints
<1> HIDE DEF ss, N
<1>6. Len(FlattenSeq(ss)) = Cardinality(UNION {{k} \X DOMAIN ss[k] : k \in 1..N})
  BY <1>3, <1>4, FlattenCounts
<1>7. Operations(doc) = UNION {{k} \X DOMAIN ss[k] : k \in 1..N}
  BY <1>2, <1>3 DEF Operations
<1>8. ToSet(FlattenSeq(ss)) = UNION {ToSet(ss[k]) : k \in 1..N}
  BY <1>3, <1>4, FlattenSequences
<1>9. ASSUME NEW o \in Operations(doc)
      PROVE  LET item == items[o[1]]
                 op == item.ops[o[2]]
             IN  /\ IsParams(item.params) /\ IsParams(op.params)
                 /\ EndpointOf(doc, v2, item, op) \in ToSet(FlattenSeq(ss))
  <2>1. PICK k \in 1..N : o \in {k} \X DOMAIN ss[k]
    BY <1>7
  <2>2. o[1] = k /\ o[2] \in DOMAIN ss[k]
    BY <2>1
  <2> DEFINE j == o[2]
             op == items[k].ops[j]
  <2>3. j \in DOMAIN items[k].ops /\ ss[k][j] = EndpointOf(doc, v2, items[k], op)
    BY <1>3, <2>2
  <2>4. IsParams(items[k].params) /\ Sequence(items[k].ops) /\ \A x \in ToSet(items[k].ops) : IsParams(x.params)
    BY <1>1, <1>2
  <2>5. op \in ToSet(items[k].ops)
    BY <2>3, <2>4 DEF ToSet
  <2>6. ss[k][j] \in ToSet(ss[k])
    BY <2>2 DEF ToSet
  <2>7. EndpointOf(doc, v2, items[k], op) \in ToSet(FlattenSeq(ss))
    BY <1>8, <2>3, <2>6
  <2> QED BY <2>2, <2>4, <2>5, <2>7
<1> QED BY <1>5, <1>6, <1>7, <1>9

LEMMA CarriersAreUsable ==
  ASSUME NEW a, IsAnswer(a)
  PROVE  Usable(a) <=> CarriesSpec(a)
<1>1. a.status \in Nat /\ a.second \in Nat
  BY Zenon DEF IsAnswer
<1>2. \A n \in Nat : ~Refused(n) <=> Served(n)
  BY DEF Refused, Served
<1> QED BY <1>1, <1>2, Zenon DEF Usable, CarriesSpec, Loads

\* The probe takes the first location that leads to a specification and reports all
\* its operations, each with the parameters the rule gives it (openapi.Discover).
THEOREM FirstSpecCorrect == Spec => []FirstSpecIsRead
<1>1. ASSUME IsCase(input) PROVE FirstSpecIsRead
  <2> DEFINE answers == input.answers
             found == Discover(answers)
             usable == {k \in DOMAIN answers : Usable(answers[k])}
             carriers == {k \in DOMAIN answers : CarriesSpec(answers[k])}
             k == CHOOSE x \in usable : \A j \in usable : x <= j
             doc == answers[k].doc
             all == Endpoints(doc, doc.swagger)
  <2>1. SUFFICES ASSUME Is("spec") PROVE FirstSpecIsRead
    BY DEF FirstSpecIsRead
  <2>2. Sequence(answers) /\ \A a \in ToSet(answers) : IsAnswer(a)
    BY <1>1, <2>1, CaseOfKind, AlgorithmsAssumption DEF Is
  <2>3. DOMAIN answers = 1..Len(answers) /\ Len(answers) \in Nat /\ \A x \in DOMAIN answers : IsAnswer(answers[x])
    BY <2>2, SequenceFacts
  <2>4. usable = carriers
    BY <2>3, CarriersAreUsable
  <2>5. found = IF usable = {} THEN NoSpec ELSE <<all>>
    BY DEF Discover
  <2>6. EndpointCount(answers) = IF found = NoSpec THEN 0 ELSE Len(found[1])
    BY DEF EndpointCount
  <2>7. CASE carriers = {}
    <3>1. found = NoSpec
      BY <2>4, <2>5, <2>7
    <3> QED BY <2>1, <2>7, <3>1, Zenon DEF FirstSpecIsRead
  <2>8. CASE carriers # {}
    <3>1. k \in usable /\ \A j \in usable : k <= j
      <4>1. usable \subseteq Nat /\ usable # {}
        BY <2>3, <2>4, <2>8
      <4>2. \E x \in usable : \A j \in usable : x <= j
        <5> HIDE DEF usable
        <5> QED BY <4>1, LeastNat
      <4> HIDE DEF usable
      <4> QED BY <4>2
    <3> HIDE DEF k
    <3>2. IsDocument(doc)
      BY <2>3, <3>1, Zenon DEF IsAnswer
    <3> HIDE DEF doc
    <3>3. found = <<all>> /\ found # NoSpec /\ found[1] = all
      <4> HIDE DEF all, usable, carriers, found
      <4>1. found = <<all>>
        BY <2>4, <2>5, <2>8
      <4> QED BY <4>1 DEF NoSpec
    <3>4. EndpointCount(answers) = Len(found[1])
      BY <2>6, <3>3, Zenon
    <3>5. Len(all) = Cardinality(Operations(doc))
      BY <3>2, DocumentRead
    <3> DEFINE Reported(o) ==
                 LET item == doc.items[o[1]]
                     op == item.ops[o[2]]
                     Named(in) == {key[1] : key \in {x \in ParamKeys(doc, item, op) : x[2] = in}}
                 IN  /\ ParamsFollowTheRule(doc, item, op)
                     /\ \E e \in ToSet(all) :
                          /\ <<e.path, e.method>> = <<item.path, op.method>>
                          /\ ToSet(e.pathParams) = Named("path") \ {""}
                          /\ ToSet(e.queryParams) = Named("query") \ {""}
    <3>6. ASSUME NEW o \in Operations(doc) PROVE Reported(o)
      <4> DEFINE item == doc.items[o[1]]
                 op == item.ops[o[2]]
                 merged == MergeParams(doc, item.params, op.params)
                 Named(in) == {key[1] : key \in {x \in ParamKeys(doc, item, op) : x[2] = in}}
                 e == EndpointOf(doc, doc.swagger, item, op)
      <4>1. IsParams(item.params) /\ IsParams(op.params) /\ e \in ToSet(all)
        BY <3>2, DocumentRead
      <4> HIDE DEF item, op, all
      <4>2. ParamsFollowTheRule(doc, item, op) /\ Sequence(merged)
        BY <3>2, <4>1, MergedFollows
      <4>3. {ParamKey(merged[x]) : x \in DOMAIN merged} = ParamKeys(doc, item, op)
        BY <4>2, Zenon DEF ParamsFollowTheRule
      <4>4. /\ e.path = item.path /\ e.method = op.method
            /\ e.pathParams = Bucket(merged, "path") /\ e.queryParams = Bucket(merged, "query")
        BY DEF EndpointOf
      <4> HIDE DEF e, merged
      <4>5. \A in : ToSet(Bucket(merged, in)) = Named(in) \ {""}
        BY <4>2, <4>3, BucketNames, Zenon
      <4> HIDE DEF Named
      <4>6. /\ ToSet(e.pathParams) = Named("path") \ {""}
            /\ ToSet(e.queryParams) = Named("query") \ {""}
        BY <4>4, <4>5, Zenon
      <4>7. <<e.path, e.method>> = <<item.path, op.method>>
        BY <4>4, Zenon
      <4> QED BY <4>1, <4>2, <4>6, <4>7, Zenon DEF Named, item, op
    <3> HIDE DEF Reported
    <3>7. \E x \in carriers :
            LET d == answers[x].doc IN
            /\ found # NoSpec /\ \A j \in carriers : x <= j
            /\ Len(found[1]) = Cardinality(Operations(d))
            /\ EndpointCount(answers) = Len(found[1])
            /\ \A o \in Operations(d) :
                 LET item == d.items[o[1]]
                     op == item.ops[o[2]]
                     Named(in) == {key[1] : key \in {y \in ParamKeys(d, item, op) : y[2] = in}}
                 IN  /\ ParamsFollowTheRule(d, item, op)
                     /\ \E e \in ToSet(found[1]) :
                          /\ <<e.path, e.method>> = <<item.path, op.method>>
                          /\ ToSet(e.pathParams) = Named("path") \ {""}
                          /\ ToSet(e.queryParams) = Named("query") \ {""}
      <4>1. k \in carriers /\ \A j \in carriers : k <= j
        <5> HIDE DEF usable, carriers
        <5> QED BY <2>4, <3>1
      <4> HIDE DEF all, carriers, usable, found
      <4> QED BY <3>3, <3>4, <3>5, <3>6, <4>1, Zenon DEF Reported, doc
    <3> HIDE DEF found, carriers
    <3> QED BY <2>8, <3>7, Zenon DEF FirstSpecIsRead, found, carriers, answers
  <2> QED BY <2>7, <2>8
<1>2. Init => IsCase(input)
  BY DEF Init
<1>3. IsCase(input) /\ [Next]_<<input, writerVars>> => IsCase(input)'
  BY DEF Next
<1> QED BY <1>1, <1>2, <1>3, PTL DEF Spec
-----------------------------------------------------------------------------
(* Repeated measurements.                                                  *)

LEMMA CountsBound ==
  ASSUME NEW s, IsSamples(s), NEW S, S \subseteq DOMAIN s
  PROVE  /\ IsFiniteSet(S) /\ Cardinality(S) \in Nat /\ Cardinality(S) <= Len(s)
         /\ S # DOMAIN s => Cardinality(S) < Len(s)
         /\ S = DOMAIN s => Cardinality(S) = Len(s)
<1>1. Len(s) \in Nat /\ DOMAIN s = 1..Len(s)
  BY SequenceFacts DEF IsSamples
<1>2. IsFiniteSet(DOMAIN s) /\ Cardinality(DOMAIN s) = Len(s)
  <2>1. ASSUME NEW n \in Nat PROVE IsFiniteSet(1..n) /\ Cardinality(1..n) = n
    BY FS_Interval
  <2> QED BY <1>1, <2>1
<1>3. IsFiniteSet(S) /\ Cardinality(S) <= Cardinality(DOMAIN s) /\ (Cardinality(S) = Cardinality(DOMAIN s) => S = DOMAIN s)
  BY <1>2, FS_Subset
<1>4. Cardinality(S) \in Nat
  BY <1>3, FS_CardinalityType
<1> QED BY <1>1, <1>2, <1>3, <1>4

LEMMA CountsGrow ==
  ASSUME NEW s, IsSamples(s), NEW S, NEW T, S \subseteq T, T \subseteq DOMAIN s
  PROVE  /\ Cardinality(S) \in Nat /\ Cardinality(T) \in Nat /\ Cardinality(S) <= Cardinality(T)
         /\ S # T => Cardinality(S) < Cardinality(T)
<1>1. IsFiniteSet(T) /\ Cardinality(T) \in Nat /\ Cardinality(S) \in Nat
  BY CountsBound
<1>2. Cardinality(S) <= Cardinality(T) /\ (Cardinality(S) = Cardinality(T) => S = T)
  BY <1>1, FS_Subset
<1> QED BY <1>1, <1>2

\* How the two counts of the samples below a value compare.
LEMMA Counting ==
  ASSUME NEW s, IsSamples(s), NEW x \in Int, NEW y \in Int
  PROVE  /\ Under(s, x) \in Nat /\ AtMost(s, x) \in Nat
         /\ AtMost(s, x) <= Len(s) /\ Under(s, x) <= AtMost(s, x)
         /\ x <= y => Under(s, x) <= Under(s, y) /\ AtMost(s, x) <= AtMost(s, y)
         /\ x < y => AtMost(s, x) <= Under(s, y)
         /\ Under(s, x) < AtMost(s, x) => x \in ToSet(s)
<1> DEFINE U(v) == {k \in DOMAIN s : s[k] < v}
           A(v) == {k \in DOMAIN s : s[k] <= v}
<1>0. /\ Len(s) \in Nat /\ DOMAIN s = 1..Len(s)
      /\ \A k \in DOMAIN s : s[k] \in ToSet(s) /\ s[k] \in Nat
  BY SequenceFacts DEF IsSamples
<1>1. \A v : U(v) \subseteq DOMAIN s /\ A(v) \subseteq DOMAIN s /\ Under(s, v) = Cardinality(U(v)) /\ AtMost(s, v) = Cardinality(A(v))
  BY DEF Under, AtMost
<1>2. U(x) \subseteq A(x)
  BY <1>0
<1>3. x <= y => U(x) \subseteq U(y) /\ A(x) \subseteq A(y)
  BY <1>0
<1>4. x < y => A(x) \subseteq U(y)
  BY <1>0
<1>5. ASSUME x \notin ToSet(s) PROVE A(x) \subseteq U(x)
  BY <1>0, <1>5
<1> HIDE DEF U, A
<1>6. \A v : Under(s, v) \in Nat /\ AtMost(s, v) \in Nat /\ AtMost(s, v) <= Len(s)
  BY <1>1, CountsBound
<1>7. Under(s, x) <= AtMost(s, x)
  BY <1>1, <1>2, CountsGrow
<1>8. x <= y => Under(s, x) <= Under(s, y) /\ AtMost(s, x) <= AtMost(s, y)
  BY <1>1, <1>3, CountsGrow
<1>9. x < y => AtMost(s, x) <= Under(s, y)
  BY <1>1, <1>4, CountsGrow
<1>10. ASSUME x \notin ToSet(s) PROVE AtMost(s, x) <= Under(s, x)
  BY <1>1, <1>5, <1>10, CountsGrow
<1> QED BY <1>6, <1>7, <1>8, <1>9, <1>10

\* Samples have a bound.
LEMMA SamplesBounded ==
  ASSUME NEW s, IsSamples(s)
  PROVE  \E b \in Nat : \A k \in DOMAIN s : s[k] <= b
<1> DEFINE N == Len(s)
           T == {n \in 0..N : \E b \in Nat : \A k \in 1..n : s[k] <= b}
<1>0. N \in Nat /\ DOMAIN s = 1..N /\ \A k \in 1..N : s[k] \in Nat
  BY SequenceFacts DEF IsSamples
<1> HIDE DEF N
<1>1. 0 \in T
  <2>1. 0 \in 0..N /\ \A k \in 1..0 : s[k] <= 0
    BY <1>0
  <2> QED BY <2>1
<1>2. ASSUME NEW n \in 0..N - 1, n \in T PROVE n + 1 \in T
  <2>1. PICK b \in Nat : \A k \in 1..n : s[k] <= b
    BY <1>2
  <2>2. n + 1 \in 1..N /\ n + 1 \in 0..N /\ \A k \in 1..n + 1 : k \in 1..n \/ k = n + 1
    BY <1>0
  <2>3. s[n + 1] \in Nat /\ \A k \in 1..n : k \in 1..N
    BY <1>0, <2>2
  <2>4. PICK c \in Nat : b <= c /\ s[n + 1] <= c
    <3> DEFINE c == IF b <= s[n + 1] THEN s[n + 1] ELSE b
    <3>1. c \in Nat /\ b <= c /\ s[n + 1] <= c
      BY <2>3
    <3> QED BY <3>1
  <2>5. \A k \in 1..n + 1 : s[k] <= c
    BY <1>0, <2>1, <2>2, <2>3, <2>4
  <2> QED BY <2>2, <2>5
<1>3. \A n \in 0..N : n \in T
  <2> HIDE DEF T
  <2> QED BY <1>0, <1>1, <1>2, PrefixInd
<1>4. N \in T
  <2> HIDE DEF T
  <2> QED BY <1>0, <1>3
<1> QED BY <1>0, <1>4

\* Sorting gives each place a sample of that rank.
LEMMA SortedRanks ==
  ASSUME NEW s, IsSamples(s), NEW k \in DOMAIN s
  PROVE  LET x == Sorted(s)[k] IN x \in Nat /\ x \in ToSet(s) /\ Under(s, x) < k /\ k <= AtMost(s, x)
<1> DEFINE X == {v \in Nat : k <= AtMost(s, v)}
           Holds(x) == x \in ToSet(s) /\ k \in Under(s, x) + 1..AtMost(s, x)
<1>0. /\ Len(s) \in Nat /\ DOMAIN s = 1..Len(s) /\ k \in 1..Len(s) /\ k \in Nat
      /\ \A j \in DOMAIN s : s[j] \in Nat
      /\ ToSet(s) \subseteq Nat
  BY SequenceFacts DEF IsSamples
<1>1. X # {}
  <2>1. PICK b \in Nat : \A j \in DOMAIN s : s[j] <= b
    BY SamplesBounded
  <2>2. {j \in DOMAIN s : s[j] <= b} = DOMAIN s
    BY <2>1
  <2>3. AtMost(s, b) = Len(s)
    BY <2>2, CountsBound DEF AtMost
  <2>4. k <= AtMost(s, b)
    BY <1>0, <2>3
  <2> QED BY <2>4
<1>2. PICK v \in X : \A w \in X : v <= w
  BY <1>1, LeastNat
<1>3. v \in Nat /\ k <= AtMost(s, v)
  BY <1>2
<1>4. Under(s, v) < k
  <2>1. CASE v = 0
    <3>1. {j \in DOMAIN s : s[j] < 0} = {}
      BY <1>0
    <3>2. Under(s, 0) = 0
      BY <3>1, FS_EmptySet DEF Under
    <3> QED BY <1>0, <2>1, <3>2
  <2>2. CASE v # 0
    <3>1. v - 1 \in Nat /\ ~(v <= v - 1)
      BY <1>3, <2>2
    <3>2. ~(k <= AtMost(s, v - 1))
      BY <1>2, <3>1
    <3>3. Under(s, v) = AtMost(s, v - 1)
      <4>1. \A j \in DOMAIN s : s[j] < v <=> s[j] <= v - 1
        BY <1>0, <1>3
      <4>2. {j \in DOMAIN s : s[j] < v} = {j \in DOMAIN s : s[j] <= v - 1}
        BY <4>1
      <4> QED BY <4>2 DEF Under, AtMost
    <3>4. AtMost(s, v - 1) \in Nat
      BY <3>1, Counting
    <3> QED BY <1>0, <3>2, <3>3, <3>4
  <2> QED BY <2>1, <2>2
<1>5. Under(s, v) \in Nat /\ AtMost(s, v) \in Nat
  BY <1>3, Counting
<1>6. v \in ToSet(s)
  <2>1. Under(s, v) < AtMost(s, v)
    BY <1>0, <1>3, <1>4, <1>5
  <2> QED BY <1>3, <2>1, Counting
<1>7. Holds(v)
  BY <1>0, <1>3, <1>4, <1>5, <1>6
<1> DEFINE x == CHOOSE y \in ToSet(s) : k \in Under(s, y) + 1..AtMost(s, y)
<1>8. Sorted(s)[k] = x
  BY DEF Sorted
<1>9. x \in ToSet(s) /\ k \in Under(s, x) + 1..AtMost(s, x)
  BY <1>7
<1> HIDE DEF x
<1>10. x \in Nat
  BY <1>0, <1>9
<1>11. Under(s, x) \in Nat /\ AtMost(s, x) \in Nat
  BY <1>10, Counting
<1>12. Under(s, x) < k /\ k <= AtMost(s, x)
  BY <1>0, <1>9, <1>11
<1> QED BY <1>8, <1>9, <1>10, <1>12

\* The rank that is taken is the nearest one.
Nearest(r, p, n) == r \in 1..n /\ p * n <= 100 * r /\ 100 * (r - 1) < p * n

LEMMA RankIsNearest ==
  ASSUME NEW n \in Nat, n # 0, NEW p \in {50, 90, 95, 99}
  PROVE  Nearest(Clamp(1, Rank(p, n), n), p, n)
<1>1. CASE p = 50
  <2>1. (50 * n + 99) \div 100 \in 1..n /\ 50 * n <= 100 * ((50 * n + 99) \div 100)
        /\ 100 * (((50 * n + 99) \div 100) - 1) < 50 * n
    OBVIOUS
  <2> QED BY <1>1, <2>1 DEF Clamp, Rank, Nearest
<1>2. CASE p = 90
  <2>1. (90 * n + 99) \div 100 \in 1..n /\ 90 * n <= 100 * ((90 * n + 99) \div 100)
        /\ 100 * (((90 * n + 99) \div 100) - 1) < 90 * n
    OBVIOUS
  <2> QED BY <1>2, <2>1 DEF Clamp, Rank, Nearest
<1>3. CASE p = 95
  <2>1. (95 * n + 99) \div 100 \in 1..n /\ 95 * n <= 100 * ((95 * n + 99) \div 100)
        /\ 100 * (((95 * n + 99) \div 100) - 1) < 95 * n
    OBVIOUS
  <2> QED BY <1>3, <2>1 DEF Clamp, Rank, Nearest
<1>4. CASE p = 99
  <2>1. (99 * n + 99) \div 100 \in 1..n /\ 99 * n <= 100 * ((99 * n + 99) \div 100)
        /\ 100 * (((99 * n + 99) \div 100) - 1) < 99 * n
    OBVIOUS
  <2> QED BY <1>4, <2>1 DEF Clamp, Rank, Nearest
<1> QED BY <1>1, <1>2, <1>3, <1>4

LEMMA PercentileIsNearest ==
  ASSUME NEW s, IsSamples(s), s # <<>>, NEW p \in {50, 90, 95, 99}
  PROVE  NearestRank(s, p, Percentile(s, p)) /\ Percentile(s, p) \in Nat
<1> DEFINE n == Len(s)
           r == Clamp(1, Rank(p, n), n)
           x == Sorted(s)[r]
           q == p * n
<1>1. n \in Nat /\ n # 0 /\ DOMAIN s = 1..n
  <2>1. Sequence(s)
    BY DEF IsSamples
  <2>2. Len(s) # 0
    BY <2>1 DEF Sequence
  <2> QED BY <2>1, <2>2, SequenceFacts
<1>2. Percentile(s, p) = x
  BY DEF Percentile
<1>3. r \in 1..n /\ q <= 100 * r /\ 100 * (r - 1) < q /\ q \in Nat
  <2>1. p \in Nat
    OBVIOUS
  <2>2. q \in Nat
    BY <1>1, <2>1
  <2>3. r \in 1..n /\ q <= 100 * r /\ 100 * (r - 1) < q
    <3> HIDE DEF n
    <3>1. Nearest(r, p, n)
      BY <1>1, RankIsNearest
    <3> HIDE DEF r
    <3> QED BY <3>1 DEF Nearest
  <2> QED BY <2>2, <2>3
<1> HIDE DEF r, n
<1>4. x \in Nat /\ Under(s, x) < r /\ r <= AtMost(s, x)
  BY <1>1, <1>3, SortedRanks
<1>5. Under(s, x) \in Nat /\ AtMost(s, x) \in Nat
  BY <1>4, Counting
<1>6. r \in Nat
  BY <1>1, <1>3
<1> HIDE DEF x, q
<1>7. 100 * AtMost(s, x) >= q /\ 100 * Under(s, x) < q
  BY <1>3, <1>4, <1>5, <1>6
<1> QED BY <1>2, <1>4, <1>7 DEF NearestRank, q, n

\* The deviations from a sample are samples too.
LEMMA DeviationsTyped ==
  ASSUME NEW s, IsSamples(s), NEW m \in Nat
  PROVE  LET d == [k \in DOMAIN s |-> Abs(s[k] - m)] IN IsSamples(d) /\ Len(d) = Len(s)
<1> DEFINE n == Len(s)
           d == [k \in DOMAIN s |-> Abs(s[k] - m)]
<1>1. n \in Nat /\ DOMAIN s = 1..n /\ \A k \in 1..n : s[k] \in Nat
  BY SequenceFacts DEF IsSamples
<1>2. \A k \in 1..n : d[k] \in Nat
  BY <1>1 DEF Abs
<1>3. d = [k \in 1..n |-> d[k]] /\ DOMAIN d = 1..n
  BY <1>1
<1> HIDE DEF d, n
<1>4. Sequence(d) /\ Len(d) = n
  BY <1>1, <1>3, SequenceByIndex
<1>5. ToSet(d) \subseteq Nat
  BY <1>2, <1>3 DEF ToSet
<1> QED BY <1>4, <1>5 DEF IsSamples, d, n

LEMMA DeviationIsNearest ==
  ASSUME NEW s, IsSamples(s), s # <<>>
  PROVE  NearestRank([k \in DOMAIN s |-> Abs(s[k] - MetricMedian(s))], 50, MAD(s))
<1> DEFINE m == MetricMedian(s)
           d == [k \in DOMAIN s |-> Abs(s[k] - m)]
<1>1. m \in Nat
  BY PercentileIsNearest DEF MetricMedian
<1> HIDE DEF m
<1>2. IsSamples(d) /\ Len(d) = Len(s)
  BY <1>1, DeviationsTyped
<1>3. d # <<>>
  <2>1. Sequence(s)
    BY DEF IsSamples
  <2>2. Len(s) # 0
    BY <2>1 DEF Sequence
  <2> HIDE DEF d
  <2> QED BY <1>2, <2>2
<1>4. MAD(s) = Percentile(d, 50)
  BY DEF MAD, MetricMedian, m
<1> HIDE DEF d
<1>5. NearestRank(d, 50, Percentile(d, 50))
  BY <1>2, <1>3, PercentileIsNearest
<1> QED BY <1>4, <1>5 DEF d, m

\* Both medians divide the samples in half.
Halves(s, x) == 2 * Under(s, x) <= Len(s) /\ 2 * AtMost(s, x) >= Len(s)

LEMMA MediansHalve ==
  ASSUME NEW s, IsSamples(s), s # <<>>
  PROVE  Halves(s, UpperMedian(s)) /\ Halves(s, MedianDuration(s))
<1> DEFINE n == Len(s)
           h == n \div 2
           low == Sorted(s)[h]
           high == Sorted(s)[h + 1]
<1>1. n \in Nat /\ n # 0 /\ DOMAIN s = 1..n
  <2>1. Sequence(s)
    BY DEF IsSamples
  <2>2. Len(s) # 0
    BY <2>1 DEF Sequence
  <2> QED BY <2>1, <2>2, SequenceFacts
<1> HIDE DEF n
<1>2. h \in Nat /\ h + 1 \in 1..n /\ 2 * h <= n /\ n <= 2 * h + 1 /\ (n % 2 # 1 => h \in 1..n /\ n = 2 * h)
  BY <1>1
<1> HIDE DEF h
<1>3. /\ high \in Nat /\ Under(s, high) < h + 1 /\ h + 1 <= AtMost(s, high)
      /\ Under(s, high) \in Nat /\ AtMost(s, high) \in Nat
  <2>1. high \in Nat /\ Under(s, high) < h + 1 /\ h + 1 <= AtMost(s, high)
    BY <1>1, <1>2, SortedRanks
  <2> HIDE DEF high
  <2> QED BY <2>1, Counting
<1>4. Halves(s, high)
  <2> HIDE DEF high
  <2>1. 2 * Under(s, high) <= n /\ 2 * AtMost(s, high) >= n
    BY <1>1, <1>2, <1>3
  <2> QED BY <2>1 DEF Halves, n
<1>5. UpperMedian(s) = high
  BY DEF UpperMedian, h, n
<1>6. CASE n % 2 = 1
  <2>1. MedianDuration(s) = high
    <3> HIDE DEF high
    <3>1. s # <<>> /\ Len(s) % 2 = 1
      BY <1>6 DEF n
    <3> QED BY <3>1, Zenon DEF MedianDuration, high, h, n
  <2> QED BY <1>4, <1>5, <2>1
<1>7. CASE n % 2 # 1
  <2> DEFINE x == (low + high) \div 2
  <2>1. MedianDuration(s) = x
    <3>1. s # <<>> /\ Len(s) % 2 # 1
      BY <1>7 DEF n
    <3> QED BY <3>1, Zenon DEF MedianDuration, h, n
  <2>2. h \in 1..n /\ n = 2 * h
    BY <1>2, <1>7
  <2>3. low \in Nat /\ Under(s, low) < h /\ h <= AtMost(s, low)
    BY <1>1, <2>2, SortedRanks
  <2> HIDE DEF low, high
  <2>4. Under(s, low) \in Nat /\ AtMost(s, low) \in Nat
    BY <2>3, Counting
  <2>5. low <= high
    <3>1. SUFFICES ASSUME high < low PROVE FALSE
      BY <1>3, <2>3
    <3>2. AtMost(s, high) <= Under(s, low)
      BY <1>3, <2>3, <3>1, Counting
    <3> QED BY <1>2, <1>3, <2>3, <2>4, <3>2
  <2>6. x \in Nat /\ low <= x /\ x <= high
    BY <1>3, <2>3, <2>5
  <2> HIDE DEF x
  <2>7. /\ Under(s, x) \in Nat /\ AtMost(s, x) \in Nat
        /\ Under(s, x) <= Under(s, high) /\ AtMost(s, low) <= AtMost(s, x)
    BY <1>3, <2>3, <2>6, Counting
  <2>8. 2 * Under(s, x) <= n /\ 2 * AtMost(s, x) >= n
    BY <1>2, <1>3, <2>2, <2>3, <2>4, <2>7
  <2>9. Halves(s, x)
    BY <2>8 DEF Halves, n
  <2> QED BY <1>4, <1>5, <2>1, <2>9
<1> QED BY <1>6, <1>7

\* One bad run among good ones is neither passed nor failed.
LEMMA VerdictIs ==
  ASSUME NEW runs, IsRuns(runs)
  PROVE  LET bad == {k \in DOMAIN runs : ~runs[k].passed}
             verdict == Verdict([k \in DOMAIN runs |-> runs[k].passed])
         IN  /\ (verdict = "FLAKY") = (bad # {} /\ bad # DOMAIN runs)
             /\ verdict = "PASS" => bad = {} /\ runs # <<>>
<1> DEFINE bad == {k \in DOMAIN runs : ~runs[k].passed}
           passed == [k \in DOMAIN runs |-> runs[k].passed]
           good == {k \in DOMAIN passed : passed[k]}
           N == Len(runs)
           n == Cardinality(good)
<1>1. N \in Nat /\ DOMAIN runs = 1..N /\ \A k \in 1..N : runs[k].passed \in BOOLEAN
  BY SequenceFacts DEF IsRuns
<1>2. DOMAIN passed = 1..N /\ Len(passed) = N
  <2>1. passed = [k \in 1..N |-> passed[k]] /\ DOMAIN passed = 1..N
    BY <1>1
  <2> HIDE DEF passed, N
  <2> QED BY <1>1, <2>1, SequenceByIndex
<1>3. good \subseteq 1..N /\ (bad = {} <=> good = 1..N) /\ (bad = DOMAIN runs <=> good = {})
  BY <1>1, Zenon
<1> HIDE DEF good, bad, N
<1>4. /\ IsFiniteSet(1..N) /\ Cardinality(1..N) = N
  <2>1. ASSUME NEW m \in Nat PROVE IsFiniteSet(1..m) /\ Cardinality(1..m) = m
    BY FS_Interval
  <2> QED BY <1>1, <2>1
<1>5. IsFiniteSet(good) /\ n <= N /\ (n = N <=> good = 1..N)
  BY <1>3, <1>4, FS_Subset
<1>6. n \in Nat /\ (n = 0 <=> good = {})
  BY <1>5, FS_CardinalityType, FS_EmptySet
<1> DEFINE verdict == Verdict(passed)
<1> HIDE DEF n
<1>7. /\ N = 0 => verdict = "FAIL"
      /\ N # 0 /\ n = N => verdict = "PASS"
      /\ N # 0 /\ n = 0 => verdict = "FAIL"
      /\ N # 0 /\ n # N /\ n # 0 => verdict = "FLAKY"
  <2> DEFINE L == Len(passed)
  <2>0. L = N
    BY <1>2
  <2> HIDE DEF L, passed
  <2>1. verdict = CASE L = 0 -> "FAIL" [] n = L /\ n > 0 -> "PASS"
                    [] n = 0 /\ L > 0 -> "FAIL" [] OTHER -> "FLAKY"
    BY DEF Verdict, n, good, L
  <2> HIDE DEF verdict
  <2> QED BY <1>1, <1>5, <1>6, <2>0, <2>1
<1> HIDE DEF verdict
<1>8. verdict = "FLAKY" <=> bad # {} /\ bad # DOMAIN runs
  <2>1. N = 0 => 1..N = {}
    BY <1>1
  <2> QED BY <1>3, <1>5, <1>6, <1>7, <2>1
<1>9. ASSUME verdict = "PASS" PROVE bad = {} /\ runs # <<>>
  <2>1. N # 0 /\ n = N
    BY <1>7, <1>9
  <2>2. runs # <<>>
    BY <2>1 DEF N
  <2> QED BY <1>3, <1>5, <2>1, <2>2
<1>10. (verdict = "FLAKY") = (bad # {} /\ bad # DOMAIN runs)
  BY <1>8
<1> QED BY <1>9, <1>10 DEF bad, verdict

\* The effect size of two tools is that of the other way around, reversed.
Label(size, pairs) ==
  CASE pairs = 0 \/ 1000 * size < 147 * pairs -> "negligible"
    [] 1000 * size < 330 * pairs /\ 1000 * size >= 147 * pairs -> "small"
    [] 1000 * size < 474 * pairs /\ 1000 * size >= 330 * pairs -> "medium"
    [] OTHER -> "large"

LEMMA LabelOfSize ==
  ASSUME NEW d
  PROVE  EffectLabel(d) = Label(Abs(d[1]), d[2])
BY Zenon DEF EffectLabel, Label

LEMMA PairsFinite ==
  ASSUME NEW s, IsSamples(s), NEW t, IsSamples(t)
  PROVE  /\ Wins(s, t) \in Nat /\ Len(s) * Len(t) \in Nat
         /\ (\A x \in ToSet(s), y \in ToSet(t) : x > y) => Wins(s, t) = Len(s) * Len(t)
         /\ (\A x \in ToSet(s), y \in ToSet(t) : y >= x) => Wins(s, t) = 0
<1> DEFINE All == (DOMAIN s) \X (DOMAIN t)
           Won == {p \in All : s[p[1]] > t[p[2]]}
<1>1. /\ Len(s) \in Nat /\ DOMAIN s = 1..Len(s) /\ Len(t) \in Nat /\ DOMAIN t = 1..Len(t)
      /\ \A k \in DOMAIN s : s[k] \in ToSet(s) /\ s[k] \in Nat
      /\ \A k \in DOMAIN t : t[k] \in ToSet(t) /\ t[k] \in Nat
  BY SequenceFacts DEF IsSamples
<1>2. /\ IsFiniteSet(DOMAIN s) /\ Cardinality(DOMAIN s) = Len(s)
      /\ IsFiniteSet(DOMAIN t) /\ Cardinality(DOMAIN t) = Len(t)
  <2>1. ASSUME NEW n \in Nat PROVE IsFiniteSet(1..n) /\ Cardinality(1..n) = n
    BY FS_Interval
  <2> QED BY <1>1, <2>1
<1>3. IsFiniteSet(All) /\ Cardinality(All) = Len(s) * Len(t)
  <2>1. IsFiniteSet(All) /\ Cardinality(All) = Cardinality(DOMAIN s) * Cardinality(DOMAIN t)
    BY <1>2, FS_Product
  <2> HIDE DEF All
  <2> QED BY <1>2, <2>1
<1>4. Wins(s, t) = Cardinality(Won)
  BY DEF Wins
<1>5. \A p \in All : /\ s[p[1]] \in ToSet(s) /\ s[p[1]] \in Nat /\ t[p[2]] \in ToSet(t) /\ t[p[2]] \in Nat
  BY <1>1
<1>6. ASSUME \A x \in ToSet(s), y \in ToSet(t) : x > y PROVE Won = All
  <2> HIDE DEF All
  <2> QED BY <1>5, <1>6
<1>7. ASSUME \A x \in ToSet(s), y \in ToSet(t) : y >= x PROVE Won = {}
  <2> HIDE DEF All
  <2> QED BY <1>5, <1>7
<1>8. Won \subseteq All
  OBVIOUS
<1> HIDE DEF All, Won
<1>9. IsFiniteSet(Won)
  BY <1>3, <1>8, FS_Subset
<1>10. Cardinality(Won) \in Nat /\ Cardinality(All) \in Nat
  BY <1>3, <1>9, FS_CardinalityType
<1>11. Cardinality({}) = 0
  BY FS_EmptySet
<1>12. Wins(s, t) \in Nat /\ Len(s) * Len(t) \in Nat
  BY <1>3, <1>4, <1>10
<1>13. (\A x \in ToSet(s), y \in ToSet(t) : x > y) => Wins(s, t) = Len(s) * Len(t)
  BY <1>3, <1>4, <1>6
<1>14. (\A x \in ToSet(s), y \in ToSet(t) : y >= x) => Wins(s, t) = 0
  BY <1>4, <1>7, <1>11
<1> QED BY <1>12, <1>13, <1>14

LEMMA EffectIs ==
  ASSUME NEW s, IsSamples(s), NEW t, IsSamples(t)
  PROVE  /\ CliffsDelta(s, t)[1] = -CliffsDelta(t, s)[1]
         /\ EffectLabel(CliffsDelta(s, t)) = EffectLabel(CliffsDelta(t, s))
         /\ s # <<>> /\ t # <<>> /\ (\A x \in ToSet(s), y \in ToSet(t) : x > y)
              => EffectLabel(CliffsDelta(s, t)) = "large"
<1> DEFINE v == Wins(s, t)
           w == Wins(t, s)
           n == Len(s)
           m == Len(t)
           d == CliffsDelta(s, t)
           e == CliffsDelta(t, s)
<1>1. d[1] = v - w /\ e[1] = w - v /\ d[2] = n * m /\ e[2] = m * n
  BY DEF CliffsDelta
<1>2. v \in Nat /\ w \in Nat /\ n * m \in Nat
  BY PairsFinite
<1>3. n \in Nat /\ m \in Nat
  BY SequenceFacts DEF IsSamples
<1> HIDE DEF d, e, v, w
<1>4. d[1] = -e[1] /\ Abs(d[1]) = Abs(e[1])
  BY <1>1, <1>2 DEF Abs
<1>5. d[2] = e[2]
  <2>1. n * m = m * n
    <3> HIDE DEF n, m
    <3> QED BY <1>3
  <2> QED BY <1>1, <2>1
<1>6. ASSUME s # <<>>, t # <<>>, \A x \in ToSet(s), y \in ToSet(t) : x > y
      PROVE  EffectLabel(d) = "large"
  <2> DEFINE P == n * m
  <2>1. n # 0 /\ m # 0
    <3>1. Sequence(s) /\ Sequence(t)
      BY DEF IsSamples
    <3> QED BY <1>6, <3>1 DEF Sequence
  <2>2. P # 0
    <3> HIDE DEF n, m
    <3> QED BY <1>3, <2>1
  <2>3. v = P
    BY <1>6, PairsFinite DEF v
  <2>4. w = 0
    <3>1. \A x \in ToSet(t), y \in ToSet(s) : y >= x
      <4>1. \A x \in ToSet(t), y \in ToSet(s) : x \in Nat /\ y \in Nat
        BY DEF IsSamples
      <4> QED BY <1>6, <4>1
    <3> QED BY <3>1, PairsFinite DEF w
  <2>5. P \in Nat
    BY <1>2
  <2>6. d[1] = P /\ d[2] = P
    BY <1>1, <2>3, <2>4, <2>5
  <2> HIDE DEF P
  <2>7. Abs(d[1]) = P
    BY <2>5, <2>6 DEF Abs
  <2>8. Label(P, P) = "large"
    BY <2>2, <2>5 DEF Label
  <2> QED BY <2>6, <2>7, <2>8, LabelOfSize, Zenon
<1>7. EffectLabel(d) = EffectLabel(e)
  BY <1>4, <1>5, LabelOfSize, Zenon
<1> QED BY <1>4, <1>6, <1>7 DEF d, e

\* Failing runs missed the same paths when none differs from the first.
LEMMA MissingIs ==
  ASSUME NEW runs, IsRuns(runs)
  PROVE  LET missing == SummarizeMissing(runs)
             bad == {k \in DOMAIN runs : ~runs[k].passed}
         IN  /\ missing.consistent = (bad # {} /\ \A j, k \in bad : runs[j].missing = runs[k].missing)
             /\ \A k \in bad : runs[k].missing \subseteq missing.union
<1> DEFINE bad == {k \in DOMAIN runs : ~runs[k].passed}
           least == CHOOSE k \in bad : \A j \in bad : k <= j
           M(k) == runs[k].missing
           Same(k) == Cardinality(M(k)) = Cardinality(M(least)) /\ M(k) \subseteq M(least)
           missing == SummarizeMissing(runs)
<1>1. /\ missing.union = UNION {M(k) : k \in bad}
      /\ missing.consistent = (bad # {} /\ \A k \in bad : Same(k))
  BY DEF SummarizeMissing
<1>2. /\ Len(runs) \in Nat /\ DOMAIN runs = 1..Len(runs)
      /\ \A k \in DOMAIN runs : IsFiniteSet(M(k))
  BY SequenceFacts DEF IsRuns
<1>3. bad \subseteq Nat /\ bad \subseteq DOMAIN runs
  BY <1>2
<1> HIDE DEF bad, missing
<1>4. ASSUME bad # {} PROVE least \in bad
  <2>1. \E k \in bad : \A j \in bad : k <= j
    BY <1>3, <1>4, LeastNat
  <2> QED BY <2>1
<1> HIDE DEF least, M
<1>5. ASSUME bad # {}, NEW k \in bad PROVE Same(k) <=> M(k) = M(least)
  <2>1. IsFiniteSet(M(least)) /\ IsFiniteSet(M(k))
    BY <1>2, <1>3, <1>4, <1>5
  <2>2. ASSUME Same(k) PROVE M(k) = M(least)
    BY <2>1, <2>2, FS_Subset
  <2> QED BY <2>2
<1>6. (bad # {} /\ \A k \in bad : Same(k)) <=> (bad # {} /\ \A j, k \in bad : M(j) = M(k))
  <2> HIDE DEF Same
  <2> QED BY <1>4, <1>5
<1>7. missing.consistent = (bad # {} /\ \A j, k \in bad : M(j) = M(k))
  BY <1>1, <1>6
<1>8. \A k \in bad : M(k) \subseteq missing.union
  BY <1>1
<1> QED BY <1>7, <1>8 DEF bad, missing, M

\* A nonempty set of naturals with a bound has a greatest element.
LEMMA GreatestNat ==
  ASSUME NEW T, T \subseteq Nat, T # {}, NEW b \in Nat, \A x \in T : x <= b
  PROVE  \E n \in T : \A m \in T : m <= n
<1> DEFINE U == {n \in Nat : \A x \in T : x <= n}
<1>1. U \subseteq Nat /\ U # {}
  OBVIOUS
<1>2. PICK n \in U : \A m \in U : n <= m
  BY <1>1, LeastNat
<1>3. n \in T
  <2>1. SUFFICES ASSUME n \notin T PROVE FALSE
    OBVIOUS
  <2>2. PICK x \in T : TRUE
    OBVIOUS
  <2>3. x \in Nat /\ x <= n /\ x # n /\ n \in Nat
    BY <1>2, <2>1, <2>2
  <2>4. n - 1 \in Nat /\ ~(n <= n - 1)
    BY <2>3
  <2>5. \A y \in T : y <= n - 1
    BY <1>2, <2>1
  <2>6. n - 1 \in U
    BY <2>4, <2>5
  <2> QED BY <1>2, <2>4, <2>6
<1> QED BY <1>2, <1>3

\* Growth is from the nearest measured point before.
LEMMA RatioIs ==
  ASSUME NEW points, Ascending(points), NEW k \in DOMAIN points
  PROVE  LET measured == {j \in DOMAIN points : ~points[j].excluded}
             r == RatioAt(points, k)
             has == k \in measured /\ \E j \in measured : j < k
         IN  /\ Sequence(r) /\ (has => DOMAIN r = {1}) /\ (~has => DOMAIN r = {})
             /\ \A x \in ToSet(r) : /\ x.from < x.to
                                    /\ ~\E j \in measured : points[j].scale \in x.from + 1..x.to - 1
<1> DEFINE N == Len(points)
           measured == {j \in DOMAIN points : ~points[j].excluded}
           earlier == {j \in measured : j < k}
           i == CHOOSE j \in earlier : \A l \in earlier : l <= j
           r == RatioAt(points, k)
           one == [from |-> points[i].scale, to |-> points[k].scale, is |-> ClassifyRatio(points[i], points[k])]
           has == k \in measured /\ \E j \in measured : j < k
<1>1. /\ N \in Nat /\ DOMAIN points = 1..N /\ \A j \in 1..N : points[j].scale \in Nat
      /\ \A j, l \in 1..N : j < l => points[j].scale < points[l].scale
  BY SequenceFacts DEF Ascending
<1>2. measured \subseteq 1..N
  BY <1>1
<1>3. r = IF k \notin measured \/ earlier = {} THEN <<>> ELSE <<one>>
  BY DEF RatioAt, Measured
<1>4. CASE ~has
  <2>1. r = <<>>
    <3>1. k \notin measured \/ earlier = {}
      BY <1>4
    <3> HIDE DEF r, one, measured, earlier
    <3> QED BY <1>3, <3>1
  <2>2. Sequence(<<>>) /\ ToSet(<<>>) = {} /\ DOMAIN <<>> = {}
    <3>1. DOMAIN <<>> = {}
      OBVIOUS
    <3> QED BY <3>1, ShortSequences
  <2> HIDE DEF r, has, measured
  <2>3. Sequence(r) /\ DOMAIN r = {} /\ ToSet(r) = {}
    BY <2>1, <2>2
  <2> QED BY <1>4, <2>3 DEF r, has, measured
<1>5. CASE has
  <2>1. r = <<one>>
    <3> HIDE DEF r, one
    <3> QED BY <1>3, <1>5
  <2>2. Sequence(r) /\ ToSet(r) = {one} /\ DOMAIN r = {1}
    <3> HIDE DEF one, r
    <3>1. Sequence(<<one>>) /\ ToSet(<<one>>) = {one} /\ DOMAIN <<one>> = {1}
      BY ShortSequences
    <3> QED BY <2>1, <3>1
  <2>3. i \in earlier /\ \A l \in earlier : l <= i
    <3>1. earlier \subseteq Nat /\ earlier # {} /\ k \in Nat /\ \A x \in earlier : x <= k
      BY <1>1, <1>2, <1>5
    <3> HIDE DEF earlier
    <3>2. \E j \in earlier : \A l \in earlier : l <= j
      BY <3>1, GreatestNat
    <3> QED BY <3>2
  <2> HIDE DEF i, r
  <2>4. i \in 1..N /\ k \in 1..N /\ i < k
    BY <1>1, <1>2, <2>3
  <2>5. points[i].scale < points[k].scale
    BY <1>1, <2>4
  <2>6. ASSUME NEW j \in measured, points[j].scale \in points[i].scale + 1..points[k].scale - 1
        PROVE  FALSE
    <3>1. j \in 1..N
      BY <1>2
    <3>2. points[i].scale < points[j].scale /\ points[j].scale < points[k].scale
      BY <1>1, <2>4, <2>6, <3>1
    <3>3. ~(j < i) /\ j # i /\ ~(k < j) /\ j # k
      BY <1>1, <2>4, <3>1, <3>2
    <3>4. j < k /\ i < j
      BY <1>1, <2>4, <3>1, <3>3
    <3>5. j \in earlier
      BY <3>4
    <3> QED BY <1>1, <2>3, <2>4, <3>1, <3>4, <3>5
  <2>7. one.from = points[i].scale /\ one.to = points[k].scale
    OBVIOUS
  <2> HIDE DEF one, has, measured
  <2>8. \A x \in ToSet(r) : x.from < x.to /\ ~\E j \in measured : points[j].scale \in x.from + 1..x.to - 1
    BY <2>2, <2>5, <2>6, <2>7
  <2> QED BY <1>5, <2>2, <2>8 DEF r, has, measured
<1> QED BY <1>4, <1>5

LEMMA RatiosCounted ==
  ASSUME NEW points, Ascending(points)
  PROVE  LET measured == {k \in DOMAIN points : ~points[k].excluded}
             ratios == ScalingRatios(points)
         IN  /\ Len(ratios) = IF measured = {} THEN 0 ELSE Cardinality(measured) - 1
             /\ \A r \in ToSet(ratios) :
                  /\ r.from < r.to
                  /\ ~\E k \in measured : points[k].scale \in r.from + 1..r.to - 1
<1> DEFINE N == Len(points)
           measured == {k \in DOMAIN points : ~points[k].excluded}
           ss == [k \in DOMAIN points |-> RatioAt(points, k)]
           Joins(k) == k \in measured /\ \E j \in measured : j < k
           later == {k \in measured : Joins(k)}
           Adjacent(r) == /\ r.from < r.to
                          /\ ~\E k \in measured : points[k].scale \in r.from + 1..r.to - 1
<1>1. N \in Nat /\ DOMAIN points = 1..N
  BY SequenceFacts DEF Ascending
<1>2. ASSUME NEW k \in 1..N
      PROVE  /\ Sequence(ss[k]) /\ (Joins(k) => DOMAIN ss[k] = {1}) /\ (~Joins(k) => DOMAIN ss[k] = {})
             /\ \A r \in ToSet(ss[k]) : Adjacent(r)
  <2>1. ss[k] = RatioAt(points, k)
    BY <1>1
  <2> HIDE DEF ss
  <2>2. k \in DOMAIN points
    BY <1>1
  <2> QED BY <2>1, <2>2, RatioIs
<1>3. Sequence(ss) /\ DOMAIN ss = 1..N
  <2>1. ss = [k \in 1..N |-> ss[k]]
    BY <1>1
  <2> HIDE DEF ss, N
  <2> QED BY <1>1, <2>1, SequenceByIndex
<1>4. ScalingRatios(points) = FlattenSeq(ss)
  BY DEF ScalingRatios
<1>5. measured \subseteq 1..N
  BY <1>1
<1> HIDE DEF ss, N, measured, Adjacent
<1>6. ASSUME NEW r \in ToSet(ScalingRatios(points)) PROVE Adjacent(r)
  <2>1. ToSet(FlattenSeq(ss)) = UNION {ToSet(ss[k]) : k \in 1..N}
    BY <1>2, <1>3, FlattenSequences
  <2>2. PICK k \in 1..N : r \in ToSet(ss[k])
    BY <1>4, <2>1
  <2> QED BY <1>2, <2>2
<1>7. Len(FlattenSeq(ss)) = Cardinality(UNION {{k} \X DOMAIN ss[k] : k \in 1..N})
  BY <1>2, <1>3, FlattenCounts
<1>8. UNION {{k} \X DOMAIN ss[k] : k \in 1..N} = later \X {1}
  <2>1. ASSUME NEW k \in 1..N PROVE \A x : x \in {k} \X DOMAIN ss[k] <=> Joins(k) /\ x = <<k, 1>>
    <3>1. CASE Joins(k)
      <4>1. DOMAIN ss[k] = {1}
        BY <1>2, <3>1
      <4> HIDE DEF Joins
      <4> QED BY <3>1, <4>1
    <3>2. CASE ~Joins(k)
      <4>1. DOMAIN ss[k] = {}
        BY <1>2, <3>2
      <4> HIDE DEF Joins
      <4> QED BY <3>2, <4>1
    <3> QED BY <3>1, <3>2
  <2>2. later = {k \in 1..N : Joins(k)}
    BY <1>5
  <2> HIDE DEF Joins, later
  <2>3. ASSUME NEW x \in UNION {{k} \X DOMAIN ss[k] : k \in 1..N} PROVE x \in later \X {1}
    BY <2>1, <2>2
  <2>4. ASSUME NEW x \in later \X {1} PROVE x \in UNION {{k} \X DOMAIN ss[k] : k \in 1..N}
    <3>1. PICK k \in 1..N : Joins(k) /\ x = <<k, 1>>
      BY <2>2
    <3>2. x \in {k} \X DOMAIN ss[k]
      BY <2>1, <3>1
    <3> QED BY <3>2
  <2> QED BY <2>3, <2>4
<1>9. IsFiniteSet(measured)
  <2>1. ASSUME NEW n \in Nat PROVE IsFiniteSet(1..n)
    BY FS_Interval
  <2>2. IsFiniteSet(1..N)
    BY <1>1, <2>1
  <2> QED BY <1>5, <2>2, FS_Subset
<1>10. IsFiniteSet(later) /\ Cardinality(later) \in Nat
  <2>1. later \subseteq measured
    OBVIOUS
  <2> HIDE DEF later
  <2> QED BY <1>9, <2>1, FS_Subset, FS_CardinalityType
<1>11. Cardinality(later \X {1}) = Cardinality(later)
  <2>1. IsFiniteSet({1}) /\ Cardinality({1}) = 1
    BY FS_Singleton
  <2>2. Cardinality(later \X {1}) = Cardinality(later) * Cardinality({1})
    <3> HIDE DEF later
    <3> QED BY <1>10, <2>1, FS_Product
  <2> HIDE DEF later
  <2> QED BY <1>10, <2>1, <2>2
<1>12. CASE measured = {}
  <2>1. later = {}
    BY <1>12
  <2>2. Cardinality(later) = 0
    BY <2>1, FS_EmptySet
  <2> HIDE DEF later
  <2>3. Len(ScalingRatios(points)) = 0
    BY <1>4, <1>7, <1>8, <1>11, <2>2
  <2> QED BY <1>6, <1>12, <2>3 DEF measured, Adjacent
<1>13. CASE measured # {}
  <2>1. measured \subseteq Nat
    BY <1>1, <1>5
  <2>2. PICK least \in measured : \A k \in measured : least <= k
    BY <1>13, <2>1, LeastNat
  <2>3. later = measured \ {least}
    <3>1. ASSUME NEW k \in measured PROVE Joins(k) <=> k # least
      BY <2>1, <2>2
    <3> HIDE DEF Joins
    <3> QED BY <3>1
  <2> HIDE DEF later
  <2>4. Cardinality(later) = Cardinality(measured) - 1
    BY <1>9, <2>2, <2>3, FS_RemoveElement
  <2>5. Len(ScalingRatios(points)) = Cardinality(measured) - 1
    BY <1>4, <1>7, <1>8, <1>11, <2>4
  <2> QED BY <1>6, <1>13, <2>5 DEF measured, Adjacent
<1> QED BY <1>12, <1>13

\* What the report says of repeated runs is what the samples say (stats.go,
\* pairwise.go, competitor.go, scale_stats.go).
THEOREM StatisticsCorrect == Spec => []StatisticsMatchDefinitions
<1>1. ASSUME IsCase(input) PROVE StatisticsMatchDefinitions
  <2> DEFINE s == input.a
             t == input.b
             m == MetricMedian(s)
             runs == input.runs
             points == input.points
             missing == SummarizeMissing(runs)
             bad == {k \in DOMAIN runs : ~runs[k].passed}
             passed == [k \in DOMAIN runs |-> runs[k].passed]
             measured == {k \in DOMAIN points : ~points[k].excluded}
             ratios == ScalingRatios(points)
  <2>1. SUFFICES ASSUME Is("samples") PROVE StatisticsMatchDefinitions
    BY DEF StatisticsMatchDefinitions
  <2>2. IsSamples(s) /\ IsSamples(t) /\ IsRuns(runs) /\ Ascending(points)
    BY <1>1, <2>1, CaseOfKind, AlgorithmsAssumption DEF Is
  <2>3. s # <<>> =>
          /\ \A p \in {50, 90, 95, 99} : NearestRank(s, p, Percentile(s, p))
          /\ NearestRank([k \in DOMAIN s |-> Abs(s[k] - m)], 50, MAD(s))
    <3>1. ASSUME s # <<>>, NEW p \in {50, 90, 95, 99} PROVE NearestRank(s, p, Percentile(s, p))
      <4> HIDE DEF s
      <4> QED BY <2>2, <3>1, PercentileIsNearest
    <3>2. ASSUME s # <<>>
          PROVE  NearestRank([k \in DOMAIN s |-> Abs(s[k] - MetricMedian(s))], 50, MAD(s))
      <4> HIDE DEF s
      <4> QED BY <2>2, <3>2, DeviationIsNearest
    <3> HIDE DEF s
    <3> QED BY <3>1, <3>2, Zenon
  <2>4. s # <<>> => \A x \in {UpperMedian(s), MedianDuration(s)} :
                      2 * Under(s, x) <= Len(s) /\ 2 * AtMost(s, x) >= Len(s)
    BY <2>2, MediansHalve, Zenon DEF Halves
  <2>5. /\ (Verdict(passed) = "FLAKY") = (bad # {} /\ bad # DOMAIN runs)
        /\ Verdict(passed) = "PASS" => bad = {} /\ runs # <<>>
    BY <2>2, VerdictIs, Zenon
  <2>6. /\ CliffsDelta(s, t)[1] = -CliffsDelta(t, s)[1]
        /\ EffectLabel(CliffsDelta(s, t)) = EffectLabel(CliffsDelta(t, s))
        /\ s # <<>> /\ t # <<>> /\ (\A x \in ToSet(s), y \in ToSet(t) : x > y)
             => EffectLabel(CliffsDelta(s, t)) = "large"
    BY <2>2, EffectIs, Zenon
  <2>7. /\ missing.consistent = (bad # {} /\ \A j, k \in bad : runs[j].missing = runs[k].missing)
        /\ \A k \in bad : runs[k].missing \subseteq missing.union
    BY <2>2, MissingIs, Zenon
  <2>8. /\ Len(ratios) = IF measured = {} THEN 0 ELSE Cardinality(measured) - 1
        /\ \A r \in ToSet(ratios) :
             /\ r.from < r.to
             /\ ~\E k \in measured : points[k].scale \in r.from + 1..r.to - 1
    BY <2>2, RatiosCounted, Zenon
  <2> QED BY <2>3, <2>4, <2>5, <2>6, <2>7, <2>8, Zenon DEF StatisticsMatchDefinitions
<1>2. Init => IsCase(input)
  BY DEF Init
<1>3. IsCase(input) /\ [Next]_<<input, writerVars>> => IsCase(input)'
  BY DEF Next
<1> QED BY <1>1, <1>2, <1>3, PTL DEF Spec
-----------------------------------------------------------------------------
(* The command line.                                                       *)

\* What the flags hold to begin with.
LEMMA KindsOfFlags ==
  /\ \A f \in DOMAIN Kind : Kind[f] \in {"bool", "int", "string", "header"}
  /\ Kind["header"] = "header" /\ "header" \in DOMAIN Kind
  /\ \A f \in DOMAIN Kind : (Kind[f] = "int") = (f \in Amounts) /\ (Kind[f] = "bool") = (f \in Toggles)
BY DEF Kind, Toggles, Amounts

LEMMA DefaultsTyped ==
  /\ DOMAIN Defaults = DOMAIN Kind /\ Defaults = [f \in DOMAIN Kind |-> Defaults[f]]
  /\ \A f \in Amounts : Defaults[f] \in Int
  /\ \A f \in Toggles : Defaults[f] \in BOOLEAN
  /\ Defaults["header"] = <<>>
<1> DEFINE D(f) == CASE f \in Toggles -> f = "same-origin"
                     [] f \in Amounts -> DefaultAmount(f)
                     [] f = "output" -> ""
                     [] f = "header" -> <<>>
<1>1. Defaults = [f \in DOMAIN Kind |-> D(f)]
  BY DEF Defaults
<1>2. /\ \A f \in Amounts : f \notin Toggles /\ f # "output" /\ f # "header" /\ f \in DOMAIN Kind
      /\ \A f \in Toggles : f \notin Amounts /\ f # "output" /\ f # "header" /\ f \in DOMAIN Kind
      /\ "header" \notin Amounts /\ "header" \notin Toggles /\ "header" \in DOMAIN Kind
  BY DEF Kind, Toggles, Amounts
<1>3. ASSUME NEW f \in Amounts PROVE D(f) = DefaultAmount(f)
  BY <1>2
<1>4. ASSUME NEW f \in Toggles PROVE D(f) = (f = "same-origin")
  BY <1>2
<1>5. D("header") = <<>>
  BY <1>2, Zenon
<1>6. ASSUME NEW f \in Amounts PROVE DefaultAmount(f) \in Int
  BY DEF Amounts, DefaultAmount
<1> HIDE DEF D
<1>7. DOMAIN Defaults = DOMAIN Kind /\ Defaults = [f \in DOMAIN Kind |-> Defaults[f]]
  BY <1>1
<1>8. \A f \in Amounts : Defaults[f] = DefaultAmount(f)
  BY <1>1, <1>2, <1>3
<1>9. \A f \in Toggles : Defaults[f] = (f = "same-origin")
  BY <1>1, <1>2, <1>4
<1>10. Defaults["header"] = <<>>
  BY <1>1, <1>2, <1>5
<1>11. \A f \in Toggles : Defaults[f] \in BOOLEAN
  BY <1>9, Zenon
<1> QED BY <1>6, <1>7, <1>8, <1>10, <1>11

\* The roles of the arguments.
RoleNames == {"word", "value", "end", "rest", "unknown", "whole", "takes"}

LEMMA RoleIs ==
  ASSUME NEW b \in RoleNames, NEW a
  PROVE  LET r == RoleAfter(b, a) IN
         /\ r \in RoleNames
         /\ b \in {"end", "rest"} => r = "rest"
         /\ b = "takes" => r = "value"
         /\ b \notin {"end", "rest", "takes"} =>
              /\ IsWord(a) => r = "word"
              /\ ~IsWord(a) /\ Terminator(a) => r = "end"
              /\ ~IsWord(a) /\ ~Terminator(a) =>
                   /\ a.name \notin DOMAIN Kind => r = "unknown"
                   /\ a.name \in DOMAIN Kind /\ (a.eq \/ Kind[a.name] = "bool") => r = "whole"
                   /\ a.name \in DOMAIN Kind /\ ~(a.eq \/ Kind[a.name] = "bool") => r = "takes"
<1>1. CASE b \in {"end", "rest"}
  BY <1>1 DEF RoleAfter, RoleNames
<1>2. CASE b = "takes"
  BY <1>2 DEF RoleAfter, RoleNames
<1>3. CASE b \notin {"end", "rest", "takes"}
  <2>1. CASE IsWord(a)
    BY <1>3, <2>1 DEF RoleAfter, RoleNames
  <2>2. CASE ~IsWord(a) /\ Terminator(a)
    BY <1>3, <2>2 DEF RoleAfter, RoleNames
  <2>3. CASE ~IsWord(a) /\ ~Terminator(a)
    BY <1>3, <2>3 DEF RoleAfter, RoleNames
  <2> QED BY <2>1, <2>2, <2>3
<1> QED BY <1>1, <1>2, <1>3

LEMMA RolesRun ==
  ASSUME NEW args, Sequence(args)
  PROVE  LET role == Roles(args) IN
         /\ role[0] = "word" /\ \A n \in 0..Len(args) : role[n] \in RoleNames
         /\ \A n \in 1..Len(args) : role[n] = RoleAfter(role[n - 1], args[n])
<1> DEFINE N == Len(args)
           S == RoleNames
           G == [n \in 1..N |-> [b \in S |-> RoleAfter(b, args[n])]]
           Step(w) == [n \in 0..N |-> IF n = 0 THEN "word" ELSE RoleAfter(w[n - 1], args[n])]
           F == CHOOSE w : w = Step(w)
<1>1. N \in Nat
  BY SequenceFacts
<1>2. Roles(args) = F
  BY DEF Roles
<1> HIDE DEF N
<1>3. "word" \in S
  BY DEF RoleNames
<1>4. \A b \in S : \A a : RoleAfter(b, a) \in S
  BY RoleIs
<1> HIDE DEF S
<1>5. G \in [1..N -> [S -> S]]
  BY <1>4
<1>6. PICK W : Walks(W, S, N, "word", G)
  <2> HIDE DEF G
  <2> QED BY <1>1, <1>3, <1>5, PrefixRecursion
<1>7. /\ W \in [0..N -> S] /\ W[0] = "word"
      /\ \A n \in 1..N : W[n - 1] \in S /\ W[n] = RoleAfter(W[n - 1], args[n])
  <2>1. /\ W \in [0..N -> S] /\ W[0] = "word"
        /\ \A n \in 1..N : W[n] = G[n][W[n - 1]]
    BY <1>6 DEF Walks
  <2>2. \A n \in 1..N : n - 1 \in 0..N
    BY <1>1
  <2> QED BY <2>1, <2>2
<1>8. W = Step(W)
  <2>1. \A n \in 0..N : n = 0 \/ n \in 1..N
    BY <1>1
  <2>2. \A n \in 0..N : W[n] = Step(W)[n]
    BY <1>7, <2>1
  <2>3. W = [n \in 0..N |-> W[n]]
    BY <1>7
  <2> QED BY <2>2, <2>3
<1>9. F = Step(F)
  <2> HIDE DEF Step
  <2> QED BY <1>8
<1> HIDE DEF F
<1>10. /\ F[0] = "word" /\ 0 \in 0..N
       /\ \A n \in 1..N : n \in 0..N /\ n # 0 /\ F[n] = RoleAfter(F[n - 1], args[n])
  BY <1>1, <1>9
<1> HIDE DEF Step
<1> DEFINE T == {n \in 0..N : F[n] \in S}
<1>11. \A n \in 0..N : n \in T
  <2>1. 0 \in T
    BY <1>3, <1>10
  <2>2. ASSUME NEW n \in 0..N - 1, n \in T PROVE n + 1 \in T
    <3>1. n + 1 \in 1..N /\ n + 1 \in 0..N /\ (n + 1) - 1 = n
      BY <1>1
    <3>2. F[n + 1] = RoleAfter(F[n], args[n + 1])
      BY <1>10, <3>1
    <3> QED BY <1>4, <2>2, <3>1, <3>2
  <2> HIDE DEF T
  <2> QED BY <1>1, <2>1, <2>2, PrefixInd
<1> QED BY <1>2, <1>10, <1>11 DEF N, S

\* The reordering of the arguments.
Splits(A) == [flags : Seq(A), words : Seq(A), takes : BOOLEAN]

LEMMA PlacedIs ==
  ASSUME NEW A, NEW acc \in Splits(A), NEW a \in A
  PROVE  LET r == Placed(acc, a) IN
         /\ r \in Splits(A)
         /\ acc.takes => r.flags = Append(acc.flags, a) /\ r.words = acc.words /\ ~r.takes
         /\ ~acc.takes /\ IsWord(a) => r.flags = acc.flags /\ r.words = Append(acc.words, a) /\ ~r.takes
         /\ ~acc.takes /\ ~IsWord(a) =>
              r.flags = Append(acc.flags, a) /\ r.words = acc.words /\ r.takes = TakesNext(a)
<1>1. acc.flags \in Seq(A) /\ acc.words \in Seq(A) /\ acc.takes \in BOOLEAN
  BY DEF Splits
<1>2. Append(acc.flags, a) \in Seq(A) /\ Append(acc.words, a) \in Seq(A)
  BY <1>1, AppendTyped
<1>3. TakesNext(a) \in BOOLEAN
  BY DEF TakesNext
<1>4. CASE acc.takes
  <2>1. Placed(acc, a) = [acc EXCEPT !.flags = Append(@, a), !.takes = FALSE]
    BY <1>4, Zenon DEF Placed
  <2> QED BY <1>1, <1>2, <1>4, <2>1 DEF Splits
<1>5. CASE ~acc.takes /\ IsWord(a)
  <2>1. Placed(acc, a) = [acc EXCEPT !.words = Append(@, a)]
    BY <1>5 DEF Placed
  <2> QED BY <1>1, <1>2, <1>5, <2>1 DEF Splits
<1>6. CASE ~acc.takes /\ ~IsWord(a)
  <2>1. Placed(acc, a) = [acc EXCEPT !.flags = Append(@, a), !.takes = TakesNext(a)]
    BY <1>6 DEF Placed
  <2> QED BY <1>1, <1>2, <1>3, <1>6, <2>1 DEF Splits
<1> QED BY <1>4, <1>5, <1>6

LEMMA SplitRuns ==
  ASSUME NEW args, Sequence(args)
  PROVE  LET split == Split(args) IN
         /\ split[0].flags = <<>> /\ split[0].words = <<>> /\ ~split[0].takes
         /\ \A n \in 0..Len(args) : split[n] \in Splits(ToSet(args))
         /\ \A n \in 1..Len(args) : split[n] = Placed(split[n - 1], args[n])
<1> DEFINE N == Len(args)
           A == ToSet(args)
           S == Splits(A)
           start == [flags |-> <<>>, words |-> <<>>, takes |-> FALSE]
           G == [n \in 1..N |-> [x \in S |-> Placed(x, args[n])]]
           Step(w) == [n \in 0..N |-> IF n = 0 THEN start ELSE Placed(w[n - 1], args[n])]
           F == CHOOSE w : w = Step(w)
<1>1. N \in Nat /\ \A n \in 1..N : args[n] \in A
  BY SequenceFacts
<1>2. Split(args) = F
  BY DEF Split
<1> HIDE DEF N, A
<1>3. start \in S /\ start.flags = <<>> /\ start.words = <<>> /\ ~start.takes
  <2>1. <<>> \in Seq(A)
    OBVIOUS
  <2> QED BY <2>1 DEF Splits
<1> HIDE DEF start
<1>4. \A n \in 1..N : \A x \in S : Placed(x, args[n]) \in S
  BY <1>1, PlacedIs
<1> HIDE DEF S
<1>5. G \in [1..N -> [S -> S]]
  BY <1>4
<1>6. PICK W : Walks(W, S, N, start, G)
  <2> HIDE DEF G
  <2> QED BY <1>1, <1>3, <1>5, PrefixRecursion
<1>7. /\ W \in [0..N -> S] /\ W[0] = start
      /\ \A n \in 1..N : W[n - 1] \in S /\ W[n] = Placed(W[n - 1], args[n])
  <2>1. /\ W \in [0..N -> S] /\ W[0] = start
        /\ \A n \in 1..N : W[n] = G[n][W[n - 1]]
    BY <1>6 DEF Walks
  <2>2. \A n \in 1..N : n - 1 \in 0..N
    BY <1>1
  <2> QED BY <2>1, <2>2
<1>8. W = Step(W)
  <2>1. \A n \in 0..N : n = 0 \/ n \in 1..N
    BY <1>1
  <2>2. \A n \in 0..N : W[n] = Step(W)[n]
    BY <1>7, <2>1
  <2>3. W = [n \in 0..N |-> W[n]]
    BY <1>7
  <2> QED BY <2>2, <2>3
<1>9. F = Step(F)
  <2> HIDE DEF Step
  <2> QED BY <1>8
<1> HIDE DEF F
<1>10. /\ F[0] = start /\ 0 \in 0..N
       /\ \A n \in 1..N : n \in 0..N /\ n # 0 /\ F[n] = Placed(F[n - 1], args[n])
  BY <1>1, <1>9
<1> HIDE DEF Step
<1> DEFINE T == {n \in 0..N : F[n] \in S}
<1>11. \A n \in 0..N : n \in T
  <2>1. 0 \in T
    BY <1>3, <1>10
  <2>2. ASSUME NEW n \in 0..N - 1, n \in T PROVE n + 1 \in T
    <3>1. n + 1 \in 1..N /\ n + 1 \in 0..N /\ (n + 1) - 1 = n
      BY <1>1
    <3>2. F[n + 1] = Placed(F[n], args[n + 1])
      BY <1>10, <3>1
    <3> QED BY <1>4, <2>2, <3>1, <3>2
  <2> HIDE DEF T
  <2> QED BY <1>1, <2>1, <2>2, PrefixInd
<1> QED BY <1>2, <1>3, <1>10, <1>11 DEF N, S, A

\* The parser's state, and the values its flags can have.
Readable(args) == ToSet(args) \cup {Given(a) : a \in ToSet(args)}
HeaderNames == {Cuts[t].name : t \in DOMAIN Cuts}
HeaderValues == {Cuts[t].value : t \in DOMAIN Cuts}
HeaderMaps == UNION {[K -> HeaderValues] : K \in SUBSET HeaderNames}
ValuesOf(f, B) ==
  IF f = "header" THEN HeaderMaps
  ELSE {Defaults[f]} \cup {Converted(Kind[f], b) : b \in {c \in B : Converts(Kind[f], c)}}
         \cup (IF Kind[f] = "bool" THEN {TRUE} ELSE {})
Settings(B) ==
  {s \in [DOMAIN Kind -> UNION {ValuesOf(f, B) : f \in DOMAIN Kind}] : \A f \in DOMAIN Kind : s[f] \in ValuesOf(f, B)}
Parsing(A, B) ==
  {p \in [at : {"flags", "value", "rest", "error"}, flag : DOMAIN Kind \cup {"none"},
          settings : Settings(B), rest : Seq(A)] : p.at = "value" => p.flag \in DOMAIN Kind}

\* One more value.
Fits(f, B, v) ==
  (\E b \in B : Converts(Kind[f], b) /\ v = Converted(Kind[f], b)) \/ (Kind[f] = "bool" /\ v = TRUE)
Assigned(r, s, f, v) ==
  /\ f = "header" => r[f] = Over(v, s[f])
  /\ f # "header" => r[f] = v
  /\ \A g \in DOMAIN Kind : g # f => r[g] = s[g]

\* A header over those before.
LEMMA HeaderConverted ==
  ASSUME NEW b
  PROVE  /\ Converts("header", b) = (Text(b) \in DOMAIN Cuts)
         /\ Converted("header", b) = Entry(Cuts[Text(b)].name, Cuts[Text(b)].value)
BY Zenon DEF Converts, Converted

Overwritten(r, h, m, v) ==
  /\ r = [k \in DOMAIN r |-> r[k]] /\ DOMAIN r = {m} \cup DOMAIN h /\ r[m] = v
  /\ \A k \in DOMAIN h : k # m => r[k] = h[k]

LEMMA OverEntry ==
  ASSUME NEW h, NEW m, NEW v
  PROVE  Overwritten(Over(Entry(m, v), h), h, m, v)
<1> DEFINE r == Over(Entry(m, v), h)
<1>1. DOMAIN Entry(m, v) = {m} /\ Entry(m, v)[m] = v
  BY DEF Entry
<1>2. r = [k \in DOMAIN Entry(m, v) \cup DOMAIN h |-> IF k \in DOMAIN Entry(m, v) THEN Entry(m, v)[k] ELSE h[k]]
  BY DEF Over
<1> HIDE DEF r
<1> QED BY <1>1, <1>2 DEF r, Overwritten

LEMMA HeaderMapsGrow ==
  /\ <<>> \in HeaderMaps
  /\ \A h \in HeaderMaps, m \in HeaderNames, v \in HeaderValues : Over(Entry(m, v), h) \in HeaderMaps
<1>1. <<>> \in HeaderMaps
  <2>1. <<>> \in [{} -> HeaderValues]
    OBVIOUS
  <2> QED BY <2>1 DEF HeaderMaps
<1>2. ASSUME NEW h \in HeaderMaps, NEW m \in HeaderNames, NEW v \in HeaderValues
      PROVE  Over(Entry(m, v), h) \in HeaderMaps
  <2>1. PICK K \in SUBSET HeaderNames : h \in [K -> HeaderValues]
    BY DEF HeaderMaps
  <2> DEFINE r == Over(Entry(m, v), h)
  <2>2. Overwritten(r, h, m, v)
    BY OverEntry
  <2> HIDE DEF r
  <2>3. r \in [{m} \cup K -> HeaderValues] /\ {m} \cup K \in SUBSET HeaderNames
    BY <2>1, <2>2 DEF Overwritten
  <2> QED BY <2>3 DEF HeaderMaps, r
<1> QED BY <1>1, <1>2

LEMMA AssignIs ==
  ASSUME NEW B, NEW s \in Settings(B), NEW f \in DOMAIN Kind, NEW v, Fits(f, B, v)
  PROVE  Assign(s, f, v) \in Settings(B) /\ Assigned(Assign(s, f, v), s, f, v)
<1> DEFINE U == UNION {ValuesOf(g, B) : g \in DOMAIN Kind}
           x == IF f = "header" THEN Over(v, s[f]) ELSE v
           r == Assign(s, f, v)
<1>0. (\E b \in B : Converts(Kind[f], b) /\ v = Converted(Kind[f], b)) \/ (Kind[f] = "bool" /\ v = TRUE)
  BY DEF Fits
<1>1. /\ s \in [DOMAIN Kind -> U] /\ \A g \in DOMAIN Kind : s[g] \in ValuesOf(g, B)
      /\ \A g \in DOMAIN Kind : ValuesOf(g, B) \subseteq U
  BY DEF Settings
<1>2. r = [s EXCEPT ![f] = x]
  BY DEF Assign
<1>3. x \in ValuesOf(f, B)
  <2>1. CASE f = "header"
    <3>1. Kind[f] = "header" /\ Kind[f] # "bool"
      BY <2>1, KindsOfFlags
    <3>2. PICK b \in B : Text(b) \in DOMAIN Cuts /\ v = Entry(Cuts[Text(b)].name, Cuts[Text(b)].value)
      BY <1>0, <3>1, HeaderConverted
    <3>3. ValuesOf(f, B) = HeaderMaps /\ s[f] \in HeaderMaps
      BY <1>1, <2>1 DEF ValuesOf
    <3>4. Cuts[Text(b)].name \in HeaderNames /\ Cuts[Text(b)].value \in HeaderValues
      BY <3>2 DEF HeaderNames, HeaderValues
    <3>5. x = Over(v, s[f])
      BY <2>1
    <3> HIDE DEF x
    <3> QED BY <3>2, <3>3, <3>4, <3>5, HeaderMapsGrow
  <2>2. CASE f # "header"
    <3>1. ValuesOf(f, B) = {Defaults[f]} \cup {Converted(Kind[f], b) : b \in {c \in B : Converts(Kind[f], c)}}
                             \cup (IF Kind[f] = "bool" THEN {TRUE} ELSE {})
      BY <2>2 DEF ValuesOf
    <3>2. CASE Kind[f] = "bool" /\ v = TRUE
      BY <2>2, <3>1, <3>2, Zenon
    <3>3. CASE \E b \in B : Converts(Kind[f], b) /\ v = Converted(Kind[f], b)
      BY <2>2, <3>1, <3>3, Zenon
    <3> QED BY <1>0, <3>2, <3>3
  <2> QED BY <2>1, <2>2
<1> HIDE DEF x, r, U
<1>4. r \in [DOMAIN Kind -> U]
  BY <1>1, <1>2, <1>3
<1>5. r[f] = x /\ \A g \in DOMAIN Kind : g # f => r[g] = s[g]
  BY <1>1, <1>2
<1>6. \A g \in DOMAIN Kind : r[g] \in ValuesOf(g, B)
  BY <1>1, <1>3, <1>5
<1>7. r \in Settings(B)
  BY <1>4, <1>6 DEF Settings, U
<1>8. Assigned(r, s, f, v)
  BY <1>5 DEF Assigned, x
<1> QED BY <1>7, <1>8 DEF r

LEMMA StoreIs ==
  ASSUME NEW A, NEW B, NEW acc \in Parsing(A, B), NEW f \in DOMAIN Kind, NEW b \in B
  PROVE  LET r == Store(acc, f, b) IN
         /\ r \in Parsing(A, B) /\ r.rest = acc.rest
         /\ Converts(Kind[f], b) => r.at = "flags" /\ r.settings = Assign(acc.settings, f, Converted(Kind[f], b))
         /\ ~Converts(Kind[f], b) => r.at = "error"
<1>1. /\ acc.at \in {"flags", "value", "rest", "error"} /\ acc.flag \in DOMAIN Kind \cup {"none"}
      /\ acc.settings \in Settings(B) /\ acc.rest \in Seq(A)
      /\ acc = [at |-> acc.at, flag |-> acc.flag, settings |-> acc.settings, rest |-> acc.rest]
  BY DEF Parsing
<1>2. CASE Converts(Kind[f], b)
  <2> DEFINE v == Assign(acc.settings, f, Converted(Kind[f], b))
  <2>1. v \in Settings(B)
    <3>1. Fits(f, B, Converted(Kind[f], b))
      BY <1>2 DEF Fits
    <3> QED BY <1>1, <3>1, AssignIs
  <2>2. Store(acc, f, b) = [acc EXCEPT !.settings = v, !.at = "flags"]
    BY <1>2, Zenon DEF Store
  <2> HIDE DEF v
  <2>3. /\ Store(acc, f, b) \in Parsing(A, B) /\ Store(acc, f, b).rest = acc.rest
        /\ Store(acc, f, b).at = "flags" /\ Store(acc, f, b).settings = v
    BY <1>1, <2>1, <2>2 DEF Parsing
  <2> QED BY <1>2, <2>3 DEF v
<1>3. CASE ~Converts(Kind[f], b)
  <2>1. Store(acc, f, b) = [acc EXCEPT !.at = "error"]
    BY <1>3 DEF Store
  <2> QED BY <1>1, <1>3, <2>1 DEF Parsing
<1> QED BY <1>2, <1>3

FlagRead(acc, a, r) ==
  /\ r.rest = acc.rest
  /\ a.name \notin DOMAIN Kind => r.at = "error"
  /\ a.name \in DOMAIN Kind /\ a.eq => r = Store(acc, a.name, Given(a))
  /\ a.name \in DOMAIN Kind /\ ~a.eq /\ Kind[a.name] = "bool" =>
       r.at = "flags" /\ r.settings = Assign(acc.settings, a.name, TRUE)
  /\ a.name \in DOMAIN Kind /\ ~a.eq /\ Kind[a.name] # "bool" =>
       r.at = "value" /\ r.settings = acc.settings /\ r.flag = a.name

LEMMA ReadFlagIs ==
  ASSUME NEW A, NEW B, NEW acc \in Parsing(A, B), acc.at = "flags", NEW a \in A, Given(a) \in B
  PROVE  ReadFlag(acc, a) \in Parsing(A, B) /\ FlagRead(acc, a, ReadFlag(acc, a))
<1>1. /\ acc.at \in {"flags", "value", "rest", "error"} /\ acc.flag \in DOMAIN Kind \cup {"none"}
      /\ acc.settings \in Settings(B) /\ acc.rest \in Seq(A)
      /\ acc = [at |-> acc.at, flag |-> acc.flag, settings |-> acc.settings, rest |-> acc.rest]
  BY DEF Parsing
<1> DEFINE r == ReadFlag(acc, a)
<1>2. CASE a.name \notin DOMAIN Kind
  <2>1. r = [acc EXCEPT !.at = "error"]
    BY <1>2 DEF ReadFlag
  <2>2. r \in Parsing(A, B) /\ r.rest = acc.rest /\ r.at = "error"
    BY <1>1, <2>1 DEF Parsing
  <2> HIDE DEF r
  <2> QED BY <1>2, <2>2 DEF FlagRead, r
<1>3. CASE a.name \in DOMAIN Kind /\ a.eq
  <2>1. r = Store(acc, a.name, Given(a))
    BY <1>3 DEF ReadFlag
  <2>2. r \in Parsing(A, B) /\ r.rest = acc.rest
    BY <1>3, <2>1, StoreIs
  <2> HIDE DEF r
  <2> QED BY <1>3, <2>1, <2>2 DEF FlagRead, r
<1>4. CASE a.name \in DOMAIN Kind /\ ~a.eq /\ Kind[a.name] = "bool"
  <2> DEFINE v == Assign(acc.settings, a.name, TRUE)
  <2>1. r = [acc EXCEPT !.settings = v]
    BY <1>4 DEF ReadFlag
  <2>2. v \in Settings(B)
    <3>1. Fits(a.name, B, TRUE)
      BY <1>4 DEF Fits
    <3> QED BY <1>1, <1>4, <3>1, AssignIs
  <2> HIDE DEF v
  <2>3. r \in Parsing(A, B) /\ r.rest = acc.rest /\ r.at = "flags" /\ r.settings = v
    BY <1>1, <2>1, <2>2 DEF Parsing
  <2> HIDE DEF r
  <2> QED BY <1>4, <2>3 DEF FlagRead, v, r
<1>5. CASE a.name \in DOMAIN Kind /\ ~a.eq /\ Kind[a.name] # "bool"
  <2>1. r = [acc EXCEPT !.at = "value", !.flag = a.name]
    BY <1>5 DEF ReadFlag
  <2>2. r \in Parsing(A, B) /\ r.rest = acc.rest /\ r.at = "value" /\ r.settings = acc.settings /\ r.flag = a.name
    BY <1>1, <1>5, <2>1 DEF Parsing
  <2> HIDE DEF r
  <2> QED BY <1>5, <2>2 DEF FlagRead, r
<1> QED BY <1>2, <1>3, <1>4, <1>5

LEMMA ReadArgIs ==
  ASSUME NEW A, NEW B, NEW acc \in Parsing(A, B), NEW a \in A, a \in B, Given(a) \in B
  PROVE  LET r == ReadArg(acc, a) IN
         /\ r \in Parsing(A, B)
         /\ acc.at = "error" => r.at = "error"
         /\ acc.at = "rest" => r.at = "rest" /\ r.settings = acc.settings /\ r.rest = Append(acc.rest, a)
         /\ acc.at = "value" => acc.flag \in DOMAIN Kind /\ r = Store(acc, acc.flag, a)
         /\ acc.at = "flags" /\ IsWord(a) => r.at = "rest" /\ r.settings = acc.settings /\ r.rest = <<a>>
         /\ acc.at = "flags" /\ ~IsWord(a) /\ Terminator(a) =>
              r.at = "rest" /\ r.settings = acc.settings /\ r.rest = acc.rest
         /\ acc.at = "flags" /\ ~IsWord(a) /\ ~Terminator(a) => r = ReadFlag(acc, a)
<1>1. /\ acc.at \in {"flags", "value", "rest", "error"} /\ acc.flag \in DOMAIN Kind \cup {"none"}
      /\ acc.settings \in Settings(B) /\ acc.rest \in Seq(A) /\ (acc.at = "value" => acc.flag \in DOMAIN Kind)
      /\ acc = [at |-> acc.at, flag |-> acc.flag, settings |-> acc.settings, rest |-> acc.rest]
  BY DEF Parsing
<1>2. Append(acc.rest, a) \in Seq(A) /\ <<a>> \in Seq(A)
  BY <1>1, AppendTyped
<1> DEFINE r == ReadArg(acc, a)
<1>3. CASE acc.at = "error"
  <2>1. r = acc
    BY <1>3 DEF ReadArg
  <2> QED BY <1>1, <1>3, <2>1
<1>4. CASE acc.at = "rest"
  <2>1. r = [acc EXCEPT !.rest = Append(@, a)]
    BY <1>4 DEF ReadArg
  <2> QED BY <1>1, <1>2, <1>4, <2>1 DEF Parsing
<1>5. CASE acc.at = "value"
  <2>1. r = Store(acc, acc.flag, a)
    BY <1>5 DEF ReadArg
  <2>2. r \in Parsing(A, B)
    BY <1>1, <1>5, <2>1, StoreIs
  <2> QED BY <1>1, <1>5, <2>1, <2>2
<1>6. CASE acc.at = "flags" /\ IsWord(a)
  <2>1. r = [acc EXCEPT !.at = "rest", !.rest = <<a>>]
    BY <1>6 DEF ReadArg
  <2> QED BY <1>1, <1>2, <1>6, <2>1 DEF Parsing
<1>7. CASE acc.at = "flags" /\ ~IsWord(a) /\ Terminator(a)
  <2>1. r = [acc EXCEPT !.at = "rest"]
    BY <1>7 DEF ReadArg
  <2> QED BY <1>1, <1>7, <2>1 DEF Parsing
<1>8. CASE acc.at = "flags" /\ ~IsWord(a) /\ ~Terminator(a)
  <2>1. r = ReadFlag(acc, a)
    BY <1>8 DEF ReadArg
  <2>2. ReadFlag(acc, a) \in Parsing(A, B)
    BY <1>8, ReadFlagIs, Zenon
  <2> QED BY <1>8, <2>1, <2>2
<1> QED BY <1>1, <1>3, <1>4, <1>5, <1>6, <1>7, <1>8

LEMMA ReadingRuns ==
  ASSUME NEW args, Sequence(args)
  PROVE  LET p == Reading(args)
             S == Parsing(ToSet(args), Readable(args))
         IN  /\ p[0].at = "flags" /\ p[0].settings = Defaults /\ p[0].rest = <<>>
             /\ \A n \in 0..Len(args) : p[n] \in S
             /\ \A n \in 1..Len(args) : p[n] = ReadArg(p[n - 1], args[n])
<1> DEFINE N == Len(args)
           A == ToSet(args)
           B == Readable(args)
           S == Parsing(A, B)
           start == [at |-> "flags", flag |-> "none", settings |-> Defaults, rest |-> <<>>]
           G == [n \in 1..N |-> [x \in S |-> ReadArg(x, args[n])]]
           Step(w) == [n \in 0..N |-> IF n = 0 THEN start ELSE ReadArg(w[n - 1], args[n])]
           F == CHOOSE w : w = Step(w)
<1>1. N \in Nat /\ \A n \in 1..N : args[n] \in A
  BY SequenceFacts
<1>2. Reading(args) = F
  BY DEF Reading
<1>3. \A a \in A : a \in B /\ Given(a) \in B
  BY DEF Readable
<1> HIDE DEF N, A, B
<1>4. start \in S /\ start.at = "flags" /\ start.settings = Defaults /\ start.rest = <<>>
  <2>1. <<>> \in Seq(A)
    OBVIOUS
  <2>2. Defaults \in Settings(B)
    <3>1. ASSUME NEW f \in DOMAIN Kind PROVE Defaults[f] \in ValuesOf(f, B)
      <4>1. CASE f = "header"
        BY <4>1, DefaultsTyped, HeaderMapsGrow DEF ValuesOf
      <4>2. CASE f # "header"
        BY <4>2 DEF ValuesOf
      <4> QED BY <4>1, <4>2
    <3> QED BY <3>1, DefaultsTyped DEF Settings
  <2> QED BY <2>1, <2>2 DEF Parsing
<1> HIDE DEF start
<1>5. \A n \in 1..N : \A x \in S : ReadArg(x, args[n]) \in S
  BY <1>1, <1>3, ReadArgIs
<1> HIDE DEF S
<1>6. G \in [1..N -> [S -> S]]
  BY <1>5
<1>7. PICK W : Walks(W, S, N, start, G)
  <2> HIDE DEF G
  <2> QED BY <1>1, <1>4, <1>6, PrefixRecursion
<1>8. /\ W \in [0..N -> S] /\ W[0] = start
      /\ \A n \in 1..N : W[n - 1] \in S /\ W[n] = ReadArg(W[n - 1], args[n])
  <2>1. /\ W \in [0..N -> S] /\ W[0] = start
        /\ \A n \in 1..N : W[n] = G[n][W[n - 1]]
    BY <1>7 DEF Walks
  <2>2. \A n \in 1..N : n - 1 \in 0..N
    BY <1>1
  <2> QED BY <2>1, <2>2
<1>9. W = Step(W)
  <2>1. \A n \in 0..N : n = 0 \/ n \in 1..N
    BY <1>1
  <2>2. \A n \in 0..N : W[n] = Step(W)[n]
    BY <1>8, <2>1
  <2>3. W = [n \in 0..N |-> W[n]]
    BY <1>8
  <2> QED BY <2>2, <2>3
<1>10. F = Step(F)
  <2> HIDE DEF Step
  <2> QED BY <1>9
<1> HIDE DEF F
<1>11. /\ F[0] = start /\ 0 \in 0..N
       /\ \A n \in 1..N : n \in 0..N /\ n # 0 /\ F[n] = ReadArg(F[n - 1], args[n])
  BY <1>1, <1>10
<1> HIDE DEF Step
<1> DEFINE T == {n \in 0..N : F[n] \in S}
<1>12. \A n \in 0..N : n \in T
  <2>1. 0 \in T
    BY <1>4, <1>11
  <2>2. ASSUME NEW n \in 0..N - 1, n \in T PROVE n + 1 \in T
    <3>1. n + 1 \in 1..N /\ n + 1 \in 0..N /\ (n + 1) - 1 = n
      BY <1>1
    <3>2. F[n + 1] = ReadArg(F[n], args[n + 1])
      BY <1>11, <3>1
    <3> QED BY <1>5, <2>2, <3>1, <3>2
  <2> HIDE DEF T
  <2> QED BY <1>1, <2>1, <2>2, PrefixInd
<1> QED BY <1>2, <1>4, <1>11, <1>12 DEF N, S, A, B

-----------------------------------------------------------------------------
\* What the first n arguments say: the flags that have their value by then, what
\* they set, and the words.
Completed(args, role, n, f) ==
  {i \in 1..n : role[i] \in {"takes", "whole"} /\ args[i].name = f /\ (role[i] = "takes" => i < n)}
Converting(args, role, n) ==
  /\ \A i \in 1..n : role[i] # "unknown"
  /\ \A f \in DOMAIN Kind : \A i \in Completed(args, role, n, f) : Converts(Kind[f], ValueOf(args, role, i))
Latest(T, i) == i \in T /\ \A j \in T : j <= i
CutAt(args, role, i) == Cuts[Text(ValueOf(args, role, i))]
GivenLast(args, role, T, h) ==
  /\ h = [m \in DOMAIN h |-> h[m]]
  /\ \A m : m \in DOMAIN h <=> \E i \in T : CutAt(args, role, i).name = m
  /\ \A m \in DOMAIN h : \E i \in T :
       /\ CutAt(args, role, i).name = m /\ h[m] = CutAt(args, role, i).value
       /\ \A j \in T : CutAt(args, role, j).name = m => j <= i
SetTo(args, role, n, s) ==
  \A f \in DOMAIN Kind :
    LET T == Completed(args, role, n, f) IN
    /\ f = "header" => GivenLast(args, role, T, s[f])
    /\ f # "header" => \/ T = {} /\ s[f] = Defaults[f]
                       \/ \E i \in T : Latest(T, i) /\ s[f] = Converted(Kind[f], ValueOf(args, role, i))
Spoken(role, n) == {i \in 1..n : role[i] \in {"word", "rest"}}
Collected(args, role, n, rest, words) ==
  /\ ToSet(rest) \cup ToSet(words) = {args[i] : i \in Spoken(role, n)}
  /\ Len(rest) + Len(words) = Cardinality(Spoken(role, n))

\* How these grow by an argument: a flag i is completed, or none is.
NoneCompleted(args, role, n) ==
  \A f : Completed(args, role, n + 1, f) = Completed(args, role, n, f)
OneCompleted(args, role, n, g, i) ==
  /\ \A f : f # g => Completed(args, role, n + 1, f) = Completed(args, role, n, f)
  /\ Completed(args, role, n + 1, g) = Completed(args, role, n, g) \cup {i}
  /\ \A j \in Completed(args, role, n, g) : j <= i

LEMMA CompletedNext ==
  ASSUME NEW args, NEW role, NEW n \in Nat, role[0] = "word"
  PROVE  /\ \A f : Completed(args, role, n, f) \subseteq Completed(args, role, n + 1, f)
         /\ role[n] # "takes" /\ role[n + 1] # "whole" => NoneCompleted(args, role, n)
         /\ role[n] = "takes" /\ role[n + 1] # "whole" => OneCompleted(args, role, n, args[n].name, n)
         /\ role[n] # "takes" /\ role[n + 1] = "whole" => OneCompleted(args, role, n, args[n + 1].name, n + 1)
<1> DEFINE C(f) == Completed(args, role, n, f)
           D(f) == Completed(args, role, n + 1, f)
<1>1. ASSUME NEW f, NEW i
      PROVE  /\ i \in C(f) <=> /\ i \in 1..n /\ role[i] \in {"takes", "whole"} /\ args[i].name = f
                               /\ (role[i] = "takes" => i < n)
             /\ i \in D(f) <=> /\ i \in 1..n + 1 /\ role[i] \in {"takes", "whole"} /\ args[i].name = f
                               /\ (role[i] = "takes" => i < n + 1)
  BY DEF Completed
<1>2. \A i : i \in 1..n + 1 <=> (i \in 1..n /\ i < n) \/ (i \in {n} /\ n # 0) \/ i = n + 1
  OBVIOUS
<1>3. \A i \in 1..n : i <= n /\ i <= n + 1 /\ i < n + 1 /\ (i < n <=> i # n)
  OBVIOUS
<1>4. ~(n + 1 < n + 1) /\ ~(n < n) /\ n # n + 1 /\ n < n + 1 /\ n <= n
      /\ n + 1 \notin 1..n /\ n + 1 \in 1..n + 1 /\ (n # 0 => n \in 1..n)
  OBVIOUS
<1> HIDE DEF C, D
<1>5. ASSUME NEW f, NEW i
      PROVE  i \in D(f) <=> \/ i \in C(f)
                            \/ i = n /\ role[n] = "takes" /\ args[n].name = f
                            \/ i = n + 1 /\ role[n + 1] = "whole" /\ args[n + 1].name = f
  <2>1. CASE i \in 1..n /\ i < n
    BY <1>1, <1>3, <1>4, <2>1
  <2>2. CASE i = n /\ n # 0
    BY <1>1, <1>3, <1>4, <2>2
  <2>3. CASE i = n + 1
    BY <1>1, <1>3, <1>4, <2>3
  <2>4. CASE i \notin 1..n + 1
    <3>1. i \notin 1..n /\ i # n + 1 /\ (i = n => n = 0)
      BY <2>4
    <3> QED BY <1>1, <2>4, <3>1
  <2> QED BY <1>2, <2>1, <2>2, <2>3, <2>4
<1>6. \A f : \A j \in C(f) : j <= n /\ j <= n + 1
  BY <1>1, <1>3
<1>7. \A f : C(f) \subseteq D(f)
  BY <1>5
<1>8. ASSUME role[n] # "takes", role[n + 1] # "whole" PROVE NoneCompleted(args, role, n)
  <2>1. ASSUME NEW f PROVE D(f) = C(f)
    <3>1. \A i : i \in D(f) <=> i \in C(f)
      BY <1>5, <1>8
    <3> QED BY <3>1
  <2> QED BY <2>1 DEF NoneCompleted, C, D
<1>9. ASSUME role[n] = "takes", role[n + 1] # "whole" PROVE OneCompleted(args, role, n, args[n].name, n)
  <2>1. ASSUME NEW f, f # args[n].name PROVE D(f) = C(f)
    <3>1. \A i : i \in D(f) <=> i \in C(f)
      BY <1>5, <1>9, <2>1
    <3> QED BY <3>1
  <2>2. D(args[n].name) = C(args[n].name) \cup {n}
    <3>1. \A i : i \in D(args[n].name) <=> i \in C(args[n].name) \/ i = n
      BY <1>5, <1>9
    <3> QED BY <3>1
  <2> QED BY <1>6, <2>1, <2>2 DEF OneCompleted, C, D
<1>10. ASSUME role[n] # "takes", role[n + 1] = "whole" PROVE OneCompleted(args, role, n, args[n + 1].name, n + 1)
  <2>1. ASSUME NEW f, f # args[n + 1].name PROVE D(f) = C(f)
    <3>1. \A i : i \in D(f) <=> i \in C(f)
      BY <1>5, <1>10, <2>1
    <3> QED BY <3>1
  <2>2. D(args[n + 1].name) = C(args[n + 1].name) \cup {n + 1}
    <3>1. \A i : i \in D(args[n + 1].name) <=> i \in C(args[n + 1].name) \/ i = n + 1
      BY <1>5, <1>10
    <3> QED BY <3>1
  <2> QED BY <1>6, <2>1, <2>2 DEF OneCompleted, C, D
<1> QED BY <1>7, <1>8, <1>9, <1>10 DEF C, D

\* A flag that does not convert stays one; a value is the last of its flag.
LEMMA ConvertingNext ==
  ASSUME NEW args, NEW role, NEW n \in Nat, role[0] = "word"
  PROVE  /\ Converting(args, role, n + 1) => Converting(args, role, n)
         /\ NoneCompleted(args, role, n) =>
              (Converting(args, role, n + 1) <=> Converting(args, role, n) /\ role[n + 1] # "unknown")
         /\ \A g \in DOMAIN Kind : \A i : OneCompleted(args, role, n, g, i) =>
              (Converting(args, role, n + 1) <=> /\ Converting(args, role, n) /\ role[n + 1] # "unknown"
                                                 /\ Converts(Kind[g], ValueOf(args, role, i)))
<1>1. \A f : Completed(args, role, n, f) \subseteq Completed(args, role, n + 1, f)
  BY CompletedNext
<1>2. \A i : i \in 1..n + 1 <=> i \in 1..n \/ i = n + 1
  OBVIOUS
<1> DEFINE Known(m) == \A i \in 1..m : role[i] # "unknown"
<1>3. Known(n + 1) <=> Known(n) /\ role[n + 1] # "unknown"
  BY <1>2
<1> HIDE DEF Known
<1>4. \A m : Converting(args, role, m) <=>
        /\ Known(m)
        /\ \A f \in DOMAIN Kind : \A i \in Completed(args, role, m, f) : Converts(Kind[f], ValueOf(args, role, i))
  BY Zenon DEF Converting, Known
<1>5. Converting(args, role, n + 1) => Converting(args, role, n)
  BY <1>1, <1>3, <1>4
<1>6. NoneCompleted(args, role, n) =>
        (Converting(args, role, n + 1) <=> Converting(args, role, n) /\ role[n + 1] # "unknown")
  BY <1>3, <1>4 DEF NoneCompleted
<1>7. ASSUME NEW g \in DOMAIN Kind, NEW i, OneCompleted(args, role, n, g, i)
      PROVE  Converting(args, role, n + 1) <=> /\ Converting(args, role, n) /\ role[n + 1] # "unknown"
                                               /\ Converts(Kind[g], ValueOf(args, role, i))
  <2>1. ASSUME NEW f \in DOMAIN Kind, NEW j
        PROVE  j \in Completed(args, role, n + 1, f) <=> j \in Completed(args, role, n, f) \/ (f = g /\ j = i)
    <3>1. CASE f = g
      BY <1>7, <3>1 DEF OneCompleted
    <3>2. CASE f # g
      BY <1>7, <3>2 DEF OneCompleted
    <3> QED BY <3>1, <3>2
  <2> QED BY <1>3, <1>4, <2>1
<1> QED BY <1>5, <1>6, <1>7

LEMMA GivenNext ==
  ASSUME NEW args, NEW role, NEW T, NEW i \in Nat, NEW h, GivenLast(args, role, T, h), \A j \in T : j <= i
  PROVE  GivenLast(args, role, T \cup {i}, Over(Converted("header", ValueOf(args, role, i)), h))
<1> DEFINE name(j) == CutAt(args, role, j).name
           value(j) == CutAt(args, role, j).value
           U == T \cup {i}
           r == Over(Converted("header", ValueOf(args, role, i)), h)
<1>1. r = Over(Entry(name(i), value(i)), h)
  BY HeaderConverted, Zenon DEF CutAt
<1>2. /\ \A m : m \in DOMAIN h <=> \E j \in T : name(j) = m
      /\ \A m \in DOMAIN h : \E j \in T :
           name(j) = m /\ h[m] = value(j) /\ \A k \in T : name(k) = m => k <= j
  BY Zenon DEF GivenLast
<1>3. Overwritten(Over(Entry(name(i), value(i)), h), h, name(i), value(i))
  BY OverEntry
<1> HIDE DEF r, name, value
<1>4. /\ r = [k \in DOMAIN r |-> r[k]] /\ DOMAIN r = {name(i)} \cup DOMAIN h /\ r[name(i)] = value(i)
      /\ \A k \in DOMAIN h : k # name(i) => r[k] = h[k]
  BY <1>1, <1>3 DEF Overwritten
<1>5. \A m : m \in DOMAIN r <=> \E j \in U : name(j) = m
  BY <1>2, <1>4
<1>6. ASSUME NEW m \in DOMAIN r
      PROVE  \E j \in U : name(j) = m /\ r[m] = value(j) /\ \A k \in U : name(k) = m => k <= j
  <2>1. CASE m = name(i)
    BY <1>4, <2>1
  <2>2. CASE m # name(i)
    <3>1. m \in DOMAIN h /\ r[m] = h[m]
      BY <1>4, <2>2
    <3>2. PICK j \in T : name(j) = m /\ h[m] = value(j) /\ \A k \in T : name(k) = m => k <= j
      BY <1>2, <3>1
    <3> QED BY <2>2, <3>1, <3>2
  <2> QED BY <2>1, <2>2
<1> QED BY <1>4, <1>5, <1>6, Zenon DEF GivenLast, name, value, r

LEMMA SetNext ==
  ASSUME NEW args, NEW role, NEW n \in Nat, role[0] = "word", NEW s, SetTo(args, role, n, s)
  PROVE  /\ NoneCompleted(args, role, n) => SetTo(args, role, n + 1, s)
         /\ \A g \in DOMAIN Kind, i \in Nat : \A r :
              OneCompleted(args, role, n, g, i) /\ Assigned(r, s, g, Converted(Kind[g], ValueOf(args, role, i)))
              => SetTo(args, role, n + 1, r)
<1>1. NoneCompleted(args, role, n) => SetTo(args, role, n + 1, s)
  BY Zenon DEF SetTo, NoneCompleted
<1>2. ASSUME NEW g \in DOMAIN Kind, NEW i \in Nat, NEW r, OneCompleted(args, role, n, g, i),
             Assigned(r, s, g, Converted(Kind[g], ValueOf(args, role, i)))
      PROVE  SetTo(args, role, n + 1, r)
  <2>0. /\ g = "header" => r[g] = Over(Converted(Kind[g], ValueOf(args, role, i)), s[g])
        /\ g # "header" => r[g] = Converted(Kind[g], ValueOf(args, role, i))
        /\ \A f \in DOMAIN Kind : f # g => r[f] = s[f]
    BY <1>2 DEF Assigned
  <2> DEFINE Right(f, q, T) ==
               /\ f = "header" => GivenLast(args, role, T, q[f])
               /\ f # "header" => \/ T = {} /\ q[f] = Defaults[f]
                                  \/ \E k \in T : Latest(T, k) /\ q[f] = Converted(Kind[f], ValueOf(args, role, k))
  <2>1. ASSUME NEW f \in DOMAIN Kind, f # g PROVE Right(f, r, Completed(args, role, n + 1, f))
    <3>1. Completed(args, role, n + 1, f) = Completed(args, role, n, f) /\ r[f] = s[f]
      BY <1>2, <2>0, <2>1 DEF OneCompleted
    <3>2. Right(f, s, Completed(args, role, n, f))
      BY DEF SetTo
    <3> QED BY <3>1, <3>2, Zenon
  <2>2. Right(g, r, Completed(args, role, n + 1, g))
    <3> DEFINE T == Completed(args, role, n, g)
               U == Completed(args, role, n + 1, g)
    <3>1. U = T \cup {i} /\ \A j \in T : j <= i
      BY <1>2 DEF OneCompleted
    <3>2. g = "header" => GivenLast(args, role, T, s[g]) /\ Kind[g] = "header"
      BY KindsOfFlags DEF SetTo
    <3> HIDE DEF T, U
    <3>3. CASE g = "header"
      <4>1. GivenLast(args, role, T \cup {i}, Over(Converted("header", ValueOf(args, role, i)), s[g]))
        BY <3>1, <3>2, <3>3, GivenNext
      <4>2. r[g] = Over(Converted("header", ValueOf(args, role, i)), s[g])
        BY <2>0, <3>2, <3>3
      <4> QED BY <3>1, <3>3, <4>1, <4>2, Zenon DEF U
    <3>4. CASE g # "header"
      <4>0. i <= i
        OBVIOUS
      <4>1. Latest(U, i)
        BY <4>0, <3>1, Zenon DEF Latest
      <4>2. i \in U /\ r[g] = Converted(Kind[g], ValueOf(args, role, i))
        BY <2>0, <3>1, <3>4
      <4> QED BY <3>4, <4>1, <4>2, Zenon DEF U
    <3> QED BY <3>3, <3>4
  <2> QED BY <2>1, <2>2, Zenon DEF SetTo
<1> QED BY <1>1, <1>2

LEMMA CollectedNext ==
  ASSUME NEW args, NEW role, NEW n \in Nat, NEW A, NEW rest \in Seq(A), NEW words \in Seq(A), args[n + 1] \in A,
         Collected(args, role, n, rest, words)
  PROVE  /\ role[n + 1] \notin {"word", "rest"} => Collected(args, role, n + 1, rest, words)
         /\ role[n + 1] \in {"word", "rest"} =>
              /\ Collected(args, role, n + 1, Append(rest, args[n + 1]), words)
              /\ Collected(args, role, n + 1, rest, Append(words, args[n + 1]))
<1> DEFINE a == args[n + 1]
           T == Spoken(role, n)
           U == Spoken(role, n + 1)
<1>1. \A i : i \in 1..n + 1 <=> i \in 1..n \/ i = n + 1
  OBVIOUS
<1>2. IsFiniteSet(T) /\ n + 1 \notin T
  <2>1. IsFiniteSet(1..n)
    BY FS_Interval
  <2>2. T \subseteq 1..n /\ n + 1 \notin 1..n
    BY DEF Spoken
  <2> QED BY <2>1, <2>2, FS_Subset
<1>3. ToSet(rest) \cup ToSet(words) = {args[i] : i \in T} /\ Len(rest) + Len(words) = Cardinality(T)
  BY DEF Collected
<1>4. Len(rest) \in Nat /\ Len(words) \in Nat
  OBVIOUS
<1>5. CASE role[n + 1] \notin {"word", "rest"}
  <2>1. U = T
    BY <1>1, <1>5 DEF Spoken
  <2> QED BY <1>5, <2>1 DEF Collected
<1>6. CASE role[n + 1] \in {"word", "rest"}
  <2>1. U = T \cup {n + 1}
    BY <1>1, <1>6 DEF Spoken
  <2> HIDE DEF T, U
  <2>2. Cardinality(U) = Cardinality(T) + 1
    BY <1>2, <2>1, FS_AddElement
  <2>3. {args[i] : i \in U} = {args[i] : i \in T} \cup {a}
    BY <2>1
  <2>4. ASSUME NEW s \in Seq(A)
        PROVE  ToSet(Append(s, a)) = ToSet(s) \cup {a} /\ Len(Append(s, a)) = Len(s) + 1
    <3>1. Append(s, a) = s \o <<a>> /\ Len(Append(s, a)) = Len(s) + 1
      OBVIOUS
    <3>2. Sequence(s) /\ Sequence(<<a>>) /\ ToSet(<<a>>) = {a}
      BY TypedSequence, ShortSequences
    <3> HIDE DEF a
    <3> QED BY <3>1, <3>2, JoinSequences
  <2>5. /\ ToSet(Append(rest, a)) \cup ToSet(words) = {args[i] : i \in U}
        /\ Len(Append(rest, a)) + Len(words) = Cardinality(U)
    <3>1. Len(Append(rest, a)) + Len(words) = Cardinality(U)
      BY <1>3, <1>4, <2>2, <2>4
    <3>2. ToSet(Append(rest, a)) = ToSet(rest) \cup {a}
      BY <2>4
    <3> HIDE DEF a
    <3> QED BY <1>3, <2>3, <3>1, <3>2
  <2>6. /\ ToSet(rest) \cup ToSet(Append(words, a)) = {args[i] : i \in U}
        /\ Len(rest) + Len(Append(words, a)) = Cardinality(U)
    <3>1. Len(rest) + Len(Append(words, a)) = Cardinality(U)
      BY <1>3, <1>4, <2>2, <2>4
    <3>2. ToSet(Append(words, a)) = ToSet(words) \cup {a}
      BY <2>4
    <3> HIDE DEF a
    <3> QED BY <1>3, <2>3, <3>1, <3>2
  <2> QED BY <1>6, <2>5, <2>6 DEF Collected, U
<1> QED BY <1>5, <1>6

\* What was moved to the front stays there.
Extends(t, s) == Len(s) <= Len(t) /\ \A k \in 1..Len(s) : t[k] = s[k]

LEMMA FlagsGrow ==
  ASSUME NEW args, Sequence(args), NEW n \in 0..Len(args)
  PROVE  Extends(Split(args)[Len(args)].flags, Split(args)[n].flags)
<1> DEFINE N == Len(args)
           A == ToSet(args)
           x(m) == Split(args)[m]
           f(m) == x(m).flags
           T == {m \in 0..N : n <= m => Extends(f(m), f(n))}
<1>1. N \in Nat /\ \A m \in 1..N : args[m] \in A
  BY SequenceFacts
<1>2. /\ \A m \in 0..N : x(m) \in Splits(A)
      /\ \A m \in 1..N : x(m) = Placed(x(m - 1), args[m])
  BY SplitRuns
<1> HIDE DEF N, A, x
<1>3. \A m \in 0..N : f(m) \in Seq(A)
  BY <1>2 DEF Splits
<1>4. \A m \in 0..N : Len(f(m)) \in Nat
  BY <1>3
<1>5. 0 \in T
  <2>1. ASSUME n <= 0 PROVE Extends(f(0), f(n))
    <3>1. n = 0 /\ 0 \in 0..N
      BY <1>1, <2>1 DEF N
    <3> QED BY <1>4, <3>1 DEF Extends
  <2>2. 0 \in 0..N
    BY <1>1
  <2> QED BY <2>1, <2>2
<1>6. ASSUME NEW m \in 0..N - 1, m \in T PROVE m + 1 \in T
  <2>1. m \in 0..N /\ m + 1 \in 0..N /\ m + 1 \in 1..N /\ (m + 1) - 1 = m /\ m \in Nat
    BY <1>1
  <2>2. Extends(f(m + 1), f(m))
    <3>1. x(m + 1) = Placed(x(m), args[m + 1]) /\ x(m) \in Splits(A) /\ args[m + 1] \in A
      BY <1>1, <1>2, <2>1
    <3>2. f(m + 1) = f(m) \/ f(m + 1) = Append(f(m), args[m + 1])
      BY <3>1, PlacedIs
    <3>3. f(m) \in Seq(A)
      BY <1>3, <2>1
    <3> HIDE DEF f
    <3> QED BY <3>1, <3>2, <3>3 DEF Extends
  <2>3. ASSUME n <= m + 1 PROVE Extends(f(m + 1), f(n))
    <3>1. n \in 0..N /\ (n <= m \/ n = m + 1)
      BY <2>1, <2>3 DEF N
    <3>2. CASE n <= m
      <4>1. Extends(f(m), f(n))
        BY <1>6, <3>2
      <4>2. Len(f(m)) \in Nat /\ Len(f(n)) \in Nat /\ Len(f(m + 1)) \in Nat
        BY <1>4, <2>1, <3>1
      <4> HIDE DEF f
      <4> QED BY <2>2, <4>1, <4>2 DEF Extends
    <3>3. CASE n = m + 1
      BY <1>4, <2>1, <3>3 DEF Extends
    <3> QED BY <3>1, <3>2, <3>3
  <2> QED BY <2>1, <2>3
<1>7. N \in T
  <2>1. \A m \in 0..N : m \in T
    <3> HIDE DEF T
    <3> QED BY <1>1, <1>5, <1>6, PrefixInd
  <2> QED BY <1>1, <2>1
<1>8. n <= N
  BY <1>1 DEF N
<1> QED BY <1>7, <1>8 DEF x, N

\* The parser reads the flags first, and then the words.
LEMMA Reordered ==
  ASSUME NEW args, Sequence(args)
  PROVE  LET list == ReorderArgs(args)
             end == Split(args)[Len(args)]
             m == Len(end.flags)
         IN  /\ Sequence(list) /\ ToSet(list) \subseteq ToSet(args)
             /\ m \in Nat /\ Len(end.words) \in Nat /\ Len(list) = m + Len(end.words)
             /\ \A k \in 1..m : list[k] = end.flags[k]
             /\ \A k \in 1..Len(end.words) : list[m + k] = end.words[k]
<1> DEFINE A == ToSet(args)
           end == Split(args)[Len(args)]
           f == end.flags
           w == end.words
<1>1. end \in Splits(A)
  <2>1. Len(args) \in 0..Len(args)
    BY SequenceFacts
  <2> QED BY <2>1, SplitRuns
<1>2. f \in Seq(A) /\ w \in Seq(A)
  BY <1>1 DEF Splits
<1>3. ReorderArgs(args) = f \o w
  BY DEF ReorderArgs
<1> HIDE DEF end, A, f, w
<1>4. Sequence(f) /\ Sequence(w)
  BY <1>2, TypedSequence
<1>5. Sequence(f \o w)
  BY <1>4, JoinSequences
<1>6. /\ Len(f) \in Nat /\ Len(w) \in Nat /\ Len(f \o w) = Len(f) + Len(w)
      /\ \A k \in 1..Len(f) : (f \o w)[k] = f[k]
      /\ \A k \in 1..Len(w) : (f \o w)[Len(f) + k] = w[k]
  BY <1>2
<1>7. ToSet(f \o w) \subseteq A
  <2>1. ToSet(f) \subseteq A /\ ToSet(w) \subseteq A
    BY <1>2 DEF ToSet
  <2> QED BY <1>4, <2>1, JoinSequences
<1> QED BY <1>3, <1>5, <1>6, <1>7 DEF end, A, f, w

ParserAt(args, n) == Reading(ReorderArgs(args))[Len(Split(args)[n].flags)]
ParserStates(args) == Parsing(ToSet(ReorderArgs(args)), Readable(ReorderArgs(args)))

LEMMA ReadsNext ==
  ASSUME NEW args, Sequence(args)
  PROVE  /\ \A n \in 0..Len(args) : ParserAt(args, n) \in ParserStates(args)
         /\ \A n \in 0..Len(args) - 1 :
              LET x == Split(args)[n]
                  y == Split(args)[n + 1]
                  a == args[n + 1]
              IN  /\ y.flags = x.flags => ParserAt(args, n + 1) = ParserAt(args, n)
                  /\ y.flags = Append(x.flags, a) =>
                       /\ ParserAt(args, n + 1) = ReadArg(ParserAt(args, n), a)
                       /\ a \in ToSet(ReorderArgs(args)) /\ a \in Readable(ReorderArgs(args))
                       /\ Given(a) \in Readable(ReorderArgs(args))
<1> DEFINE N == Len(args)
           list == ReorderArgs(args)
           f(n) == Split(args)[n].flags
           m == Len(f(N))
           p == Reading(list)
<1>1. N \in Nat /\ \A n \in 0..N - 1 : n \in 0..N /\ n + 1 \in 0..N
  BY SequenceFacts
<1>2. /\ Sequence(list) /\ m \in Nat /\ m <= Len(list) /\ Len(list) \in Nat
      /\ \A k \in 1..m : list[k] = f(N)[k]
  <2>1. /\ Sequence(list) /\ m \in Nat /\ Len(Split(args)[N].words) \in Nat
        /\ Len(list) = m + Len(Split(args)[N].words)
        /\ \A k \in 1..m : list[k] = f(N)[k]
    BY Reordered
  <2> HIDE DEF list, m
  <2> QED BY <2>1
<1>3. \A n \in 0..N : f(n) \in Seq(ToSet(args))
  BY SplitRuns DEF Splits
<1>4. \A n \in 0..N : Len(f(n)) \in Nat /\ Len(f(n)) <= m /\ \A k \in 1..Len(f(n)) : f(N)[k] = f(n)[k]
  <2>1. \A n \in 0..N : Extends(f(N), f(n))
    BY FlagsGrow
  <2> HIDE DEF f
  <2> QED BY <1>3, <2>1 DEF Extends
<1>5. /\ \A k \in 0..Len(list) : p[k] \in ParserStates(args)
      /\ \A k \in 1..Len(list) : p[k] = ReadArg(p[k - 1], list[k])
  BY <1>2, ReadingRuns DEF ParserStates
<1>6. \A n : ParserAt(args, n) = p[Len(f(n))]
  BY DEF ParserAt
<1> HIDE DEF p, list, f, N, m
<1>7. \A n \in 0..N : ParserAt(args, n) \in ParserStates(args)
  <2>1. \A n \in 0..N : Len(f(n)) \in 0..Len(list)
    BY <1>2, <1>4
  <2> QED BY <1>5, <1>6, <2>1
<1>8. ASSUME NEW n \in 0..N - 1, f(n + 1) = Append(f(n), args[n + 1])
      PROVE  /\ ParserAt(args, n + 1) = ReadArg(ParserAt(args, n), args[n + 1])
             /\ args[n + 1] \in ToSet(list) /\ args[n + 1] \in Readable(list) /\ Given(args[n + 1]) \in Readable(list)
  <2> DEFINE k == Len(f(n)) + 1
             a == args[n + 1]
  <2>1. Len(f(n + 1)) = k /\ f(n + 1)[k] = a
    BY <1>1, <1>3, <1>8
  <2>2. n \in 0..N /\ n + 1 \in 0..N
    BY <1>1
  <2>3. Len(f(n)) \in Nat /\ Len(f(n + 1)) <= m /\ \A j \in 1..Len(f(n + 1)) : f(N)[j] = f(n + 1)[j]
    BY <1>4, <2>2
  <2>4. k \in 1..m /\ k \in 1..Len(list) /\ k \in 1..k /\ k - 1 = Len(f(n))
    BY <1>2, <2>1, <2>3
  <2> HIDE DEF k, a
  <2>5. list[k] = a
    BY <1>2, <2>1, <2>3, <2>4
  <2>6. p[k] = ReadArg(p[Len(f(n))], a)
    BY <1>5, <2>4, <2>5
  <2>7. ParserAt(args, n + 1) = p[k] /\ ParserAt(args, n) = p[Len(f(n))]
    BY <1>6, <2>1
  <2>8. a \in ToSet(list)
    BY <1>2, <2>4, <2>5, SequenceFacts
  <2>9. a \in Readable(list) /\ Given(a) \in Readable(list)
    BY <2>8 DEF Readable
  <2> QED BY <2>6, <2>7, <2>8, <2>9 DEF a
<1> QED BY <1>6, <1>7, <1>8 DEF list, f, N

\* After n arguments: how the parser, at the flags among them, and the words so far
\* agree with what they say.
Understood(args, role, n, p, words) ==
  /\ Converting(args, role, n) /\ SetTo(args, role, n, p.settings)
  /\ Collected(args, role, n, p.rest, words)
Matching(args, role, n, x, p) ==
  /\ \A w \in ToSet(x.words) : IsWord(w)
  /\ p.at = "error" => ~Converting(args, role, n)
  /\ p.at # "error" => Understood(args, role, n, p, x.words)
  /\ p.at = "value" => /\ role[n] = "takes" /\ x.takes /\ p.flag = args[n].name /\ p.rest = <<>>
  /\ p.at = "flags" => role[n] \in {"word", "whole", "value"} /\ ~x.takes /\ p.rest = <<>>
  /\ p.at = "rest" => role[n] \in {"end", "rest"}
Matches(args, n) == Matching(args, Roles(args), n, Split(args)[n], ParserAt(args, n))

LEMMA WordsStay ==
  ASSUME NEW A, NEW s \in Seq(A), NEW a, IsWord(a), \A w \in ToSet(s) : IsWord(w)
  PROVE  \A w \in ToSet(Append(s, a)) : IsWord(w)
<1>1. Append(s, a) = s \o <<a>>
  OBVIOUS
<1>2. Sequence(s) /\ Sequence(<<a>>) /\ ToSet(<<a>>) = {a}
  BY TypedSequence, ShortSequences
<1>3. ToSet(Append(s, a)) = ToSet(s) \cup {a}
  BY <1>1, <1>2, JoinSequences
<1> QED BY <1>3

\* A value that is stored is understood, or an error.
Stored(args, role, n, before, words, p) ==
  /\ p.at \in {"flags", "error"} /\ p.rest = before.rest
  /\ p.at = "error" => ~Converting(args, role, n)
  /\ p.at = "flags" => Understood(args, role, n, p, words)

LEMMA Storing ==
  ASSUME NEW args, NEW role, NEW n \in Nat, role[0] = "word", NEW words,
         NEW A, NEW B, NEW p \in Parsing(A, B), NEW g \in DOMAIN Kind, NEW i \in Nat, ValueOf(args, role, i) \in B,
         OneCompleted(args, role, n, g, i), role[n + 1] \in {"value", "whole"},
         Understood(args, role, n, p, words), Collected(args, role, n + 1, p.rest, words)
  PROVE  Stored(args, role, n + 1, p, words, Store(p, g, ValueOf(args, role, i)))
<1> DEFINE b == ValueOf(args, role, i)
           r == Store(p, g, b)
           v == Converted(Kind[g], b)
<1>1. /\ r \in Parsing(A, B) /\ r.rest = p.rest
      /\ Converts(Kind[g], b) => r.at = "flags" /\ r.settings = Assign(p.settings, g, v)
      /\ ~Converts(Kind[g], b) => r.at = "error"
  BY StoreIs
<1>2. Converting(args, role, n + 1) <=> Converting(args, role, n) /\ role[n + 1] # "unknown" /\ Converts(Kind[g], b)
  BY ConvertingNext
<1>3. role[n + 1] # "unknown"
  OBVIOUS
<1>4. /\ Converting(args, role, n) /\ SetTo(args, role, n, p.settings)
      /\ p.settings \in Settings(B)
  BY DEF Understood, Parsing
<1>5. CASE Converts(Kind[g], b)
  <2> DEFINE q == Assign(p.settings, g, v)
  <2>1. Assigned(q, p.settings, g, v)
    <3>1. Fits(g, B, v)
      BY <1>5 DEF Fits
    <3> HIDE DEF v
    <3> QED BY <1>4, <3>1, AssignIs
  <2> HIDE DEF q
  <2>2. SetTo(args, role, n + 1, q)
    BY <1>4, <2>1, SetNext
  <2>3. r.settings = q /\ r.at = "flags"
    BY <1>1, <1>5 DEF q
  <2> HIDE DEF r, b
  <2> QED BY <1>1, <1>2, <1>3, <1>4, <1>5, <2>2, <2>3 DEF Understood, Stored, r, b
<1>6. CASE ~Converts(Kind[g], b)
  <2> HIDE DEF r, b
  <2> QED BY <1>1, <1>2, <1>6 DEF Stored, r, b
<1> QED BY <1>5, <1>6

LEMMA TrueConverts ==
  Converts("bool", True) /\ Converted("bool", True) = TRUE
<1>1. Converts("bool", True) = (True.name \in {"true", "false"} /\ True.dashes = 0)
  BY Zenon DEF Converts
<1>2. Converted("bool", True) = (True.name = "true")
  BY Zenon DEF Converted
<1>3. True.name = "true" /\ True.dashes = 0
  BY Zenon DEF True
<1> QED BY <1>1, <1>2, <1>3, Zenon

LEMMA MatchesNext ==
  ASSUME NEW args, Sequence(args), NEW n \in 0..Len(args) - 1, Matches(args, n)
  PROVE  Matches(args, n + 1)
<1> DEFINE N == Len(args)
           role == Roles(args)
           A == ToSet(args)
           x == Split(args)[n]
           y == Split(args)[n + 1]
           a == args[n + 1]
           p == ParserAt(args, n)
           q == ParserAt(args, n + 1)
           C == ToSet(ReorderArgs(args))
           B == Readable(ReorderArgs(args))
<1>1. N \in Nat /\ n \in Nat /\ n \in 0..N /\ n + 1 \in 0..N /\ n + 1 \in 1..N /\ n + 1 - 1 = n /\ n + 1 \in Nat
  BY SequenceFacts
<1>2. role[0] = "word" /\ role[n] \in RoleNames /\ role[n + 1] = RoleAfter(role[n], a)
  BY <1>1, RolesRun
<1>3. x \in Splits(A) /\ y = Placed(x, a) /\ a \in A
  BY <1>1, SplitRuns, SequenceFacts
<1>4. x.words \in Seq(A)
  BY <1>3 DEF Splits
<1>5. /\ p \in Parsing(C, B)
      /\ y.flags = x.flags => q = p
      /\ y.flags = Append(x.flags, a) => q = ReadArg(p, a) /\ a \in C /\ a \in B /\ Given(a) \in B
  BY <1>1, ReadsNext DEF ParserStates
<1>6. Matching(args, role, n, x, p)
  BY DEF Matches
<1>7. p.at \in {"flags", "value", "rest", "error"} /\ p.rest \in Seq(C)
  BY <1>5 DEF Parsing
<1>8. SUFFICES Matching(args, role, n + 1, y, q)
  BY DEF Matches
<1> DEFINE w == x.words
<1> HIDE DEF N, role, A, x, y, a, p, q, C, B
<1>9. /\ \A u \in ToSet(w) : IsWord(u)
      /\ p.at = "error" => ~Converting(args, role, n)
      /\ p.at # "error" => Understood(args, role, n, p, w)
      /\ p.at = "value" => role[n] = "takes" /\ x.takes /\ p.flag = args[n].name /\ p.rest = <<>>
      /\ p.at = "flags" => role[n] \in {"word", "whole", "value"} /\ ~x.takes /\ p.rest = <<>>
      /\ p.at = "rest" => role[n] \in {"end", "rest"}
  BY <1>6 DEF Matching
<1>10. /\ x.takes => y.flags = Append(x.flags, a) /\ y.words = w /\ ~y.takes
       /\ ~x.takes /\ IsWord(a) => y.flags = x.flags /\ y.words = Append(w, a) /\ ~y.takes
       /\ ~x.takes /\ ~IsWord(a) => y.flags = Append(x.flags, a) /\ y.words = w /\ y.takes = TakesNext(a)
  BY <1>3, PlacedIs
<1>11. \A u \in ToSet(y.words) : IsWord(u)
  <2>1. CASE y.words = w
    BY <1>9, <2>1
  <2>2. CASE y.words # w
    <3>1. IsWord(a) /\ y.words = Append(w, a)
      BY <1>10, <2>2
    <3> HIDE DEF w
    <3> QED BY <1>4, <1>9, <3>1, WordsStay DEF w
  <2> QED BY <2>1, <2>2
<1>12. Converting(args, role, n + 1) => Converting(args, role, n)
  BY <1>1, <1>2, ConvertingNext
<1>13. ASSUME Collected(args, role, n, p.rest, w)
       PROVE  /\ role[n + 1] \notin {"word", "rest"} => Collected(args, role, n + 1, p.rest, w)
              /\ role[n + 1] \in {"word", "rest"} => Collected(args, role, n + 1, p.rest, Append(w, a))
              /\ role[n + 1] \in {"word", "rest"} /\ a \in C => Collected(args, role, n + 1, Append(p.rest, a), w)
  <2> DEFINE D == A \cup C
  <2>1. p.rest \in Seq(D) /\ w \in Seq(D) /\ a \in D
    BY <1>3, <1>4, <1>7
  <2> HIDE DEF D, w
  <2> QED BY <1>1, <1>13, <2>1, CollectedNext DEF a
<1>14. ASSUME p.at # "error", role[n] # "takes", role[n + 1] \notin {"whole", "unknown"}
       PROVE  Converting(args, role, n + 1) /\ SetTo(args, role, n + 1, p.settings)
  <2>1. Converting(args, role, n) /\ SetTo(args, role, n, p.settings)
    BY <1>9, <1>14 DEF Understood
  <2>2. NoneCompleted(args, role, n)
    BY <1>1, <1>2, <1>14, CompletedNext
  <2> QED BY <1>1, <1>2, <1>14, <2>1, <2>2, ConvertingNext, SetNext
<1>15. ASSUME p.at # "error" PROVE Collected(args, role, n, p.rest, w)
  BY <1>9, <1>15 DEF Understood
<1>16. CASE p.at = "error"
  <2>1. q.at = "error"
    <3>1. CASE y.flags = x.flags
      BY <1>5, <1>16, <3>1
    <3>2. CASE y.flags = Append(x.flags, a)
      <4>1. q = ReadArg(p, a) /\ a \in C /\ a \in B /\ Given(a) \in B
        BY <1>5, <3>2
      <4> QED BY <1>5, <1>16, <4>1, ReadArgIs
    <3> QED BY <1>10, <3>1, <3>2
  <2> QED BY <1>9, <1>11, <1>12, <1>16, <2>1 DEF Matching
<1>17. CASE p.at = "rest"
  <2>1. role[n + 1] = "rest" /\ role[n] # "takes"
    BY <1>2, <1>9, <1>17, RoleIs
  <2>2. Converting(args, role, n + 1) /\ SetTo(args, role, n + 1, p.settings)
    BY <1>14, <1>17, <2>1
  <2>3. CASE y.flags = Append(x.flags, a) /\ y.words = w
    <3>1. q = ReadArg(p, a) /\ a \in C /\ a \in B /\ Given(a) \in B
      BY <1>5, <2>3
    <3>2. q.at = "rest" /\ q.settings = p.settings /\ q.rest = Append(p.rest, a)
      BY <1>5, <1>17, <3>1, ReadArgIs
    <3>3. Collected(args, role, n + 1, q.rest, y.words)
      BY <1>13, <1>15, <1>17, <2>1, <2>3, <3>1, <3>2
    <3> QED BY <1>11, <2>1, <2>2, <3>2, <3>3 DEF Matching, Understood
  <2>4. CASE y.flags = x.flags /\ y.words = Append(w, a)
    <3>1. q = p
      BY <1>5, <2>4
    <3>2. Collected(args, role, n + 1, q.rest, y.words)
      BY <1>13, <1>15, <1>17, <2>1, <2>4, <3>1
    <3> QED BY <1>11, <1>17, <2>1, <2>2, <3>1, <3>2 DEF Matching, Understood
  <2> QED BY <1>10, <2>3, <2>4
<1>18. CASE p.at = "value"
  <2>1. role[n] = "takes" /\ x.takes /\ p.flag = args[n].name /\ p.rest = <<>>
    BY <1>9, <1>18
  <2>2. role[n + 1] = "value"
    BY <1>2, <2>1, RoleIs
  <2>3. y.words = w /\ ~y.takes /\ q = ReadArg(p, a) /\ a \in C /\ a \in B /\ Given(a) \in B
    BY <1>5, <1>10, <2>1
  <2>4. p.flag \in DOMAIN Kind /\ q = Store(p, p.flag, a)
    BY <1>5, <1>18, <2>3, ReadArgIs
  <2>5. ValueOf(args, role, n) = a
    BY <2>1 DEF ValueOf, a
  <2>6. OneCompleted(args, role, n, p.flag, n)
    BY <1>1, <1>2, <2>1, <2>2, CompletedNext
  <2>7. Collected(args, role, n + 1, p.rest, w)
    BY <1>13, <1>15, <1>18, <2>2
  <2>8. Understood(args, role, n, p, w)
    BY <1>9, <1>18
  <2>9. /\ q.at \in {"flags", "error"} /\ q.rest = p.rest
        /\ q.at = "error" => ~Converting(args, role, n + 1)
        /\ q.at = "flags" => Understood(args, role, n + 1, q, w)
    <3> HIDE DEF w
    <3>1. q = Store(p, p.flag, ValueOf(args, role, n)) /\ ValueOf(args, role, n) \in B
      BY <2>3, <2>4, <2>5
    <3>2. role[n + 1] \in {"value", "whole"} /\ role[0] = "word" /\ n \in Nat /\ p \in Parsing(C, B)
      BY <1>1, <1>2, <1>5, <2>2
    <3>3. Stored(args, role, n + 1, p, w, Store(p, p.flag, ValueOf(args, role, n)))
      BY <2>4, <2>6, <2>7, <2>8, <3>1, <3>2, Storing
    <3>4. Stored(args, role, n + 1, p, w, q)
      BY <3>1, <3>3
    <3> QED BY <3>4 DEF Stored
  <2> QED BY <1>11, <2>1, <2>2, <2>3, <2>9 DEF Matching
<1>19. CASE p.at = "flags"
  <2>1. role[n] \in {"word", "whole", "value"} /\ ~x.takes /\ p.rest = <<>> /\ role[n] # "takes"
    BY <1>9, <1>19
  <2>2. /\ IsWord(a) => role[n + 1] = "word"
        /\ ~IsWord(a) /\ Terminator(a) => role[n + 1] = "end"
        /\ ~IsWord(a) /\ ~Terminator(a) =>
             /\ a.name \notin DOMAIN Kind => role[n + 1] = "unknown"
             /\ a.name \in DOMAIN Kind /\ (a.eq \/ Kind[a.name] = "bool") => role[n + 1] = "whole"
             /\ a.name \in DOMAIN Kind /\ ~(a.eq \/ Kind[a.name] = "bool") => role[n + 1] = "takes"
    <3>1. role[n] \notin {"end", "rest", "takes"}
      BY <2>1
    <3> QED BY <1>2, <3>1, RoleIs
  <2>3. CASE IsWord(a)
    <3>1. y.words = Append(w, a) /\ ~y.takes /\ q = p /\ role[n + 1] = "word"
      BY <1>5, <1>10, <2>1, <2>2, <2>3
    <3>2. Converting(args, role, n + 1) /\ SetTo(args, role, n + 1, p.settings)
      BY <1>14, <1>19, <2>1, <3>1
    <3>3. Collected(args, role, n + 1, q.rest, y.words)
      BY <1>13, <1>15, <1>19, <3>1
    <3> QED BY <1>11, <1>19, <2>1, <3>1, <3>2, <3>3 DEF Matching, Understood
  <2>4. ASSUME ~IsWord(a)
        PROVE  y.words = w /\ y.takes = TakesNext(a) /\ q = ReadArg(p, a) /\ a \in C /\ a \in B /\ Given(a) \in B
    BY <1>5, <1>10, <2>1, <2>4
  <2>5. CASE ~IsWord(a) /\ Terminator(a)
    <3>1. q.at = "rest" /\ q.settings = p.settings /\ q.rest = p.rest
      BY <1>5, <1>19, <2>4, <2>5, ReadArgIs
    <3>2. Converting(args, role, n + 1) /\ SetTo(args, role, n + 1, p.settings)
      BY <1>14, <1>19, <2>1, <2>2, <2>5
    <3>3. Collected(args, role, n + 1, p.rest, w)
      BY <1>13, <1>15, <1>19, <2>2, <2>5
    <3> QED BY <1>11, <2>2, <2>4, <2>5, <3>1, <3>2, <3>3 DEF Matching, Understood
  <2>6. CASE ~IsWord(a) /\ ~Terminator(a)
    <3>1. q = ReadFlag(p, a)
      BY <1>5, <1>19, <2>4, <2>6, ReadArgIs
    <3> DEFINE name == a.name
    <3>7. q \in Parsing(C, B) /\ FlagRead(p, a, q)
      <4>1. p \in Parsing(C, B) /\ p.at = "flags" /\ a \in C /\ Given(a) \in B
        BY <1>5, <1>19, <2>4, <2>6
      <4> QED BY <3>1, <4>1, ReadFlagIs
    <3>0. p \in Parsing(C, B) /\ p.at = "flags" /\ a \in C /\ Given(a) \in B
      BY <1>5, <1>19, <2>4, <2>6
    <3>2. CASE name \notin DOMAIN Kind
      <4>1. q.at = "error"
        BY <3>7, <3>2 DEF FlagRead
      <4>2. role[n + 1] = "unknown"
        BY <2>2, <2>6, <3>2
      <4>3. ~Converting(args, role, n + 1)
        BY <1>1, <4>2 DEF Converting
      <4> QED BY <1>11, <4>1, <4>3 DEF Matching
    <3>3. ASSUME name \in DOMAIN Kind, a.eq \/ Kind[name] = "bool"
          PROVE  /\ role[n + 1] = "whole" /\ ~y.takes
                 /\ OneCompleted(args, role, n, name, n + 1)
                 /\ Collected(args, role, n + 1, p.rest, w) /\ Understood(args, role, n, p, w)
      <4>1. role[n + 1] = "whole"
        BY <2>2, <2>6, <3>3
      <4>2. ~y.takes
        BY <2>4, <2>6, <3>3 DEF TakesNext
      <4>3. OneCompleted(args, role, n, name, n + 1)
        BY <1>1, <1>2, <2>1, <4>1, CompletedNext DEF a
      <4> QED BY <1>9, <1>13, <1>15, <1>19, <4>1, <4>2, <4>3
    <3>4. CASE name \in DOMAIN Kind /\ a.eq
      <4>1. q = Store(p, name, Given(a))
        BY <3>7, <3>4 DEF FlagRead
      <4>2. ValueOf(args, role, n + 1) = Given(a)
        BY <3>3, <3>4 DEF ValueOf, a
      <4>3. /\ q.at \in {"flags", "error"} /\ q.rest = p.rest
            /\ q.at = "error" => ~Converting(args, role, n + 1)
            /\ q.at = "flags" => Understood(args, role, n + 1, q, w)
        <5> HIDE DEF w, name
        <5>1. role[n + 1] \in {"value", "whole"} /\ role[0] = "word" /\ n \in Nat /\ n + 1 \in Nat
          BY <1>1, <1>2, <3>3, <3>4
        <5>2. q = Store(p, name, ValueOf(args, role, n + 1)) /\ ValueOf(args, role, n + 1) \in B
          BY <3>0, <4>1, <4>2
        <5>3. /\ OneCompleted(args, role, n, name, n + 1) /\ name \in DOMAIN Kind
              /\ Collected(args, role, n + 1, p.rest, w) /\ Understood(args, role, n, p, w)
          BY <3>3, <3>4
        <5>4. Stored(args, role, n + 1, p, w, Store(p, name, ValueOf(args, role, n + 1)))
          BY <3>0, <5>1, <5>2, <5>3, Storing
        <5>5. Stored(args, role, n + 1, p, w, q)
          BY <5>2, <5>4
        <5> QED BY <5>5 DEF Stored
      <4> QED BY <1>11, <2>1, <2>4, <2>6, <3>3, <3>4, <4>3 DEF Matching
    <3>5. CASE name \in DOMAIN Kind /\ ~a.eq /\ Kind[name] = "bool"
      <4>1. q \in Parsing(C, B) /\ q.rest = p.rest /\ q.at = "flags" /\ q.settings = Assign(p.settings, name, TRUE)
        BY <3>7, <3>5 DEF FlagRead
      <4>2. ValueOf(args, role, n + 1) = True
        BY <3>3, <3>5 DEF ValueOf, a
      <4>3. Converts(Kind[name], True) /\ Converted(Kind[name], True) = TRUE
        BY <3>5, TrueConverts
      <4>4. Converting(args, role, n) /\ SetTo(args, role, n, p.settings) /\ p.settings \in Settings(B)
        BY <1>5, <3>3, <3>5 DEF Understood, Parsing
      <4>5. Assigned(q.settings, p.settings, name, TRUE)
        <5>1. Fits(name, B, TRUE)
          BY <3>5 DEF Fits
        <5> QED BY <3>5, <4>1, <4>4, <5>1, AssignIs
      <4>6. Converting(args, role, n + 1)
        BY <1>1, <1>2, <3>3, <3>5, <4>2, <4>3, <4>4, ConvertingNext
      <4>7. SetTo(args, role, n + 1, q.settings)
        BY <1>1, <1>2, <3>3, <3>5, <4>2, <4>3, <4>4, <4>5, SetNext
      <4> QED BY <1>11, <2>1, <2>4, <2>6, <3>3, <3>5, <4>1, <4>6, <4>7 DEF Matching, Understood
    <3>6. CASE name \in DOMAIN Kind /\ ~(a.eq \/ Kind[name] = "bool")
      <4>1. q.at = "value" /\ q.settings = p.settings /\ q.flag = name /\ q.rest = p.rest
        BY <3>7, <3>6 DEF FlagRead
      <4>2. role[n + 1] = "takes" /\ y.takes
        BY <2>2, <2>4, <2>6, <3>6 DEF TakesNext
      <4>3. Converting(args, role, n + 1) /\ SetTo(args, role, n + 1, p.settings)
        BY <1>14, <1>19, <2>1, <4>2
      <4>4. Collected(args, role, n + 1, p.rest, w)
        BY <1>13, <1>15, <1>19, <4>2
      <4> QED BY <1>11, <2>1, <2>4, <2>6, <4>1, <4>2, <4>3, <4>4 DEF Matching, Understood, a
    <3> QED BY <3>2, <3>4, <3>5, <3>6
  <2> QED BY <2>3, <2>5, <2>6
<1> QED BY <1>7, <1>16, <1>17, <1>18, <1>19

LEMMA MatchesAll ==
  ASSUME NEW args, Sequence(args)
  PROVE  \A n \in 0..Len(args) : Matches(args, n)
<1> DEFINE N == Len(args)
           role == Roles(args)
           x == Split(args)[0]
           p == ParserAt(args, 0)
           T == {n \in 0..N : Matches(args, n)}
<1>1. N \in Nat
  BY SequenceFacts
<1>2. x.flags = <<>> /\ x.words = <<>> /\ ~x.takes /\ role[0] = "word"
  BY SplitRuns, RolesRun
<1>3. p.at = "flags" /\ p.settings = Defaults /\ p.rest = <<>>
  <2>1. Sequence(ReorderArgs(args))
    BY Reordered
  <2>2. p = Reading(ReorderArgs(args))[0]
    <3>1. Len(x.flags) = 0
      BY <1>2
    <3> QED BY <3>1 DEF ParserAt
  <2> QED BY <2>1, <2>2, ReadingRuns
<1> HIDE DEF x, p, role, N
<1>4. \A f : Completed(args, role, 0, f) = {}
  BY DEF Completed
<1>5. Spoken(role, 0) = {}
  BY DEF Spoken
<1>6. Converting(args, role, 0)
  BY <1>4 DEF Converting
<1>7. SetTo(args, role, 0, Defaults)
  <2>1. ASSUME NEW f \in DOMAIN Kind, f = "header"
        PROVE  GivenLast(args, role, Completed(args, role, 0, f), Defaults[f])
    <3>1. Defaults[f] = <<>>
      BY <2>1, DefaultsTyped
    <3>2. GivenLast(args, role, {}, <<>>)
      BY DEF GivenLast
    <3> QED BY <1>4, <3>1, <3>2
  <2> QED BY <1>4, <2>1, Zenon DEF SetTo
<1>8. Collected(args, role, 0, <<>>, <<>>)
  <2>1. ToSet(<<>>) = {} /\ Len(<<>>) = 0 /\ Cardinality({}) = 0
    BY ShortSequences, FS_EmptySet
  <2> QED BY <1>5, <2>1 DEF Collected
<1>9. Matches(args, 0)
  <2>1. \A w \in ToSet(x.words) : IsWord(w)
    BY <1>2, ShortSequences
  <2>2. Matching(args, role, 0, x, p)
    BY <1>2, <1>3, <1>6, <1>7, <1>8, <2>1 DEF Matching, Understood
  <2> QED BY <2>2 DEF Matches, role, x, p
<1>10. \A n \in 0..N : n \in T
  <2>1. 0 \in T
    BY <1>1, <1>9
  <2>2. ASSUME NEW n \in 0..N - 1, n \in T PROVE n + 1 \in T
    <3>1. n + 1 \in 0..N
      BY <1>1
    <3>2. Matches(args, n + 1)
      BY <2>2, MatchesNext DEF N
    <3> QED BY <3>1, <3>2
  <2> HIDE DEF T
  <2> QED BY <1>1, <2>1, <2>2, PrefixInd
<1> QED BY <1>10 DEF N

\* Past the flags, every word is left to the crawler.
Leaves(p, words, k, q) ==
  /\ p.at = "error" => q.at = "error"
  /\ p.at \in {"flags", "rest"} =>
       /\ q.at = IF p.at = "flags" /\ k = 0 THEN "flags" ELSE "rest"
       /\ q.settings = p.settings
       /\ ToSet(q.rest) = ToSet(p.rest) \cup {words[j] : j \in 1..k} /\ Len(q.rest) = Len(p.rest) + k

LEMMA LeavesNext ==
  ASSUME NEW A, NEW B, NEW p \in Parsing(A, B), p.at = "flags" => p.rest = <<>>,
         NEW q \in Parsing(A, B), NEW words, NEW k \in Nat, Leaves(p, words, k, q),
         IsWord(words[k + 1]), words[k + 1] \in A, words[k + 1] \in B, Given(words[k + 1]) \in B
  PROVE  Leaves(p, words, k + 1, ReadArg(q, words[k + 1]))
<1> DEFINE a == words[k + 1]
           r == ReadArg(q, a)
<1>1. p.rest \in Seq(A) /\ q.rest \in Seq(A)
  BY DEF Parsing
<1>2. /\ q.at = "error" => r.at = "error"
      /\ q.at = "rest" => r.at = "rest" /\ r.settings = q.settings /\ r.rest = Append(q.rest, a)
      /\ q.at = "flags" /\ IsWord(a) => r.at = "rest" /\ r.settings = q.settings /\ r.rest = <<a>>
  BY ReadArgIs
<1>3. k + 1 # 0 /\ \A j : j \in 1..k + 1 <=> j \in 1..k \/ j = k + 1
  OBVIOUS
<1>4. {words[j] : j \in 1..k + 1} = {words[j] : j \in 1..k} \cup {a}
  BY <1>3
<1> HIDE DEF r, a
<1>5. ASSUME p.at \in {"flags", "rest"}
      PROVE  /\ r.at = "rest" /\ r.settings = p.settings
             /\ ToSet(r.rest) = ToSet(p.rest) \cup {words[j] : j \in 1..k} \cup {a} /\ Len(r.rest) = Len(p.rest) + k + 1
  <2>1. /\ q.at = IF p.at = "flags" /\ k = 0 THEN "flags" ELSE "rest"
        /\ q.settings = p.settings
        /\ ToSet(q.rest) = ToSet(p.rest) \cup {words[j] : j \in 1..k} /\ Len(q.rest) = Len(p.rest) + k
    BY <1>5 DEF Leaves
  <2>2. CASE q.at = "rest"
    <3>1. r.at = "rest" /\ r.settings = q.settings /\ r.rest = Append(q.rest, a)
      BY <1>2, <2>2
    <3>2. Append(q.rest, a) = q.rest \o <<a>> /\ Len(Append(q.rest, a)) = Len(q.rest) + 1 /\ Len(q.rest) \in Nat
          /\ Len(p.rest) \in Nat
      BY <1>1
    <3>3. Sequence(q.rest) /\ Sequence(<<a>>) /\ ToSet(<<a>>) = {a}
      BY <1>1, TypedSequence, ShortSequences
    <3>4. ToSet(r.rest) = ToSet(q.rest) \cup {a}
      BY <3>1, <3>2, <3>3, JoinSequences
    <3>5. Len(r.rest) = Len(p.rest) + k + 1
      BY <2>1, <3>1, <3>2
    <3> QED BY <2>1, <3>1, <3>4, <3>5
  <2>3. CASE q.at = "flags"
    <3>1. p.at = "flags" /\ k = 0 /\ p.rest = <<>>
      BY <2>1, <2>3
    <3>2. r.at = "rest" /\ r.settings = q.settings /\ r.rest = <<a>>
      BY <1>2, <2>3 DEF a
    <3>3. ToSet(<<a>>) = {a} /\ Len(<<a>>) = 1 /\ Len(<<>>) = 0 /\ ToSet(<<>>) = {}
      BY ShortSequences
    <3>4. {words[j] : j \in 1..k} = {}
      BY <3>1
    <3>5. Len(r.rest) = Len(p.rest) + k + 1
      BY <3>1, <3>2, <3>3
    <3> QED BY <2>1, <3>1, <3>2, <3>3, <3>4, <3>5
  <2> QED BY <2>1, <2>2, <2>3
<1>6. Len(p.rest) \in Nat
  BY <1>1
<1>7. p.at = "error" => r.at = "error"
  BY <1>2 DEF Leaves
<1>8. Len(p.rest) + k + 1 = Len(p.rest) + (k + 1)
  <2>1. \A x, y \in Nat : x + y + 1 = x + (y + 1)
    OBVIOUS
  <2> QED BY <1>6, <2>1
<1>9. ASSUME p.at \in {"flags", "rest"}
      PROVE  /\ r.at = IF p.at = "flags" /\ k + 1 = 0 THEN "flags" ELSE "rest"
             /\ r.settings = p.settings
             /\ ToSet(r.rest) = ToSet(p.rest) \cup {words[j] : j \in 1..k + 1} /\ Len(r.rest) = Len(p.rest) + (k + 1)
  <2>1. r.at = IF p.at = "flags" /\ k + 1 = 0 THEN "flags" ELSE "rest"
    BY <1>3, <1>5, <1>9
  <2>2. ToSet(r.rest) = ToSet(p.rest) \cup {words[j] : j \in 1..k + 1}
    <3>1. ToSet(r.rest) = ToSet(p.rest) \cup {words[j] : j \in 1..k} \cup {a}
      BY <1>5, <1>9
    <3> QED BY <1>4, <3>1
  <2> QED BY <1>5, <1>8, <1>9, <2>1, <2>2
<1>10. Leaves(p, words, k + 1, r)
  BY <1>7, <1>9 DEF Leaves
<1> QED BY <1>10 DEF r, a

\* A command line that does not end in a flag without its value is read as it is meant.
LEMMA ReadAsSaid ==
  ASSUME NEW args, Sequence(args), Roles(args)[Len(args)] # "takes"
  PROVE  LET role == Roles(args)
             n == Len(args)
             q == Reading(ReorderArgs(args))[Len(ReorderArgs(args))]
         IN  /\ q.at = "error" => ~Converting(args, role, n)
             /\ q.at # "error" =>
                  /\ q.at \in {"flags", "rest"} /\ Converting(args, role, n) /\ SetTo(args, role, n, q.settings)
                  /\ ToSet(q.rest) = {args[i] : i \in Spoken(role, n)} /\ Len(q.rest) = Cardinality(Spoken(role, n))
<1> DEFINE N == Len(args)
           role == Roles(args)
           list == ReorderArgs(args)
           end == Split(args)[N]
           w == end.words
           m == Len(end.flags)
           p == ParserAt(args, N)
           run == Reading(list)
           A == ToSet(list)
           B == Readable(list)
           T == {k \in 0..Len(w) : Leaves(p, w, k, run[m + k])}
<1>1. N \in Nat /\ N \in 0..N
  BY SequenceFacts
<1>2. Matching(args, role, N, end, p)
  BY <1>1, MatchesAll DEF Matches
<1>3. /\ Sequence(list) /\ m \in Nat /\ Len(w) \in Nat /\ Len(list) = m + Len(w)
      /\ \A k \in 1..Len(w) : list[m + k] = w[k]
  BY Reordered
<1>4. p = run[m]
  BY DEF ParserAt
<1>5. /\ \A k \in 0..Len(list) : run[k] \in Parsing(A, B)
      /\ \A k \in 1..Len(list) : run[k] = ReadArg(run[k - 1], list[k])
  BY <1>3, ReadingRuns
<1>6. \A k \in 1..Len(list) : list[k] \in A /\ list[k] \in B /\ Given(list[k]) \in B
  BY <1>3, SequenceFacts DEF Readable
<1>7. end.words \in Seq(ToSet(args))
  BY <1>1, SplitRuns DEF Splits
<1>8. \A k \in 1..Len(w) : IsWord(w[k])
  <2>1. \A u \in ToSet(w) : IsWord(u)
    BY <1>2 DEF Matching
  <2>2. Sequence(w)
    BY <1>7, TypedSequence
  <2> HIDE DEF w
  <2> QED BY <2>1, <2>2, SequenceFacts
<1>9. role[N] # "takes"
  OBVIOUS
<1>10. /\ p.at = "error" => ~Converting(args, role, N)
       /\ p.at # "error" => Understood(args, role, N, p, w)
       /\ p.at # "value" /\ (p.at = "flags" => p.rest = <<>>)
  BY <1>2, <1>9 DEF Matching
<1> HIDE DEF N, role, list, end, w, m, p, run, A, B
<1>11. p \in Parsing(A, B) /\ p.at \in {"flags", "value", "rest", "error"} /\ p.rest \in Seq(A)
  <2>1. m \in 0..Len(list)
    BY <1>3
  <2> QED BY <1>4, <1>5, <2>1 DEF Parsing
<1>12. 0 \in T
  <2>1. run[m + 0] = p /\ 0 \in 0..Len(w)
    BY <1>3, <1>4
  <2>2. {w[j] : j \in 1..0} = {} /\ Len(p.rest) \in Nat
    BY <1>11
  <2>3. Leaves(p, w, 0, p)
    BY <2>2 DEF Leaves
  <2> QED BY <2>1, <2>3
<1>13. ASSUME NEW k \in 0..Len(w) - 1, k \in T PROVE k + 1 \in T
  <2>1. /\ k \in Nat /\ k + 1 \in 1..Len(w) /\ k + 1 \in 0..Len(w) /\ m + k \in 0..Len(list)
        /\ m + (k + 1) \in 1..Len(list) /\ m + (k + 1) - 1 = m + k
    BY <1>3
  <2>2. list[m + (k + 1)] = w[k + 1]
    <3>1. ASSUME NEW j \in 1..Len(w) PROVE list[m + j] = w[j]
      BY <1>3
    <3>2. \A j \in 1..Len(w) : list[m + j] = w[j]
      BY <3>1
    <3> QED BY <2>1, <3>2, Zenon
  <2>3. run[m + (k + 1)] = ReadArg(run[m + k], w[k + 1])
    <3> DEFINE j == m + (k + 1)
    <3>4. j \in 1..Len(list)
      BY <2>1
    <3>5. list[j] = w[k + 1]
      BY <2>2
    <3>6. j - 1 = m + k
      <4>1. \A x, y \in Nat : x + (y + 1) - 1 = x + y
        OBVIOUS
      <4> QED BY <1>3, <2>1, <4>1
    <3>1. j \in 1..Len(list) /\ j - 1 = m + k /\ list[j] = w[k + 1]
      BY <3>4, <3>5, <3>6, Zenon
    <3> HIDE DEF j
    <3>2. run[j] = ReadArg(run[j - 1], list[j])
      BY <1>5, <3>1
    <3>3. run[j] = ReadArg(run[m + k], w[k + 1])
      BY <3>1, <3>2
    <3> QED BY <3>3 DEF j
  <2>4. IsWord(w[k + 1]) /\ w[k + 1] \in A /\ w[k + 1] \in B /\ Given(w[k + 1]) \in B
    BY <1>6, <1>8, <2>1, <2>2
  <2>5. Leaves(p, w, k, run[m + k]) /\ run[m + k] \in Parsing(A, B)
    BY <1>5, <1>13, <2>1
  <2>6. Leaves(p, w, k + 1, ReadArg(run[m + k], w[k + 1]))
    BY <1>10, <1>11, <2>1, <2>4, <2>5, LeavesNext
  <2> QED BY <2>1, <2>3, <2>6
<1> DEFINE q == run[Len(list)]
<1>14. Leaves(p, w, Len(w), q)
  <2>1. Len(w) \in 0..Len(w)
    BY <1>3
  <2>2. \A k \in 0..Len(w) : k \in T
    <3> HIDE DEF T
    <3> QED BY <1>3, <1>12, <1>13, PrefixInd
  <2> QED BY <1>3, <2>1, <2>2
<1>15. {w[j] : j \in 1..Len(w)} = ToSet(w)
  <2>1. DOMAIN w = 1..Len(w)
    <3>1. Sequence(w)
      BY <1>7, TypedSequence DEF w
    <3> QED BY <3>1, SequenceFacts
  <2> QED BY <2>1 DEF ToSet
<1> HIDE DEF q
<1>16. CASE p.at = "error"
  <2>1. q.at = "error"
    BY <1>14, <1>16 DEF Leaves
  <2> QED BY <1>10, <1>16, <2>1 DEF q, run, list, role, N
<1>17. CASE p.at \in {"flags", "rest"}
  <2>1. /\ q.at \in {"flags", "rest"} /\ q.settings = p.settings
        /\ ToSet(q.rest) = ToSet(p.rest) \cup ToSet(w) /\ Len(q.rest) = Len(p.rest) + Len(w)
    BY <1>14, <1>15, <1>17 DEF Leaves
  <2>2. Converting(args, role, N) /\ SetTo(args, role, N, p.settings) /\ Collected(args, role, N, p.rest, w)
    BY <1>10, <1>17 DEF Understood
  <2>3. ToSet(q.rest) = {args[i] : i \in Spoken(role, N)} /\ Len(q.rest) = Cardinality(Spoken(role, N))
    BY <2>1, <2>2 DEF Collected
  <2>4. q.at # "error"
    BY <2>1
  <2> QED BY <2>1, <2>2, <2>3, <2>4 DEF q, run, list, role, N
<1> QED BY <1>10, <1>11, <1>16, <1>17

\* The options: what the settings hold, and what is made of them.
OptionsTyped(o) ==
  /\ DOMAIN o = DOMAIN Kind /\ o = [f \in DOMAIN Kind |-> o[f]]
  /\ \A f \in Amounts : o[f] \in Int
  /\ \A f \in Toggles : o[f] \in BOOLEAN

LEMMA SettingsTyped ==
  ASSUME NEW B, NEW s \in Settings(B)
  PROVE  OptionsTyped(s)
<1>1. DOMAIN s = DOMAIN Kind /\ s = [f \in DOMAIN Kind |-> s[f]] /\ \A f \in DOMAIN Kind : s[f] \in ValuesOf(f, B)
  BY DEF Settings
<1>2. \A f \in Amounts \cup Toggles : f \in DOMAIN Kind /\ f # "header"
  BY DEF Kind, Amounts, Toggles
<1>3. \A d \in DOMAIN Numbers : Numbers[d] \in Int /\ -Numbers[d] \in Int
  BY DEF Numbers, NumberOf
<1>4. ASSUME NEW f \in Amounts PROVE s[f] \in Int
  <2>1. Kind[f] = "int" /\ Kind[f] # "bool" /\ f \in DOMAIN Kind /\ f # "header"
    BY <1>2, KindsOfFlags
  <2>2. ValuesOf(f, B) = {Defaults[f]} \cup {Converted("int", b) : b \in {c \in B : Converts("int", c)}}
    BY <2>1 DEF ValuesOf
  <2>3. ASSUME NEW b \in B, Converts("int", b) PROVE Converted("int", b) \in Int
    <3>1. b.name \in DOMAIN Numbers
      BY <2>3 DEF Converts
    <3>2. Converted("int", b) = IF b.dashes = 1 THEN -Numbers[b.name] ELSE Numbers[b.name]
      BY DEF Converted
    <3> QED BY <1>3, <3>1, <3>2
  <2> QED BY <1>1, <2>1, <2>2, <2>3, DefaultsTyped
<1>5. ASSUME NEW f \in Toggles PROVE s[f] \in BOOLEAN
  <2>1. Kind[f] = "bool" /\ f \in DOMAIN Kind /\ f # "header"
    BY <1>2, KindsOfFlags
  <2>2. ValuesOf(f, B) = {Defaults[f]} \cup {Converted("bool", b) : b \in {c \in B : Converts("bool", c)}} \cup {TRUE}
    BY <2>1, Zenon DEF ValuesOf
  <2>3. \A b : Converted("bool", b) = (b.name = "true")
    BY DEF Converted
  <2>4. \A b : Converted("bool", b) \in BOOLEAN
    BY <2>3, Zenon
  <2>5. s[f] = Defaults[f] \/ (\E b \in B : s[f] = Converted("bool", b)) \/ s[f] = TRUE
    BY <1>1, <2>1, <2>2, Zenon
  <2>6. Defaults[f] \in BOOLEAN
    BY DefaultsTyped
  <2> QED BY <2>4, <2>5, <2>6, Zenon
<1> QED BY <1>1, <1>4, <1>5 DEF OptionsTyped

LEMMA OptionsAre ==
  ASSUME NEW s, OptionsTyped(s)
  PROVE  LET o == OptionsFrom(s) IN OptionsTyped(o) /\ o["delay"] \in Nat
<1> DEFINE l == [s EXCEPT !["sort-query-params"] = FALSE]
           p == IF s["legacy-mode"] THEN l ELSE s
           o == [p EXCEPT !["delay"] = IF @ < 0 THEN 0 ELSE @]
<1>1. OptionsFrom(s) = o
  BY DEF OptionsFrom, LegacyPreset
<1>2. /\ "delay" \in Amounts /\ "sort-query-params" \in Toggles /\ "delay" \notin Toggles /\ "sort-query-params" \notin Amounts
      /\ \A f \in Amounts \cup Toggles : f \in DOMAIN Kind
  BY DEF Kind, Amounts, Toggles
<1>3. OptionsTyped(l)
  <2>1. DOMAIN l = DOMAIN Kind /\ l = [f \in DOMAIN Kind |-> l[f]]
    BY DEF OptionsTyped
  <2>2. \A f \in DOMAIN Kind : f # "sort-query-params" => l[f] = s[f]
    BY DEF OptionsTyped
  <2>3. l["sort-query-params"] = FALSE
    BY <1>2, Zenon DEF OptionsTyped
  <2>4. l["sort-query-params"] \in BOOLEAN
    BY <2>3, Zenon
  <2> HIDE DEF l
  <2>5. \A f \in Amounts : l[f] \in Int
    BY <1>2, <2>2 DEF OptionsTyped
  <2>6. \A f \in Toggles : l[f] \in BOOLEAN
    BY <1>2, <2>2, <2>4 DEF OptionsTyped
  <2> QED BY <2>1, <2>5, <2>6 DEF OptionsTyped
<1> HIDE DEF l
<1>4. OptionsTyped(p)
  BY <1>3
<1> HIDE DEF p
<1>5. p["delay"] \in Int
  BY <1>2, <1>4 DEF OptionsTyped
<1>6. DOMAIN o = DOMAIN Kind /\ o = [f \in DOMAIN Kind |-> o[f]]
  BY <1>4 DEF OptionsTyped
<1>7. /\ \A f \in DOMAIN Kind : f # "delay" => o[f] = p[f]
      /\ o["delay"] = IF p["delay"] < 0 THEN 0 ELSE p["delay"]
  BY <1>2, <1>4 DEF OptionsTyped
<1> HIDE DEF o
<1>8. o["delay"] \in Nat
  BY <1>5, <1>7
<1>9. OptionsTyped(o)
  BY <1>2, <1>4, <1>6, <1>7, <1>8 DEF OptionsTyped
<1> QED BY <1>1, <1>8, <1>9

LEMMA ValidOptionsWork ==
  ASSUME NEW o, OptionsTyped(o), o["delay"] \in Nat, NEW word
  PROVE  Validate(o, SeedOf(word)) <=>
           /\ Workable(o) /\ SeedOf(word).parses /\ SeedOf(word).scheme # "ftp"
           /\ o["include-subdomains"] => o["same-origin"]
<1>1. /\ o["concurrency"] \in Int /\ o["per-host-concurrency"] \in Int /\ o["max-pages"] \in Int /\ o["max-depth"] \in Int
      /\ o["max-frontier-size"] \in Int /\ o["max-body-bytes"] \in Int
      /\ o["render-concurrency"] \in Int /\ o["render-timeout"] \in Int
  BY DEF OptionsTyped, Amounts
<1>2. SeedOf(word).scheme \in {"ftp", "http"}
  BY DEF SeedOf
<1>3. SeedOf(word).scheme \in {"http", "https"} <=> SeedOf(word).scheme # "ftp"
  BY <1>2
<1> DEFINE Renders == o["render-js"]
           Sub == o["include-subdomains"] => o["same-origin"]
           Parses == SeedOf(word).parses
           c == o["concurrency"]
           h == o["per-host-concurrency"]
           n == o["max-pages"]
           d == o["max-depth"]
           f == o["max-frontier-size"]
           b == o["max-body-bytes"]
           r == o["render-concurrency"]
           t == o["render-timeout"]
           w == o["delay"]
<1>4. Validate(o, SeedOf(word)) <=>
        /\ Parses /\ SeedOf(word).scheme \in {"http", "https"}
        /\ c >= 1 /\ h \in 1..c /\ n >= 0 /\ d >= 0 /\ b >= 1 /\ f >= 1
        /\ Renders => r >= 1 /\ t > 0
        /\ Sub
  BY Zenon DEF Validate, PerHostFits
<1>5. Workable(o) <=>
        /\ {n, d, w} \subseteq Nat /\ {c, h, f, b} \subseteq Nat \ {0} /\ h <= c
        /\ Renders => {r, t} \subseteq Nat \ {0}
  BY Zenon DEF Workable
<1>6. w \in Nat
  OBVIOUS
<1> HIDE DEF Renders, Sub, Parses, c, h, n, d, f, b, r, t, w
<1>7. c \in Int /\ h \in Int /\ n \in Int /\ d \in Int /\ f \in Int /\ b \in Int /\ r \in Int /\ t \in Int
  BY <1>1 DEF c, h, n, d, f, b, r, t
<1>8. (c >= 1 /\ h \in 1..c) <=> (c \in Nat \ {0} /\ h \in Nat \ {0} /\ h <= c)
  BY <1>7
<1>9. /\ n >= 0 <=> n \in Nat
      /\ d >= 0 <=> d \in Nat
      /\ b >= 1 <=> b \in Nat \ {0}
      /\ f >= 1 <=> f \in Nat \ {0}
      /\ r >= 1 <=> r \in Nat \ {0}
      /\ t > 0 <=> t \in Nat \ {0}
  BY <1>7
<1>10. Workable(o) <=>
        /\ n \in Nat /\ d \in Nat /\ c \in Nat \ {0} /\ h \in Nat \ {0} /\ h <= c /\ f \in Nat \ {0} /\ b \in Nat \ {0}
        /\ Renders => r \in Nat \ {0} /\ t \in Nat \ {0}
  BY <1>5, <1>6
<1> QED BY <1>3, <1>4, <1>8, <1>9, <1>10 DEF Sub, Parses

LEMMA WritersAre ==
  ASSUME NEW path
  PROVE  ("console" \in ToSet(WriterFor(path))) # ("records on stdout" \in ToSet(WriterFor(path)))
<1> DEFINE w == WriterFor(path)
<1>1. w = <<"records on stdout">> \/ w = <<"console">> \/ w = <<"console", "records in a file">>
  BY Zenon DEF WriterFor
<1> HIDE DEF w
<1>2. ASSUME w = <<"records on stdout">> PROVE "records on stdout" \in ToSet(w) /\ "console" \notin ToSet(w)
  <2>1. ToSet(w) = {"records on stdout"}
    BY <1>2, ShortSequences
  <2> QED BY <2>1
<1>3. ASSUME w = <<"console">> PROVE "records on stdout" \notin ToSet(w) /\ "console" \in ToSet(w)
  <2>1. ToSet(w) = {"console"}
    BY <1>3, ShortSequences
  <2> QED BY <2>1
<1>4. ASSUME w = <<"console", "records in a file">> PROVE "records on stdout" \notin ToSet(w) /\ "console" \in ToSet(w)
  <2>1. DOMAIN w = 1..2 /\ w[1] = "console" /\ w[2] = "records in a file"
    <3>1. DOMAIN <<"console", "records in a file">> = 1..2
      OBVIOUS
    <3>2. <<"console", "records in a file">>[1] = "console" /\ <<"console", "records in a file">>[2] = "records in a file"
      OBVIOUS
    <3> QED BY <1>4, <3>1, <3>2, Zenon
  <2>2. \A k \in 1..2 : k = 1 \/ k = 2
    OBVIOUS
  <2>3. 1 \in 1..2
    OBVIOUS
  <2> QED BY <2>1, <2>2, <2>3 DEF ToSet
<1>5. ("console" \in ToSet(w)) # ("records on stdout" \in ToSet(w))
  BY <1>1, <1>2, <1>3, <1>4, Zenon
<1> QED BY <1>5 DEF w


-----------------------------------------------------------------------------
\* What the whole command line says.
LEMMA SaidClearly ==
  ASSUME NEW args, Sequence(args)
  PROVE  LET role == Roles(args)
             n == Len(args)
             said == Meant(args)
             one == Cardinality(Spoken(role, n)) = 1
         IN  /\ role[n] = "takes" => ~said.runs
             /\ role[n] # "takes" => (said.runs <=> one /\ Converting(args, role, n))
             /\ role[n] # "takes" /\ said.runs =>
                  /\ said.seed = args[CHOOSE i \in Spoken(role, n) : TRUE]
                  /\ DOMAIN said.settings = DOMAIN Kind /\ said.settings = [f \in DOMAIN Kind |-> said.settings[f]]
                  /\ SetTo(args, role, n, said.settings)
<1> DEFINE role == Roles(args)
           n == Len(args)
           Sets(f) == SetBy(args, role, f)
           words == {i \in 1..n : role[i] \in {"word", "rest"}}
           clear == /\ Cardinality(words) = 1 /\ role[n] # "takes"
                    /\ \A i \in 1..n : role[i] # "unknown"
                    /\ \A f \in DOMAIN Kind : \A i \in Sets(f) : Converts(Kind[f], ValueOf(args, role, i))
           LastOf(T) == CHOOSE i \in T : \A j \in T : j <= i
           Cut(i) == Cuts[Text(ValueOf(args, role, i))]
           Named(m) == {i \in Sets("header") : Cut(i).name = m}
           headers == [m \in {Cut(i).name : i \in Sets("header")} |-> Cut(LastOf(Named(m))).value]
           V(f) == CASE f = "header" -> headers
                     [] f # "header" /\ Sets(f) = {} -> Defaults[f]
                     [] OTHER -> Converted(Kind[f], ValueOf(args, role, LastOf(Sets(f))))
           full == [runs |-> TRUE, seed |-> args[CHOOSE i \in words : TRUE], settings |-> [f \in DOMAIN Kind |-> V(f)]]
           said == Meant(args)
<1>1. said = IF ~clear THEN NotStarted ELSE full
  BY Zenon DEF Meant
<1>2. ~NotStarted.runs
  BY Zenon DEF NotStarted
<1>3. full.runs
  BY Zenon
<1>4. full.seed = args[CHOOSE i \in words : TRUE] /\ full.settings = [f \in DOMAIN Kind |-> V(f)]
  BY Zenon
<1>5. words = Spoken(role, n)
  BY DEF Spoken
<1>6. clear => role[n] # "takes"
  OBVIOUS
<1>7. n \in Nat
  BY SequenceFacts
<1> HIDE DEF full, words
<1>8. role[n] = "takes" => ~said.runs
  BY <1>1, <1>2, <1>6
<1>9. ASSUME role[n] # "takes" PROVE \A f : Sets(f) = Completed(args, role, n, f)
  <2>1. ASSUME NEW f PROVE \A i : i \in Sets(f) <=> i \in Completed(args, role, n, f)
    <3>1. \A i \in 1..n : i # n => i < n
      BY <1>7
    <3>2. \A i \in 1..n : role[i] = "takes" => i < n
      BY <1>9, <3>1
    <3> HIDE DEF role, n
    <3>3. ASSUME NEW i
          PROVE  /\ i \in SetBy(args, role, f) <=> i \in 1..Len(args) /\ role[i] \in {"takes", "whole"} /\ args[i].name = f
                 /\ i \in Completed(args, role, n, f) <=>
                      /\ i \in 1..n /\ role[i] \in {"takes", "whole"} /\ args[i].name = f /\ (role[i] = "takes" => i < n)
      BY DEF SetBy, Completed
    <3> QED BY <3>2, <3>3 DEF n
  <2> QED BY <2>1
<1>10. ASSUME role[n] # "takes"
       PROVE  clear <=> Cardinality(words) = 1 /\ Converting(args, role, n)
  <2>1. \A f : Sets(f) = Completed(args, role, n, f)
    BY <1>9, <1>10
  <2> HIDE DEF Sets, role, n
  <2> QED BY <1>10, <2>1, Zenon DEF Converting
<1>11. role[n] # "takes" => (said.runs <=> Cardinality(Spoken(role, n)) = 1 /\ Converting(args, role, n))
  <2> HIDE DEF said, clear, role, n
  <2> QED BY <1>1, <1>2, <1>3, <1>5, <1>10, Zenon
<1>12. said.runs => said = full
  BY <1>1, <1>2
<1>13. ASSUME role[n] # "takes"
       PROVE  SetTo(args, role, n, [f \in DOMAIN Kind |-> V(f)])
  <2> DEFINE C(f) == Completed(args, role, n, f)
             s == [f \in DOMAIN Kind |-> V(f)]
  <2>1. \A f : Sets(f) = C(f)
    BY <1>9, <1>13
  <2> HIDE DEF Sets, C, role
  <2>2. ASSUME NEW f \in DOMAIN Kind, f = "header"
        PROVE  GivenLast(args, role, C(f), V(f))
    <3> DEFINE T == C("header")
               name(i) == CutAt(args, role, i).name
               value(i) == CutAt(args, role, i).value
               Of(m) == {i \in T : name(i) = m}
    <3>1. V(f) = headers
      BY <2>2, Zenon
    <3>2. headers = [m \in {name(i) : i \in T} |-> value(LastOf(Of(m)))]
      <4> DEFINE heads(S) == [m \in {Cut(i).name : i \in S} |-> Cut(LastOf({i \in S : Cut(i).name = m})).value]
      <4>1. headers = heads(Sets("header"))
        OBVIOUS
      <4>2. heads(T) = [m \in {name(i) : i \in T} |-> value(LastOf(Of(m)))]
        BY Zenon DEF CutAt
      <4> HIDE DEF heads, headers
      <4> QED BY <2>1, <4>1, <4>2
    <3>3. T \subseteq Nat /\ \A i \in T : i <= n
      BY <1>7 DEF Completed, C
    <3> HIDE DEF V, headers, T, name, value
    <3>4. ASSUME NEW m, Of(m) # {} PROVE LastOf(Of(m)) \in Of(m) /\ \A j \in Of(m) : j <= LastOf(Of(m))
      <4>1. Of(m) \subseteq Nat /\ \A i \in Of(m) : i <= n
        BY <3>3
      <4> HIDE DEF Of
      <4>2. \E i \in Of(m) : \A j \in Of(m) : j <= i
        BY <1>7, <3>4, <4>1, GreatestNat
      <4> QED BY <4>2
    <3> HIDE DEF LastOf
    <3>5. \A m : m \in DOMAIN headers <=> \E i \in T : name(i) = m
      BY <3>2
    <3>6. ASSUME NEW m \in DOMAIN headers
          PROVE  \E i \in T : name(i) = m /\ headers[m] = value(i) /\ \A j \in T : name(j) = m => j <= i
      <4>1. Of(m) # {} /\ headers[m] = value(LastOf(Of(m)))
        BY <3>2, <3>5
      <4> QED BY <3>4, <4>1
    <3>7. headers = [m \in DOMAIN headers |-> headers[m]]
      BY <3>2
    <3>8. GivenLast(args, role, T, headers)
      BY <3>5, <3>6, <3>7, Zenon DEF GivenLast, name, value
    <3> QED BY <2>2, <3>1, <3>8 DEF T
  <2>3. ASSUME NEW f \in DOMAIN Kind, f # "header", C(f) = {} PROVE V(f) = Defaults[f]
    BY <2>1, <2>3
  <2>4. ASSUME NEW f \in DOMAIN Kind, f # "header", C(f) # {}
        PROVE  \E i \in C(f) : Latest(C(f), i) /\ V(f) = Converted(Kind[f], ValueOf(args, role, i))
    <3>1. V(f) = Converted(Kind[f], ValueOf(args, role, LastOf(C(f))))
      BY <2>1, <2>4
    <3>2. C(f) \subseteq Nat /\ \A i \in C(f) : i <= n
      BY <1>7 DEF Completed, C
    <3>3. \E i \in C(f) : \A j \in C(f) : j <= i
      BY <1>7, <2>4, <3>2, GreatestNat
    <3>4. LastOf(C(f)) \in C(f) /\ \A j \in C(f) : j <= LastOf(C(f))
      BY <2>1, <3>3
    <3> HIDE DEF LastOf, V
    <3> QED BY <3>1, <3>4 DEF Latest
  <2> HIDE DEF V
  <2>5. \A f \in DOMAIN Kind : s[f] = V(f)
    OBVIOUS
  <2> HIDE DEF s
  <2>6. SetTo(args, role, n, s)
    BY <2>2, <2>3, <2>4, <2>5, Zenon DEF SetTo, C
  <2> QED BY <2>6 DEF s
<1>14. ASSUME role[n] # "takes", said.runs
       PROVE  /\ said.seed = args[CHOOSE i \in Spoken(role, n) : TRUE]
              /\ DOMAIN said.settings = DOMAIN Kind /\ said.settings = [f \in DOMAIN Kind |-> said.settings[f]]
              /\ SetTo(args, role, n, said.settings)
  <2>1. said.settings = [f \in DOMAIN Kind |-> V(f)]
    BY <1>4, <1>12, <1>14
  <2>2. said.seed = args[CHOOSE i \in Spoken(role, n) : TRUE]
    <3> HIDE DEF said
    <3> QED BY <1>4, <1>5, <1>12, <1>14, Zenon
  <2> HIDE DEF said, V
  <2> QED BY <1>13, <1>14, <2>1, <2>2
<1> QED BY <1>8, <1>11, <1>14

\* What is set is determined.
LEMMA SetOnce ==
  ASSUME NEW args, NEW role, NEW n \in Nat, NEW s, NEW t, SetTo(args, role, n, s), SetTo(args, role, n, t)
  PROVE  \A f \in DOMAIN Kind : s[f] = t[f]
<1> SUFFICES ASSUME NEW f \in DOMAIN Kind PROVE s[f] = t[f]
  OBVIOUS
<1> DEFINE T == Completed(args, role, n, f)
<1>1. T \subseteq Nat
  BY DEF Completed
<1> HIDE DEF T
<1>2. CASE f = "header"
  <2>1. GivenLast(args, role, T, s[f]) /\ GivenLast(args, role, T, t[f])
    BY <1>2, Zenon DEF SetTo, T
  <2> DEFINE name(i) == CutAt(args, role, i).name
             value(i) == CutAt(args, role, i).value
             Says(h) == /\ h = [m \in DOMAIN h |-> h[m]]
                        /\ \A m : m \in DOMAIN h <=> \E i \in T : name(i) = m
                        /\ \A m \in DOMAIN h : \E i \in T :
                             name(i) = m /\ h[m] = value(i) /\ \A j \in T : name(j) = m => j <= i
  <2>2. Says(s[f]) /\ Says(t[f])
    BY <2>1, Zenon DEF GivenLast
  <2> HIDE DEF name, value
  <2>3. ASSUME NEW h, NEW k, Says(h), Says(k) PROVE h = k
    <3>1. \A m : m \in DOMAIN h <=> m \in DOMAIN k
      BY <2>3
    <3>2. DOMAIN h = DOMAIN k
      BY <3>1
    <3>3. ASSUME NEW m \in DOMAIN h PROVE h[m] = k[m]
      <4>1. PICK i \in T : name(i) = m /\ h[m] = value(i) /\ \A j \in T : name(j) = m => j <= i
        BY <2>3
      <4>2. PICK e \in T : name(e) = m /\ k[m] = value(e) /\ \A j \in T : name(j) = m => j <= e
        BY <2>3, <3>2
      <4>3. e = i
        BY <1>1, <4>1, <4>2
      <4> QED BY <4>1, <4>2, <4>3
    <3>4. h = [m \in DOMAIN h |-> h[m]] /\ k = [m \in DOMAIN k |-> k[m]]
      BY <2>3
    <3> HIDE DEF Says
    <3> QED BY <3>2, <3>3, <3>4
  <2> HIDE DEF Says
  <2> QED BY <2>2, <2>3
<1>3. CASE f # "header"
  <2>1. \/ T = {} /\ s[f] = Defaults[f]
        \/ \E i \in T : Latest(T, i) /\ s[f] = Converted(Kind[f], ValueOf(args, role, i))
    BY <1>3, Zenon DEF SetTo, T
  <2>2. \/ T = {} /\ t[f] = Defaults[f]
        \/ \E i \in T : Latest(T, i) /\ t[f] = Converted(Kind[f], ValueOf(args, role, i))
    BY <1>3, Zenon DEF SetTo, T
  <2>3. \A i, j : Latest(T, i) /\ Latest(T, j) => i = j
    BY <1>1 DEF Latest
  <2> QED BY <2>1, <2>2, <2>3
<1> QED BY <1>2, <1>3

\* What starts, when the parser's last state is q.
LEMMA StartIs ==
  ASSUME NEW args, Sequence(args), NEW fails
  PROVE  LET q == Reading(ReorderArgs(args))[Len(ReorderArgs(args))]
             o == OptionsFrom(q.settings)
             got == Start(args, fails)
             starts == /\ q.at \in {"flags", "rest"} /\ ~q.settings["version"] /\ Len(q.rest) = 1
                       /\ Validate(o, SeedOf(q.rest[1])) /\ ~Fatal(fails, o["output"])
         IN  /\ OptionsTyped(q.settings) /\ Sequence(q.rest)
             /\ got.runs <=> starts
             /\ got.runs => got.seed = q.rest[1] /\ got.options = o /\ got.writers = WriterFor(o["output"])
<1> DEFINE list == ReorderArgs(args)
           A == ToSet(list)
           B == Readable(list)
           q == Reading(list)[Len(list)]
           o == OptionsFrom(q.settings)
           valid == Validate(o, SeedOf(q.rest[1]))
           asks == q.settings["version"]
           breaks == Fatal(fails, o["output"])
           parsed == ParseArgs(list)
           full == [runs |-> TRUE, seed |-> q.rest[1], options |-> o, writers |-> WriterFor(o["output"])]
           got == Start(args, fails)
<1>1. Sequence(list) /\ Len(list) \in 0..Len(list)
  <2>1. Sequence(list)
    BY Reordered
  <2> HIDE DEF list
  <2>2. Len(list) \in Nat
    BY <2>1, SequenceFacts
  <2> QED BY <2>1, <2>2
<1>2. q \in Parsing(A, B)
  BY <1>1, ReadingRuns
<1>3. /\ q.at \in {"flags", "value", "rest", "error"} /\ q.settings \in Settings(B) /\ q.rest \in Seq(A)
      /\ q = [at |-> q.at, flag |-> q.flag, settings |-> q.settings, rest |-> q.rest]
  BY <1>2 DEF Parsing
<1>4. OptionsTyped(q.settings) /\ Sequence(q.rest)
  BY <1>3, SettingsTyped, TypedSequence
<1>5. parsed = [q EXCEPT !.at = IF @ \in {"value", "error"} THEN "error" ELSE "parsed"]
  BY DEF ParseArgs
<1>6. got = IF \/ parsed.at = "error" \/ parsed.settings["version"] \/ Len(parsed.rest) # 1
                 \/ ~Validate(OptionsFrom(parsed.settings), SeedOf(parsed.rest[1]))
                 \/ Fatal(fails, OptionsFrom(parsed.settings)["output"])
              THEN NotStarted
              ELSE [runs |-> TRUE, seed |-> parsed.rest[1], options |-> OptionsFrom(parsed.settings),
                    writers |-> WriterFor(OptionsFrom(parsed.settings)["output"])]
  BY Zenon DEF Start
<1> HIDE DEF q, parsed, got, list, A, B
<1>7. /\ parsed.settings = q.settings /\ parsed.rest = q.rest
      /\ parsed.at = "error" <=> q.at \in {"value", "error"}
  BY <1>3, <1>5
<1>8. got = IF q.at \in {"value", "error"} \/ asks \/ Len(q.rest) # 1 \/ ~valid \/ breaks THEN NotStarted ELSE full
  BY <1>6, <1>7, Zenon
<1>9. ~NotStarted.runs
  BY Zenon DEF NotStarted
<1>10. full.runs
  BY Zenon
<1>11. full.seed = q.rest[1] /\ full.options = o /\ full.writers = WriterFor(o["output"])
  BY Zenon
<1>12. q.at \in {"flags", "rest"} <=> q.at \notin {"value", "error"}
  BY <1>3
<1> HIDE DEF full, valid, asks, breaks, o
<1>13. got.runs <=> q.at \notin {"value", "error"} /\ ~asks /\ Len(q.rest) = 1 /\ valid /\ ~breaks
  BY <1>8, <1>9, <1>10, Zenon
<1>14. got.runs => got = full
  BY <1>8, <1>9, Zenon
<1> QED BY <1>4, <1>11, <1>12, <1>13, <1>14 DEF q, got, valid, asks, breaks, o, list

\* A command line that means one crawl starts that one, wherever its flags stand: of
\* a line that does not end in a flag without its value, the parser reads, in the
\* order ReorderArgs gives it, what is said from left to right; and what starts has
\* options a crawl can work with.
THEOREM ArgsCorrect == Spec => []ArgsKeepTheirMeaning
<1>1. ASSUME IsCase(input) PROVE ArgsKeepTheirMeaning
  <2> DEFINE args == input.args
             fails == input.fails
             role == Roles(args)
             n == Len(args)
             said == Meant(args)
             got == Start(args, fails)
             q == Reading(ReorderArgs(args))[Len(ReorderArgs(args))]
             words == Spoken(role, n)
             Fine(o, seed) == /\ Workable(o) /\ SeedOf(seed).parses /\ SeedOf(seed).scheme # "ftp"
                              /\ o["include-subdomains"] => o["same-origin"]
             Allowed(s) == ~s["version"] /\ ~Fatal(fails, OptionsFrom(s)["output"])
             Possible == Fine(OptionsFrom(said.settings), said.seed) /\ Allowed(said.settings)
  <2>1. SUFFICES ASSUME Is("args") PROVE ArgsKeepTheirMeaning
    BY DEF ArgsKeepTheirMeaning
  <2>2. Sequence(args)
    BY <1>1, <2>1, CaseOfKind, AlgorithmsAssumption DEF Is
  <2>3. SUFFICES /\ got.runs => Workable(got.options)
                 /\ got.runs => ("console" \in ToSet(got.writers)) # ("records on stdout" \in ToSet(got.writers))
                 /\ said.runs /\ Possible =>
                      got.runs /\ got.seed = said.seed /\ got.options = OptionsFrom(said.settings)
                 /\ got.runs /\ ~Trailing(args) => said.runs /\ Possible
    BY Zenon DEF ArgsKeepTheirMeaning
  <2>4. n \in Nat /\ (n = 0 => role[n] = "word") /\ (n # 0 <=> args # <<>>)
    <3>1. n \in Nat /\ (n # 0 <=> args # <<>>)
      BY <2>2, SequenceFacts
    <3>2. role[0] = "word"
      BY <2>2, RolesRun
    <3> QED BY <3>1, <3>2
  <2>5. Trailing(args) <=> role[n] = "takes"
    <3> HIDE DEF args
    <3> QED BY <2>4 DEF Trailing
  <2>6. /\ OptionsTyped(q.settings) /\ Sequence(q.rest)
        /\ got.runs <=> /\ q.at \in {"flags", "rest"} /\ Len(q.rest) = 1
                        /\ Validate(OptionsFrom(q.settings), SeedOf(q.rest[1])) /\ Allowed(q.settings)
        /\ got.runs => /\ got.seed = q.rest[1] /\ got.options = OptionsFrom(q.settings)
                       /\ got.writers = WriterFor(OptionsFrom(q.settings)["output"])
    <3> HIDE DEF args, fails
    <3> QED BY <2>2, StartIs
  <2>7. /\ role[n] = "takes" => ~said.runs
        /\ role[n] # "takes" => (said.runs <=> Cardinality(words) = 1 /\ Converting(args, role, n))
        /\ role[n] # "takes" /\ said.runs =>
             /\ said.seed = args[CHOOSE i \in words : TRUE]
             /\ DOMAIN said.settings = DOMAIN Kind /\ said.settings = [f \in DOMAIN Kind |-> said.settings[f]]
             /\ SetTo(args, role, n, said.settings)
    <3> HIDE DEF args
    <3> QED BY <2>2, SaidClearly
  <2>8. role[n] # "takes" =>
          /\ q.at = "error" => ~Converting(args, role, n)
          /\ q.at # "error" =>
               /\ q.at \in {"flags", "rest"} /\ Converting(args, role, n) /\ SetTo(args, role, n, q.settings)
               /\ ToSet(q.rest) = {args[i] : i \in words} /\ Len(q.rest) = Cardinality(words)
    <3> HIDE DEF args
    <3> QED BY <2>2, ReadAsSaid
  <2> HIDE DEF args, fails, role, n, said, got, q, words, Allowed
  <2>9. \A word : Validate(OptionsFrom(q.settings), SeedOf(word)) <=> Fine(OptionsFrom(q.settings), word)
    <3>1. OptionsTyped(OptionsFrom(q.settings)) /\ OptionsFrom(q.settings)["delay"] \in Nat
      BY <2>6, OptionsAre
    <3> QED BY <3>1, ValidOptionsWork
  <2>10. ASSUME role[n] # "takes", said.runs
         PROVE  q.at \in {"flags", "rest"} /\ Len(q.rest) = 1 /\ said.seed = q.rest[1] /\ said.settings = q.settings
    <3>1. /\ q.at \in {"flags", "rest"} /\ SetTo(args, role, n, q.settings) /\ SetTo(args, role, n, said.settings)
          /\ ToSet(q.rest) = {args[i] : i \in words} /\ Len(q.rest) = 1 /\ Cardinality(words) = 1
          /\ said.seed = args[CHOOSE i \in words : TRUE]
      <4>1. Cardinality(words) = 1 /\ Converting(args, role, n)
        BY <2>7, <2>10, Zenon
      <4>2. said.seed = args[CHOOSE i \in words : TRUE] /\ SetTo(args, role, n, said.settings)
        BY <2>7, <2>10, Zenon
      <4>3. /\ q.at \in {"flags", "rest"} /\ SetTo(args, role, n, q.settings)
            /\ ToSet(q.rest) = {args[i] : i \in words} /\ Len(q.rest) = Cardinality(words)
        BY <2>8, <2>10, <4>1, Zenon
      <4> QED BY <4>1, <4>2, <4>3, Zenon
    <3>2. said.settings = q.settings
      <4>1. \A f \in DOMAIN Kind : said.settings[f] = q.settings[f]
        <5>1. n \in Nat /\ SetTo(args, role, n, q.settings) /\ SetTo(args, role, n, said.settings)
          BY <2>4, <3>1, Zenon
        <5> QED BY <5>1, SetOnce
      <4>2. said.settings = [f \in DOMAIN Kind |-> said.settings[f]]
        BY <2>7, <2>10
      <4>3. q.settings = [f \in DOMAIN Kind |-> q.settings[f]]
        BY <2>6 DEF OptionsTyped
      <4> QED BY <4>1, <4>2, <4>3
    <3>3. said.seed = q.rest[1]
      <4>1. PICK i : words = {i}
        <5>1. IsFiniteSet(words)
          <6>1. IsFiniteSet(1..n)
            BY <2>4, FS_Interval
          <6>2. words \subseteq 1..n
            BY DEF words, Spoken
          <6> QED BY <6>1, <6>2, FS_Subset
        <5> QED BY <3>1, <5>1, FS_Singleton
      <4>2. said.seed = args[i]
        BY <3>1, <4>1
      <4>3. q.rest[1] \in ToSet(q.rest)
        BY <2>6, <3>1, SequenceFacts
      <4> QED BY <3>1, <4>1, <4>2, <4>3
    <3> QED BY <3>1, <3>2, <3>3
  <2>11. ASSUME got.runs PROVE Fine(got.options, got.seed)
    BY <2>6, <2>9, <2>11
  <2>12. got.runs => Workable(got.options)
    BY <2>11
  <2>13. got.runs => ("console" \in ToSet(got.writers)) # ("records on stdout" \in ToSet(got.writers))
    BY <2>6, WritersAre, Zenon
  <2> HIDE DEF Fine
  <2>14. said.runs /\ Possible =>
           got.runs /\ got.seed = said.seed /\ got.options = OptionsFrom(said.settings)
    BY <2>6, <2>7, <2>9, <2>10
  <2>15. ASSUME got.runs, ~Trailing(args) PROVE said.runs /\ Possible
    <3>1. role[n] # "takes"
      BY <2>5, <2>15
    <3>2. q.at \in {"flags", "rest"} /\ Len(q.rest) = 1
      BY <2>6, <2>15
    <3>3. q.at # "error"
      BY <3>2
    <3>4. said.runs
      BY <2>7, <2>8, <3>1, <3>2, <3>3
    <3>5. got.seed = said.seed /\ got.options = OptionsFrom(said.settings)
      BY <2>6, <2>10, <2>15, <3>1, <3>4
    <3>6. Allowed(said.settings)
      BY <2>6, <2>10, <2>15, <3>1, <3>4
    <3> QED BY <2>11, <2>15, <3>4, <3>5, <3>6
  <2> QED BY <2>12, <2>13, <2>14, <2>15 DEF Fine
<1>2. Init => IsCase(input)
  BY DEF Init
<1>3. IsCase(input) /\ [Next]_<<input, writerVars>> => IsCase(input)'
  BY DEF Next, IsCase
<1> QED BY <1>1, <1>2, <1>3, PTL DEF Spec

-----------------------------------------------------------------------------
(* The laboratory: the oracle's walk of a site, and the crawl of it.       *)

\* A chain of redirects, and a walk, are what their recursive definitions say.
LEMMA ChainRuns ==
  ASSUME NEW site, NEW who, NEW place
  PROVE  LET at == Chain(site, who, place) IN
         /\ at[0] = [place |-> place, hops |-> 0]
         /\ \A n \in 1..MaxRedirectHops : at[n] = Hop(site, who, at[n - 1])
<1> DEFINE N == MaxRedirectHops
           b == [place |-> place, hops |-> 0]
           Step(w) == [n \in 0..N |-> IF n = 0 THEN b ELSE Hop(site, who, w[n - 1])]
           F == CHOOSE w : w = Step(w)
           RunsTo(w, n) == w[0] = b /\ \A k \in 1..n : w[k] = Hop(site, who, w[k - 1])
           T == {n \in 0..N : \E w : RunsTo(w, n)}
<1>1. N \in Nat
  BY DEF MaxRedirectHops
<1>2. Chain(site, who, place) = F
  BY DEF Chain
<1> HIDE DEF N, b
<1>3. 0 \in T
  <2>1. RunsTo([k \in {0} |-> b], 0)
    OBVIOUS
  <2> HIDE DEF RunsTo
  <2> QED BY <1>1, <2>1
<1>4. ASSUME NEW n \in 0..N - 1, n \in T PROVE n + 1 \in T
  <2>1. PICK w : RunsTo(w, n)
    BY <1>4
  <2> DEFINE v == [k \in 0..n + 1 |-> IF k = n + 1 THEN Hop(site, who, w[n]) ELSE w[k]]
  <2>2. v[0] = b
    BY <1>1, <2>1
  <2>3. ASSUME NEW k \in 1..n + 1 PROVE v[k] = Hop(site, who, v[k - 1])
    <3>1. k \in 0..n + 1 /\ k - 1 \in 0..n + 1 /\ k - 1 # n + 1 /\ (k = n + 1 => k - 1 = n) /\ (k # n + 1 => k \in 1..n)
      BY <1>1, <2>3
    <3>2. v[k - 1] = w[k - 1]
      BY <3>1
    <3>3. CASE k = n + 1
      BY <3>1, <3>2, <3>3
    <3>4. CASE k # n + 1
      BY <2>1, <3>1, <3>2, <3>4
    <3> QED BY <3>3, <3>4
  <2> HIDE DEF v
  <2>4. RunsTo(v, n + 1)
    BY <2>2, <2>3
  <2> HIDE DEF RunsTo
  <2> QED BY <1>1, <2>4
<1>5. PICK W : RunsTo(W, N)
  <2>1. N \in 0..N
    BY <1>1
  <2> HIDE DEF T
  <2>2. N \in T
    BY <1>1, <1>3, <1>4, <2>1, PrefixInd
  <2> QED BY <2>2 DEF T
<1> DEFINE A == [n \in 0..N |-> W[n]]
<1>6. A = Step(A)
  <2>1. \A n \in 0..N : n # 0 => n \in 1..N /\ n - 1 \in 0..N
    BY <1>1
  <2>2. ASSUME NEW n \in 0..N PROVE A[n] = Step(A)[n]
    <3>1. CASE n = 0
      BY <1>5, <3>1
    <3>2. CASE n # 0
      <4>1. A[n] = W[n] /\ A[n - 1] = W[n - 1] /\ W[n] = Hop(site, who, W[n - 1])
        BY <1>5, <2>1, <3>2
      <4> HIDE DEF A
      <4> QED BY <3>2, <4>1
    <3> QED BY <3>1, <3>2
  <2>3. A = [n \in 0..N |-> A[n]]
    OBVIOUS
  <2> HIDE DEF A
  <2> QED BY <2>2, <2>3
<1>7. F = Step(F)
  <2> HIDE DEF Step, A
  <2> QED BY <1>6
<1> HIDE DEF F
<1>8. F[0] = b /\ \A n \in 1..N : F[n] = Hop(site, who, F[n - 1])
  <2>1. 0 \in 0..N /\ \A n \in 1..N : n \in 0..N /\ n # 0
    BY <1>1
  <2>2. F[0] = Step(F)[0] /\ \A n \in 1..N : F[n] = Step(F)[n]
    BY <1>7
  <2>3. Step(F)[0] = b
    BY <2>1
  <2>4. ASSUME NEW n \in 1..N PROVE Step(F)[n] = Hop(site, who, F[n - 1])
    BY <2>1
  <2> HIDE DEF Step
  <2> QED BY <2>2, <2>3, <2>4
<1> QED BY <1>2, <1>8 DEF b, N

\* The bound of a walk is a number.
LEMMA EnoughIs ==
  ASSUME NEW site, IsSite(site)
  PROVE  Enough(site) \in Nat
<1> DEFINE D == DOMAIN site.pages
           Offers(page) == Len(Hrefs(page) \o page.forms) + 2 * Len(page.endpoints)
           M(place) == Offers(site.pages[place])
           S == {{place} \X (1..M(place)) : place \in D}
<1>1. Enough(site) = 1 + Cardinality(UNION S)
  BY DEF Enough
<1>2. IsFiniteSet(D)
  BY DEF IsSite
<1>3. IsFiniteSet(S)
  <2> DEFINE f == [place \in D |-> {place} \X (1..M(place))]
  <2>1. f \in Surjection(D, S)
    <3> HIDE DEF D, M
    <3> QED BY DEF Surjection
  <2> HIDE DEF f, S, D
  <2> QED BY <1>2, <2>1, FS_Surjection
<1>4. ASSUME NEW s \in S PROVE IsFiniteSet(s)
  <2>1. PICK place \in D : s = {place} \X (1..M(place))
    BY <1>4
  <2>2. M(place) \in Nat
    <3> DEFINE page == site.pages[place]
               t == Hrefs(page) \o page.forms
    <3>1. IsPageSpec(page)
      BY DEF IsSite
    <3>2. Sequence(t)
      <4>1. Sequence(page.links) /\ Sequence(page.scripts) /\ Sequence(page.data) /\ Sequence(page.forms)
        BY <3>1 DEF IsPageSpec
      <4> HIDE DEF page
      <4>2. Sequence(page.links \o page.scripts)
        BY <4>1, JoinSequences
      <4>3. Sequence(Hrefs(page))
        BY <4>1, <4>2, JoinSequences DEF Hrefs
      <4> QED BY <4>1, <4>3, JoinSequences
    <3>3. Sequence(page.endpoints)
      BY <3>1 DEF IsPageSpec
    <3>4. Len(t) \in Nat /\ Len(page.endpoints) \in Nat
      BY <3>2, <3>3, SequenceFacts
    <3>5. M(place) = Len(t) + 2 * Len(page.endpoints)
      OBVIOUS
    <3> HIDE DEF M, t, page
    <3>6. \A x, y \in Nat : x + 2 * y \in Nat
      OBVIOUS
    <3> QED BY <3>4, <3>5, <3>6
  <2> HIDE DEF M
  <2>3. M(place) \in Int /\ 1 \in Int
    BY <2>2
  <2>4. IsFiniteSet(1..M(place))
    BY <2>3, FS_Interval
  <2>5. IsFiniteSet({place})
    BY FS_Singleton
  <2> QED BY <2>1, <2>4, <2>5, FS_Product
<1> HIDE DEF S
<1>5. IsFiniteSet(UNION S)
  BY <1>3, <1>4, FS_UNION
<1>6. Cardinality(UNION S) \in Nat
  BY <1>5, FS_CardinalityType
<1> QED BY <1>1, <1>6

LEMMA WalkRuns ==
  ASSUME NEW site, IsSite(site), NEW who
  PROVE  /\ Enough(site) \in Nat
         /\ \E after : /\ Walk(site, who) = after[Enough(site)] /\ after[0] = AtSeed(site, who)
                       /\ \A n \in 1..Enough(site) : after[n] = Advance(site, who, after[n - 1])
<1> DEFINE N == Enough(site)
           b == AtSeed(site, who)
           Step(w) == [n \in 0..N |-> IF n = 0 THEN b ELSE Advance(site, who, w[n - 1])]
           F == CHOOSE w : w = Step(w)
           RunsTo(w, n) == w[0] = b /\ \A k \in 1..n : w[k] = Advance(site, who, w[k - 1])
           T == {n \in 0..N : \E w : RunsTo(w, n)}
<1>1. N \in Nat
  BY EnoughIs
<1>2. Walk(site, who) = F[N]
  BY DEF Walk
<1> HIDE DEF N, b
<1>3. 0 \in T
  <2>1. RunsTo([k \in {0} |-> b], 0)
    OBVIOUS
  <2> HIDE DEF RunsTo
  <2> QED BY <1>1, <2>1
<1>4. ASSUME NEW n \in 0..N - 1, n \in T PROVE n + 1 \in T
  <2>1. PICK w : RunsTo(w, n)
    BY <1>4
  <2> DEFINE v == [k \in 0..n + 1 |-> IF k = n + 1 THEN Advance(site, who, w[n]) ELSE w[k]]
  <2>2. v[0] = b
    BY <1>1, <2>1
  <2>3. ASSUME NEW k \in 1..n + 1 PROVE v[k] = Advance(site, who, v[k - 1])
    <3>1. k \in 0..n + 1 /\ k - 1 \in 0..n + 1 /\ k - 1 # n + 1 /\ (k = n + 1 => k - 1 = n) /\ (k # n + 1 => k \in 1..n)
      BY <1>1, <2>3
    <3>2. v[k - 1] = w[k - 1]
      BY <3>1
    <3>3. CASE k = n + 1
      BY <3>1, <3>2, <3>3
    <3>4. CASE k # n + 1
      BY <2>1, <3>1, <3>2, <3>4
    <3> QED BY <3>3, <3>4
  <2> HIDE DEF v
  <2>4. RunsTo(v, n + 1)
    BY <2>2, <2>3
  <2> HIDE DEF RunsTo
  <2> QED BY <1>1, <2>4
<1>5. PICK W : RunsTo(W, N)
  <2>1. N \in 0..N
    BY <1>1
  <2> HIDE DEF T
  <2>2. N \in T
    BY <1>1, <1>3, <1>4, <2>1, PrefixInd
  <2> QED BY <2>2 DEF T
<1> DEFINE A == [n \in 0..N |-> W[n]]
<1>6. A = Step(A)
  <2>1. \A n \in 0..N : n # 0 => n \in 1..N /\ n - 1 \in 0..N
    BY <1>1
  <2>2. ASSUME NEW n \in 0..N PROVE A[n] = Step(A)[n]
    <3>1. CASE n = 0
      BY <1>5, <3>1
    <3>2. CASE n # 0
      <4>1. A[n] = W[n] /\ A[n - 1] = W[n - 1] /\ W[n] = Advance(site, who, W[n - 1])
        BY <1>5, <2>1, <3>2
      <4> HIDE DEF A
      <4> QED BY <3>2, <4>1
    <3> QED BY <3>1, <3>2
  <2>3. A = [n \in 0..N |-> A[n]]
    OBVIOUS
  <2> HIDE DEF A
  <2> QED BY <2>2, <2>3
<1>7. F = Step(F)
  <2> HIDE DEF Step, A
  <2> QED BY <1>6
<1> HIDE DEF F
<1>8. F[0] = b /\ \A n \in 1..N : F[n] = Advance(site, who, F[n - 1])
  <2>1. 0 \in 0..N /\ \A n \in 1..N : n \in 0..N /\ n # 0
    BY <1>1
  <2>2. F[0] = Step(F)[0] /\ \A n \in 1..N : F[n] = Step(F)[n]
    BY <1>7
  <2>3. Step(F)[0] = b
    BY <2>1
  <2>4. ASSUME NEW n \in 1..N PROVE Step(F)[n] = Advance(site, who, F[n - 1])
    BY <2>1
  <2> HIDE DEF Step
  <2> QED BY <2>2, <2>3, <2>4
<1> QED BY <1>1, <1>2, <1>8 DEF b, N

-----------------------------------------------------------------------------
(* Sequences joined, and sequences of sequences.                           *)

LEMMA JoinIndexes ==
  ASSUME NEW s, NEW t, Sequence(s), Sequence(t)
  PROVE  /\ Sequence(s \o t) /\ Len(s \o t) = Len(s) + Len(t) /\ DOMAIN (s \o t) = 1..Len(s) + Len(t)
         /\ \A k \in 1..Len(s) : (s \o t)[k] = s[k]
         /\ \A k \in 1..Len(t) : (s \o t)[Len(s) + k] = t[k]
<1> DEFINE r == s \o t
           m == Len(s)
           n == Len(t)
<1>1. /\ m \in Nat /\ n \in Nat /\ DOMAIN s = 1..m /\ DOMAIN t = 1..n
      /\ s \in Seq(ToSet(s) \cup ToSet(t)) /\ t \in Seq(ToSet(s) \cup ToSet(t))
  BY DEF Sequence, ToSet
<1>2. /\ r \in Seq(ToSet(s) \cup ToSet(t)) /\ DOMAIN r = 1..m + n /\ Len(r) = m + n
      /\ \A k \in 1..m : r[k] = s[k]
      /\ \A k \in m + 1..m + n : r[k] = t[k - m]
  BY <1>1
<1>3. Sequence(r)
  BY JoinSequences
<1> HIDE DEF r, m, n
<1>4. ASSUME NEW k \in 1..n PROVE r[m + k] = t[k]
  <2>1. m + k \in m + 1..m + n /\ (m + k) - m = k
    BY <1>1, <1>4
  <2> QED BY <1>2, <2>1
<1> QED BY <1>2, <1>3, <1>4 DEF r, m, n

Slotted(ss, a, b, x) == \A i \in 1..Len(ss) : ss[i] = IF i \in a + 1..b THEN <<x[i]>> ELSE <<>>
Shifted(x, a, n) == [j \in 1..n |-> x[a + j]]

\* What is empty but for a stretch of single elements.
LEMMA FlattenSlots ==
  ASSUME NEW ss, Sequence(ss), NEW a \in Nat, NEW b \in Nat, a <= b, b <= Len(ss), NEW x, Slotted(ss, a, b, x)
  PROVE  FlattenSeq(ss) = Shifted(x, a, b - a)
<1> DEFINE N == Len(ss)
           w(i) == IF i <= a THEN 0 ELSE IF i <= b THEN i - a ELSE b - a
           Up(n) == [j \in 1..n |-> x[a + j]]
<1>1. N \in Nat /\ DOMAIN ss = 1..N
  BY SequenceFacts
<1>0. \A i \in 1..N : ss[i] = IF i \in a + 1..b THEN <<x[i]>> ELSE <<>>
  BY DEF Slotted
<1> SUFFICES FlattenSeq(ss) = [j \in 1..b - a |-> x[a + j]]
  BY DEF Shifted
<1>2. CASE N = 0
  <2>1. FlattenSeq(ss) = ss
    BY <1>2 DEF FlattenSeq
  <2>2. ss = [j \in 1..0 |-> ss[j]]
    BY <1>2, SequenceFacts
  <2>3. b - a = 0
    BY <1>2
  <2>4. Up(0) = [j \in 1..0 |-> ss[j]]
    OBVIOUS
  <2> QED BY <2>1, <2>2, <2>3, <2>4
<1>3. CASE N # 0
  <2>1. ASSUME NEW i \in DOMAIN ss PROVE Sequence(ss[i])
    <3>1. ss[i] = <<x[i]>> \/ ss[i] = <<>>
      BY <1>0, <1>1
    <3> QED BY <3>1, ShortSequences
  <2>2. PICK F : /\ FlattenSeq(ss) = F[N] /\ F[1] = ss[1]
                 /\ \A i \in 1..N - 1 : F[i + 1] = F[i] \o ss[i + 1]
    BY <1>3, <2>1, FlattenFunction
  <2>3. ASSUME NEW n \in Nat
        PROVE  /\ Sequence(Up(n)) /\ Up(n) \o <<>> = Up(n)
               /\ \A y : y = x[a + n + 1] => Up(n) \o <<y>> = Up(n + 1)
    <3> DEFINE u == Up(n)
               v == Up(n + 1)
    <3>1. /\ u = [j \in 1..n |-> u[j]] /\ v = [j \in 1..n + 1 |-> v[j]]
          /\ \A j \in 1..n : u[j] = x[a + j] /\ v[j] = x[a + j]
          /\ v[n + 1] = x[a + n + 1]
      OBVIOUS
    <3> HIDE DEF u, v
    <3>2. Sequence(u) /\ Len(u) = n
      BY <3>1, SequenceByIndex
    <3>3. u \o <<>> = u
      BY <3>2, CatNothing DEF Cat
    <3>4. ASSUME NEW y, y = x[a + n + 1] PROVE u \o <<y>> = v
      <4> DEFINE r == u \o <<y>>
      <4>1. Sequence(<<y>>) /\ Len(<<y>>) = 1
        BY ShortSequences
      <4>2. /\ Sequence(r) /\ Len(r) = n + 1 /\ \A k \in 1..n : r[k] = u[k]
            /\ r[n + 1] = y
        BY <3>2, <4>1, JoinIndexes
      <4> HIDE DEF r
      <4>3. r = [j \in 1..n + 1 |-> r[j]]
        BY <4>2, SequenceFacts
      <4>4. \A j \in 1..n + 1 : r[j] = v[j]
        <5>1. \A j \in 1..n + 1 : j \in 1..n \/ j = n + 1
          OBVIOUS
        <5>2. r[n + 1] = v[n + 1]
          BY <3>1, <3>4, <4>2
        <5>3. \A j \in 1..n : r[j] = v[j]
          BY <3>1, <4>2
        <5> QED BY <5>1, <5>2, <5>3
      <4>5. r = v
        BY <3>1, <4>3, <4>4, SameFunction
      <4> QED BY <4>5 DEF r
    <3> QED BY <3>2, <3>3, <3>4 DEF u, v
  <2> DEFINE T == {n \in 0..N - 1 : F[n + 1] = Up(w(n + 1))}
  <2>4. \A i \in 1..N : /\ w(i) \in Nat
                        /\ i \in a + 1..b => i = a + w(i)
                        /\ i + 1 \in a + 1..b => w(i + 1) = w(i) + 1 /\ i + 1 = a + w(i) + 1
                        /\ i + 1 \notin a + 1..b => w(i + 1) = w(i)
    BY <1>1
  <2>5. w(1) = IF 1 \in a + 1..b THEN 1 ELSE 0
    BY <1>1
  <2>6. w(N) = b - a
    <3>1. N <= a => b = a
      BY <1>1
    <3>2. N <= b => b = N
      <4>1. b <= N
        OBVIOUS
      <4>2. b \in Int /\ N \in Int
        BY <1>1
      <4> HIDE DEF N
      <4> QED BY <4>1, <4>2
    <3>3. b - b = 0
      OBVIOUS
    <3> QED BY <3>1, <3>2, <3>3
  <2> HIDE DEF w
  <2>7. 0 \in T
    <3>1. F[1] = IF 1 \in a + 1..b THEN <<x[1]>> ELSE <<>>
      BY <1>0, <1>1, <1>3, <2>2
    <3>2. F[1] = Up(w(1))
      <4>1. CASE 1 \in a + 1..b
        <5>1. a = 0 /\ w(1) = 1
          BY <2>5, <4>1
        <5>2. Up(0) \o <<x[1]>> = Up(1)
          BY <2>3, <5>1
        <5>3. Up(0) = <<>>
          OBVIOUS
        <5>4. <<>> \o <<x[1]>> = <<x[1]>>
          BY ShortSequences, CatNothing DEF Cat
        <5> HIDE DEF Up
        <5> QED BY <3>1, <4>1, <5>1, <5>2, <5>3, <5>4
      <4>2. CASE 1 \notin a + 1..b
        BY <2>5, <3>1, <4>2
      <4> QED BY <4>1, <4>2
    <3> QED BY <1>1, <1>3, <3>2
  <2> HIDE DEF Up
  <2>8. ASSUME NEW n \in 0..N - 1 - 1, n \in T PROVE n + 1 \in T
    <3>1. n + 1 \in 1..N /\ n + 1 + 1 \in 1..N /\ n + 1 \in 1..N - 1 /\ n + 1 \in 0..N - 1
      BY <1>1
    <3>2. F[n + 1 + 1] = Up(w(n + 1)) \o ss[n + 1 + 1] /\ F[n + 1] = Up(w(n + 1))
      BY <2>2, <2>8, <3>1
    <3>3. w(n + 1) \in Nat
      BY <2>4, <3>1
    <3>4. CASE n + 1 + 1 \in a + 1..b
      <4>1. ss[n + 1 + 1] = <<x[n + 1 + 1]>>
        BY <1>0, <3>1, <3>4
      <4>2. w(n + 1 + 1) = w(n + 1) + 1 /\ n + 1 + 1 = a + w(n + 1) + 1
        BY <2>4, <3>1, <3>4
      <4> QED BY <2>3, <3>1, <3>2, <3>3, <4>1, <4>2
    <3>5. CASE n + 1 + 1 \notin a + 1..b
      <4>1. ss[n + 1 + 1] = <<>>
        BY <1>0, <3>1, <3>5
      <4>2. w(n + 1 + 1) = w(n + 1)
        BY <2>4, <3>1, <3>5
      <4> QED BY <2>3, <3>1, <3>2, <3>3, <4>1, <4>2
    <3> QED BY <3>4, <3>5
  <2>9. N - 1 \in Nat /\ N - 1 \in 0..N - 1 /\ N - 1 + 1 = N
    BY <1>1, <1>3
  <2>10. N - 1 \in T
    <3> HIDE DEF T, N
    <3> QED BY <2>7, <2>8, <2>9, PrefixInd
  <2> QED BY <2>2, <2>6, <2>9, <2>10 DEF Up
<1> QED BY <1>2, <1>3

\* Element by element, two sequences are in a relation.
Related(R, s, t) ==
  Sequence(s) /\ Sequence(t) /\ Len(s) = Len(t) /\ \A k \in 1..Len(s) : <<s[k], t[k]>> \in R

LEMMA RelatedJoin ==
  ASSUME NEW R, NEW s, NEW t, NEW p, NEW q, Related(R, s, t), Related(R, p, q)
  PROVE  Related(R, s \o p, t \o q)
<1> DEFINE m == Len(s)
           n == Len(p)
           u == s \o p
           v == t \o q
<1>1. /\ m \in Nat /\ n \in Nat /\ Len(t) = m /\ Len(q) = n
      /\ Sequence(s) /\ Sequence(t) /\ Sequence(p) /\ Sequence(q)
      /\ \A k \in 1..m : <<s[k], t[k]>> \in R
      /\ \A k \in 1..n : <<p[k], q[k]>> \in R
  BY SequenceFacts DEF Related
<1>2. /\ Sequence(u) /\ Len(u) = m + n /\ \A k \in 1..m : u[k] = s[k]
      /\ \A k \in 1..n : u[m + k] = p[k]
  BY <1>1, JoinIndexes
<1>3. /\ Sequence(v) /\ Len(v) = m + n /\ \A k \in 1..m : v[k] = t[k]
      /\ \A k \in 1..n : v[m + k] = q[k]
  BY <1>1, JoinIndexes
<1> HIDE DEF m, n, u, v
<1>4. ASSUME NEW k \in 1..m + n PROVE <<u[k], v[k]>> \in R
  <2>1. CASE k \in 1..m
    BY <1>1, <1>2, <1>3, <2>1
  <2>2. CASE k \notin 1..m
    <3>1. k - m \in 1..n /\ m + (k - m) = k
      BY <1>1, <2>2
    <3>2. u[k] = p[k - m] /\ v[k] = q[k - m]
      BY <1>2, <1>3, <3>1
    <3> QED BY <1>1, <3>1, <3>2
  <2> QED BY <2>1, <2>2
<1> QED BY <1>2, <1>3, <1>4 DEF Related, u, v

LEMMA FlattenTogether ==
  ASSUME NEW R, NEW ss, NEW tt, Sequence(ss), Sequence(tt), Len(ss) = Len(tt),
         \A i \in 1..Len(ss) : Related(R, ss[i], tt[i])
  PROVE  Related(R, FlattenSeq(ss), FlattenSeq(tt))
<1> DEFINE N == Len(ss)
<1>1. N \in Nat /\ DOMAIN ss = 1..N /\ DOMAIN tt = 1..N
  BY SequenceFacts
<1>2. CASE N = 0
  <2>1. FlattenSeq(ss) = ss /\ FlattenSeq(tt) = tt
    BY <1>2 DEF FlattenSeq
  <2>2. Related(R, ss, tt)
    <3>1. \A k \in 1..Len(ss) : FALSE
      BY <1>2
    <3> QED BY <3>1 DEF Related
  <2> QED BY <2>1, <2>2
<1>3. CASE N # 0
  <2>1. \A i \in 1..N : Sequence(ss[i]) /\ Sequence(tt[i])
    BY DEF Related
  <2>2. PICK F : /\ FlattenSeq(ss) = F[N] /\ F[1] = ss[1]
                 /\ \A i \in 1..N - 1 : F[i + 1] = F[i] \o ss[i + 1]
    BY <1>1, <1>3, <2>1, FlattenFunction
  <2>3. PICK G : /\ FlattenSeq(tt) = G[N] /\ G[1] = tt[1]
                 /\ \A i \in 1..N - 1 : G[i + 1] = G[i] \o tt[i + 1]
    BY <1>1, <1>3, <2>1, FlattenFunction
  <2> DEFINE T == {n \in 0..N - 1 : Related(R, F[n + 1], G[n + 1])}
  <2>4. \A i \in 1..N : Related(R, ss[i], tt[i])
    OBVIOUS
  <2> HIDE DEF N
  <2>5. 0 \in T
    BY <1>1, <1>3, <2>2, <2>3, <2>4
  <2>6. ASSUME NEW n \in 0..N - 1 - 1, n \in T PROVE n + 1 \in T
    <3>1. n + 1 + 1 \in 1..N /\ n + 1 \in 1..N - 1 /\ n + 1 \in 0..N - 1
      BY <1>1
    <3>2. F[n + 1 + 1] = F[n + 1] \o ss[n + 1 + 1] /\ G[n + 1 + 1] = G[n + 1] \o tt[n + 1 + 1]
      BY <2>2, <2>3, <3>1
    <3>3. Related(R, F[n + 1], G[n + 1]) /\ Related(R, ss[n + 1 + 1], tt[n + 1 + 1])
      BY <2>4, <2>6, <3>1
    <3>4. Related(R, F[n + 1 + 1], G[n + 1 + 1])
      BY <3>2, <3>3, RelatedJoin
    <3> QED BY <3>1, <3>4
  <2>7. N - 1 \in Nat /\ N - 1 \in 0..N - 1 /\ N - 1 + 1 = N
    BY <1>1, <1>3
  <2> HIDE DEF T
  <2>8. N - 1 \in T
    BY <2>5, <2>6, <2>7, PrefixInd
  <2> QED BY <2>2, <2>3, <2>7, <2>8 DEF T
<1> QED BY <1>2, <1>3

-----------------------------------------------------------------------------
(* What a form's fields are sent as.                                       *)

\* Whether a field is sent, and what it adds.
Left(f) == f.name = "" \/ f.type \in NeverSent \cup Replayed
With(map, f) == IF Left(f) THEN map ELSE Over(Entry(f.name, Value(f)), map)

LEMMA FormParamsRun ==
  ASSUME NEW fields, Sequence(fields)
  PROVE  \E F : /\ FormParams(fields) = F[Len(fields)] /\ F[0] = <<>>
                /\ \A k \in 1..Len(fields) : F[k] = With(F[k - 1], fields[k])
<1> DEFINE N == Len(fields)
           Turn(map, k) == With(map, fields[k])
           Step(w) == [k \in 0..N |-> IF k = 0 THEN <<>> ELSE Turn(w[k - 1], k)]
           F == CHOOSE w : w = Step(w)
           RunsTo(w, n) == w[0] = <<>> /\ \A k \in 1..n : w[k] = Turn(w[k - 1], k)
           T == {n \in 0..N : \E w : RunsTo(w, n)}
<1>1. N \in Nat
  BY SequenceFacts
<1>2. FormParams(fields) = F[N]
  BY Zenon DEF FormParams, With, Left
<1> HIDE DEF N, Turn
<1>3. 0 \in T
  <2>1. RunsTo([k \in {0} |-> <<>>], 0)
    OBVIOUS
  <2> HIDE DEF RunsTo
  <2> QED BY <1>1, <2>1
<1>4. ASSUME NEW n \in 0..N - 1, n \in T PROVE n + 1 \in T
  <2>1. PICK w : RunsTo(w, n)
    BY <1>4
  <2> DEFINE v == [k \in 0..n + 1 |-> IF k = n + 1 THEN Turn(w[n], n + 1) ELSE w[k]]
  <2>2. v[0] = <<>>
    BY <1>1, <2>1
  <2>3. ASSUME NEW k \in 1..n + 1 PROVE v[k] = Turn(v[k - 1], k)
    <3>1. k \in 0..n + 1 /\ k - 1 \in 0..n + 1 /\ k - 1 # n + 1 /\ (k = n + 1 => k - 1 = n) /\ (k # n + 1 => k \in 1..n)
      BY <1>1, <2>3
    <3>2. v[k - 1] = w[k - 1]
      BY <3>1
    <3>3. CASE k = n + 1
      BY <3>1, <3>2, <3>3
    <3>4. CASE k # n + 1
      BY <2>1, <3>1, <3>2, <3>4
    <3> QED BY <3>3, <3>4
  <2> HIDE DEF v
  <2>4. RunsTo(v, n + 1)
    BY <2>2, <2>3
  <2> HIDE DEF RunsTo
  <2> QED BY <1>1, <2>4
<1>5. PICK W : RunsTo(W, N)
  <2>1. N \in 0..N
    BY <1>1
  <2> HIDE DEF T
  <2>2. N \in T
    BY <1>1, <1>3, <1>4, <2>1, PrefixInd
  <2> QED BY <2>2 DEF T
<1> DEFINE A == [n \in 0..N |-> W[n]]
<1>6. A = Step(A)
  <2>1. \A n \in 0..N : n # 0 => n \in 1..N /\ n - 1 \in 0..N
    BY <1>1
  <2>2. ASSUME NEW n \in 0..N PROVE A[n] = Step(A)[n]
    <3>1. CASE n = 0
      BY <1>5, <3>1
    <3>2. CASE n # 0
      <4>1. A[n] = W[n] /\ A[n - 1] = W[n - 1] /\ W[n] = Turn(W[n - 1], n)
        BY <1>5, <2>1, <3>2
      <4> HIDE DEF A
      <4> QED BY <3>2, <4>1
    <3> QED BY <3>1, <3>2
  <2>3. A = [n \in 0..N |-> A[n]]
    OBVIOUS
  <2> HIDE DEF A
  <2> QED BY <2>2, <2>3
<1>7. F = Step(F)
  <2> HIDE DEF Step, A
  <2> QED BY <1>6
<1> HIDE DEF F
<1>8. F[0] = <<>> /\ \A n \in 1..N : F[n] = Turn(F[n - 1], n)
  <2>1. 0 \in 0..N /\ \A n \in 1..N : n \in 0..N /\ n # 0
    BY <1>1
  <2>2. F[0] = Step(F)[0] /\ \A n \in 1..N : F[n] = Step(F)[n]
    BY <1>7
  <2>3. Step(F)[0] = <<>>
    BY <2>1
  <2>4. ASSUME NEW n \in 1..N PROVE Step(F)[n] = Turn(F[n - 1], n)
    BY <2>1
  <2> HIDE DEF Step
  <2> QED BY <2>2, <2>3, <2>4
<1> QED BY <1>2, <1>8 DEF N, Turn

\* Of fields that are sent, each name is a parameter.
LEMMA ParamsNamed ==
  ASSUME NEW fields, Sequence(fields), \A k \in DOMAIN fields : ~Left(fields[k])
  PROVE  DOMAIN FormParams(fields) = {fields[k].name : k \in DOMAIN fields}
<1> DEFINE N == Len(fields)
           Names(n) == {fields[k].name : k \in 1..n}
<1>1. N \in Nat /\ DOMAIN fields = 1..N
  BY SequenceFacts
<1>2. PICK F : /\ FormParams(fields) = F[N] /\ F[0] = <<>>
               /\ \A k \in 1..N : F[k] = With(F[k - 1], fields[k])
  BY FormParamsRun
<1> HIDE DEF N
<1> DEFINE T == {n \in 0..N : DOMAIN F[n] = Names(n)}
<1>3. 0 \in T
  BY <1>1, <1>2
<1>4. ASSUME NEW n \in 0..N - 1, n \in T PROVE n + 1 \in T
  <2>1. n + 1 \in 1..N /\ n + 1 \in 0..N /\ n + 1 - 1 = n
    BY <1>1
  <2>2. F[n + 1] = Over(Entry(fields[n + 1].name, Value(fields[n + 1])), F[n])
    BY <1>1, <1>2, <2>1 DEF With
  <2>3. DOMAIN F[n + 1] = {fields[n + 1].name} \cup DOMAIN F[n]
    BY <2>2 DEF Over, Entry
  <2>4. 1..n + 1 = 1..n \cup {n + 1}
    BY <1>1
  <2>5. Names(n + 1) = {fields[n + 1].name} \cup Names(n)
    BY <2>4
  <2> HIDE DEF Names
  <2> QED BY <1>4, <2>1, <2>3, <2>5
<1>5. N \in 0..N
  BY <1>1
<1> HIDE DEF T
<1>6. N \in T
  BY <1>1, <1>3, <1>4, <1>5, PrefixInd
<1> QED BY <1>1, <1>2, <1>6 DEF T

\* As many as there are names, if they differ.
LEMMA NamesCounted ==
  ASSUME NEW names, Sequence(names), IsInjective(names)
  PROVE  IsFiniteSet(ToSet(names)) /\ Cardinality(ToSet(names)) = Len(names)
<1> DEFINE N == Len(names)
<1>1. N \in Nat /\ DOMAIN names = 1..N /\ names = [k \in 1..N |-> names[k]] /\ \A k \in 1..N : names[k] \in ToSet(names)
  BY SequenceFacts
<1>2. names \in [1..N -> ToSet(names)]
  BY <1>1
<1>3. names \in Bijection(1..N, ToSet(names))
  <2>1. \A x \in ToSet(names) : \E k \in 1..N : names[k] = x
    BY <1>1 DEF ToSet
  <2> QED BY <1>1, <1>2, <2>1 DEF Bijection, Injection, Surjection, IsInjective
<1>4. ExistsBijection(1..N, ToSet(names))
  BY <1>3 DEF ExistsBijection
<1> QED BY <1>1, <1>4, FS_NatBijection, FS_CountingElements

-----------------------------------------------------------------------------
(* A site's links and redirects, as the oracle and as the crawl take them. *)

OnSite(site, host) == host \in ToSet(site.hosts)

\* A link of a page, as it is served, is the one the page's host makes of it.
LEMMA OnSelfIs ==
  ASSUME NEW link, IsLink(link), NEW self
  PROVE  /\ IsLink(OnSelf(link, self)) /\ OnSelf(link, self).path = link.path
         /\ OnSelf(link, self).query = link.query
         /\ \/ OnSelf(link, self).host = self
            \/ OnSelf(link, self).host = link.host /\ link.host # ""
<1> DEFINE k == OnSelf(link, self)
<1>1. k = link \/ k = [link EXCEPT !.host = self]
  BY DEF OnSelf
<1>2. k = link => link.host = self \/ link.host # ""
  <2>1. CASE link.host = ""
    <3>1. k = [link EXCEPT !.host = self]
      BY <2>1, Zenon DEF OnSelf
    <3>2. k.host = self
      <4> HIDE DEF k
      <4> QED BY <3>1 DEF IsLink, Link
    <3> HIDE DEF k
    <3> QED BY <3>2, Zenon
  <2> QED BY <2>1, Zenon
<1> HIDE DEF k
<1>3. CASE k = link
  BY <1>2, <1>3, Zenon DEF k
<1>4. CASE k = [link EXCEPT !.host = self]
  <2>1. k.host = self /\ k.path = link.path /\ k.query = link.query /\ IsLink(k)
    BY <1>4 DEF IsLink, Link
  <2> QED BY <2>1, Zenon DEF k
<1> QED BY <1>1, <1>3, <1>4

Known(site, link) == link.host \in {""} \cup ToSet(site.hosts)

LEMMA KnownOnSelf ==
  ASSUME NEW site, NEW link, IsLink(link), Known(site, link), NEW self, OnSite(site, self)
  PROVE  OnSite(site, OnSelf(link, self).host)
<1>1. OnSelf(link, self).host = self \/ (OnSelf(link, self).host = link.host /\ link.host # "")
  BY OnSelfIs
<1>2. link.host # "" => OnSite(site, link.host)
  BY Zenon DEF Known, OnSite
<1> QED BY <1>1, <1>2, Zenon

LEMMA HrefIs ==
  ASSUME NEW site, NEW link, Known(site, link), NEW self
  PROVE  Href(site, link, self) = Absolute(Address(OnSelf(link, self)))
<1>1. CASE link.host = ""
  <2>1. link.host \notin ToSet(site.hosts) \ {""}
    BY <1>1, Zenon
  <2> QED BY <1>1, <2>1, Zenon DEF Href, OnSelf
<1>2. CASE link.host # ""
  <2>1. link.host \in ToSet(site.hosts) \ {""}
    BY <1>2, Zenon DEF Known
  <2> QED BY <1>2, <2>1, Zenon DEF Href, OnSelf
<1> QED BY <1>1, <1>2, Zenon

LEMMA KeyOfAddress ==
  ASSUME NEW k, IsLink(k)
  PROVE  KeyOf(Address(k)) = k
<1>1. Address(k).port = k.host /\ Address(k).path = k.path /\ Address(k).query = k.query
  BY DEF Address, Url
<1> QED BY <1>1 DEF KeyOf, IsLink

\* The names of a form's fields.
NamedApart(names) == names # <<>> /\ IsInjective(names) /\ "" \notin ToSet(names)

\* What a well-formed site's page is.
WellAt(site, place) ==
  LET page == site.pages[place] IN
  /\ OnSite(site, place[1]) /\ IsPageSpec(page) /\ Known(site, page.redirect)
  /\ \A link \in ToSet(Hrefs(page)) \cup ToSet(Actions(page)) : Known(site, link)
  /\ \A n \in DOMAIN page.forms : NamedApart(page.forms[n].fields)
  /\ IsInjective(Routes(page))
  /\ page.bad \/ page.js => Hrefs(page) \o page.forms = <<>>
  /\ page.bad => ~page.js

LEMMA PagesWell ==
  ASSUME NEW site, IsSite(site), WellFormed(site), NEW place \in DOMAIN site.pages
  PROVE  WellAt(site, place) /\ site.pages[place].redirect.host = ""
<1>1. IsPageSpec(site.pages[place])
  BY DEF IsSite
<1>2. OnSite(site, place[1]) /\ IsInjective(Routes(site.pages[place]))
  BY Zenon DEF WellFormed, OnSite
<1>3. site.pages[place].redirect.host = ""
  BY Zenon DEF WellFormed
<1>4. Known(site, site.pages[place].redirect)
  BY <1>3, Zenon DEF Known
<1>5. \A link \in ToSet(Hrefs(site.pages[place])) \cup ToSet(Actions(site.pages[place])) : Known(site, link)
  BY Zenon DEF WellFormed, Known
<1>6. site.pages[place].bad \/ site.pages[place].js => Hrefs(site.pages[place]) \o site.pages[place].forms = <<>>
  BY Zenon DEF WellFormed
<1>7. site.pages[place].bad => ~site.pages[place].js
  BY Zenon DEF WellFormed
<1>8. \A n \in DOMAIN site.pages[place].forms : NamedApart(site.pages[place].forms[n].fields)
  BY Zenon DEF WellFormed, NamedApart
<1> QED BY <1>1, <1>2, <1>3, <1>4, <1>5, <1>6, <1>7, <1>8, Zenon DEF WellAt

\* The engine's next hop is the oracle's.
LEMMA HopsAgree ==
  ASSUME NEW site, IsSite(site), WellFormed(site), NEW place, Redirects(site, place)
  PROVE  NextHop(site, place) = SameHost(site, place)
<1> DEFINE link == site.pages[place].redirect
           k == OnSelf(link, place[1])
<1>1. place \in DOMAIN site.pages
  BY DEF Redirects, Has
<1>2. WellAt(site, place) /\ link.host = ""
  BY <1>1, PagesWell
<1>3. IsLink(link) /\ Known(site, link)
  BY <1>2 DEF WellAt, IsPageSpec
<1> HIDE DEF link
<1>4. k = [link EXCEPT !.host = place[1]]
  BY <1>2, Zenon DEF OnSelf
<1>5. IsLink(k) /\ k.host = place[1] /\ k.path = link.path
  <2> HIDE DEF k
  <2> QED BY <1>3, <1>4 DEF IsLink, Link
<1>6. Href(site, link, place[1]) = Absolute(Address(k))
  BY <1>3, HrefIs
<1> HIDE DEF k
<1>7. Href(site, link, place[1]).url = Address(k)
  BY <1>6 DEF Absolute
<1>8. NextHop(site, place) = PlaceOf(k)
  BY <1>5, <1>7, KeyOfAddress DEF NextHop, link
<1> QED BY <1>5, <1>8 DEF PlaceOf, SameHost, link

\* The chains are the same, and stay on the host they start from.
LEMMA ChainsAgree ==
  ASSUME NEW site, IsSite(site), WellFormed(site), NEW host, NEW path
  PROVE  \A n \in 0..MaxRedirectHops :
           /\ Chain(site, "engine", <<host, path>>)[n] = Chain(site, "oracle", <<host, path>>)[n]
           /\ Chain(site, "oracle", <<host, path>>)[n].place = <<host, Chain(site, "oracle", <<host, path>>)[n].place[2]>>
<1> DEFINE e == Chain(site, "engine", <<host, path>>)
           o == Chain(site, "oracle", <<host, path>>)
           T == {n \in 0..MaxRedirectHops : e[n] = o[n] /\ o[n].place = <<host, o[n].place[2]>>}
<1>1. /\ e[0] = [place |-> <<host, path>>, hops |-> 0]
      /\ \A n \in 1..MaxRedirectHops : e[n] = Hop(site, "engine", e[n - 1])
  BY ChainRuns
<1>2. /\ o[0] = [place |-> <<host, path>>, hops |-> 0]
      /\ \A n \in 1..MaxRedirectHops : o[n] = Hop(site, "oracle", o[n - 1])
  BY ChainRuns
<1> HIDE DEF e, o
<1>3. MaxRedirectHops \in Nat
  BY DEF MaxRedirectHops
<1>4. 0 \in T
  BY <1>1, <1>2, <1>3
<1>5. ASSUME NEW n \in 0..MaxRedirectHops - 1, n \in T PROVE n + 1 \in T
  <2>1. n + 1 \in 1..MaxRedirectHops /\ n + 1 \in 0..MaxRedirectHops /\ n + 1 - 1 = n
    BY <1>3
  <2> DEFINE at == o[n]
  <2>2. e[n + 1] = Hop(site, "engine", at) /\ o[n + 1] = Hop(site, "oracle", at) /\ at.place = <<host, at.place[2]>>
    BY <1>1, <1>2, <1>5, <2>1
  <2> HIDE DEF at
  <2>3. CASE ~Redirects(site, at.place)
    <3>1. e[n + 1] = at /\ o[n + 1] = at
      BY <2>2, <2>3 DEF Hop
    <3> QED BY <2>1, <2>2, <3>1
  <2>4. CASE Redirects(site, at.place)
    <3>1. e[n + 1] = [place |-> NextHop(site, at.place), hops |-> at.hops + 1]
      BY <2>2, <2>4, Zenon DEF Hop
    <3>2. o[n + 1] = [place |-> SameHost(site, at.place), hops |-> at.hops + 1]
      BY <2>2, <2>4, Zenon DEF Hop
    <3>3. NextHop(site, at.place) = SameHost(site, at.place)
      BY <2>4, HopsAgree
    <3>4. SameHost(site, at.place) = <<host, site.pages[at.place].redirect.path>>
      BY <2>2 DEF SameHost
    <3> QED BY <2>1, <3>1, <3>2, <3>3, <3>4
  <2> QED BY <2>3, <2>4
<1> HIDE DEF T
<1>6. \A n \in 0..MaxRedirectHops : n \in T
  BY <1>3, <1>4, <1>5, PrefixInd
<1> QED BY <1>6 DEF T, e, o

\* A chain that does not start is at its place for ever.
LEMMA NoChain ==
  ASSUME NEW site, NEW place, ~Redirects(site, place), NEW who
  PROVE  \A n \in 0..MaxRedirectHops : Chain(site, who, place)[n] = [place |-> place, hops |-> 0]
<1> DEFINE c == Chain(site, who, place)
           T == {n \in 0..MaxRedirectHops : c[n] = [place |-> place, hops |-> 0]}
<1>1. /\ c[0] = [place |-> place, hops |-> 0]
      /\ \A n \in 1..MaxRedirectHops : c[n] = Hop(site, who, c[n - 1])
  BY ChainRuns
<1> HIDE DEF c
<1>2. MaxRedirectHops \in Nat
  BY DEF MaxRedirectHops
<1>3. 0 \in T
  BY <1>1, <1>2
<1>4. ASSUME NEW n \in 0..MaxRedirectHops - 1, n \in T PROVE n + 1 \in T
  <2>1. n + 1 \in 1..MaxRedirectHops /\ n + 1 \in 0..MaxRedirectHops /\ n + 1 - 1 = n
    BY <1>2
  <2>2. c[n + 1] = Hop(site, who, c[n]) /\ c[n] = [place |-> place, hops |-> 0]
    BY <1>1, <1>4, <2>1
  <2>3. c[n].place = place
    BY <2>2
  <2>4. c[n + 1] = c[n]
    BY <2>2, <2>3 DEF Hop
  <2> QED BY <2>1, <2>2, <2>4
<1> HIDE DEF T
<1>5. \A n \in 0..MaxRedirectHops : n \in T
  BY <1>2, <1>3, <1>4, PrefixInd
<1> QED BY <1>5 DEF T, c

\* One hop less is enough on a well-formed site, and what leads to an error was no redirect.
LEMMA EndsAgree ==
  ASSUME NEW site, IsSite(site), WellFormed(site), NEW k
  PROVE  LET o == ResolveRedirects(site, k)
             e == FollowRedirects(site, k) IN
         /\ Ends(site, e) <=> Ends(site, o)
         /\ Ends(site, o) => e = o
         /\ Ends(site, o) /\ Broken(site, o.place) => o.hops = 0
         /\ o.place = <<k.host, o.place[2]>>
<1> DEFINE M == MaxRedirectHops
           p == <<k.host, k.path>>
           O == Chain(site, "oracle", p)
           E == Chain(site, "engine", p)
<1>1. ResolveRedirects(site, k) = O[M] /\ FollowRedirects(site, k) = E[M - 1]
  BY DEF ResolveRedirects, FollowRedirects, PlaceOf
<1>2. M \in 0..M /\ M - 1 \in 0..M /\ M \in 1..M
  BY DEF MaxRedirectHops
<1>3. E[M - 1] = O[M - 1] /\ O[M].place = <<k.host, O[M].place[2]>>
  BY <1>2, ChainsAgree
<1>4. O[M] = Hop(site, "oracle", O[M - 1])
  BY <1>2, ChainRuns
<1>5. Ends(site, O[M - 1]) => O[M] = O[M - 1]
  BY <1>4 DEF Ends, Hop
<1>6. CASE ~Redirects(site, p)
  <2>1. O[M] = [place |-> p, hops |-> 0] /\ O[M - 1] = [place |-> p, hops |-> 0]
    BY <1>2, <1>6, NoChain
  <2>2. O[M].hops = 0 /\ Ends(site, O[M]) /\ Ends(site, O[M - 1])
    BY <1>6, <2>1 DEF Ends
  <2> HIDE DEF O, E, M
  <2> QED BY <1>1, <1>3, <1>5, <2>2
<1>7. CASE Redirects(site, p)
  <2>1. p \in DOMAIN site.pages /\ site.pages[p].redirect # NoLink
    BY <1>7 DEF Redirects, Has
  <2>2. Ends(site, O[M]) => Ends(site, O[M - 1])
    BY <2>1, Zenon DEF WellFormed
  <2>3. Ends(site, O[M]) => ~Broken(site, O[M].place)
    BY <2>1, Zenon DEF WellFormed
  <2> HIDE DEF O, E, M
  <2> QED BY <1>1, <1>3, <1>5, <2>2, <2>3
<1> QED BY <1>6, <1>7

-----------------------------------------------------------------------------
(* Keys, scope and seed.                                                   *)

Queried(scheme, host, port, path, query) == [Url(scheme, host, port, path) EXCEPT !.query = query]

LEMMA QueriedUrl ==
  ASSUME NEW scheme, NEW host, NEW port, NEW path, NEW query
  PROVE  LET u == Queried(scheme, host, port, path, query) IN
         IsRecord(u) /\ u.path = path /\ u.query = query
<1> DEFINE v == Url(scheme, host, port, path)
           u == Queried(scheme, host, port, path, query)
<1>1. IsRecord(v) /\ v.path = path
  BY DEF Url, IsRecord
<1>2. u = [v EXCEPT !.query = query]
  BY DEF Queried
<1> HIDE DEF u, v
<1>3. IsRecord(u) /\ u.path = path /\ u.query = query
  BY <1>1, <1>2 DEF IsRecord
<1> QED BY <1>3 DEF u, v

LEMMA AddressIs ==
  ASSUME NEW k
  PROVE  /\ IsRecord(Address(k)) /\ Address(k).scheme = "http" /\ Address(k).host = <<"l">>
         /\ Address(k).port = k.host /\ Address(k).path = k.path /\ Address(k).query = k.query
         /\ [Address(k) EXCEPT !.frag = FALSE] = Address(k)
<1> DEFINE u == Url("http", <<"l">>, k.host, k.path)
           a == Address(k)
<1>1. /\ IsRecord(u) /\ u.scheme = "http" /\ u.host = <<"l">> /\ u.port = k.host /\ u.path = k.path
      /\ u.frag = FALSE
  BY DEF Url, IsRecord
<1>2. a = [u EXCEPT !.query = k.query]
  BY DEF Address
<1> HIDE DEF u, a
<1>3. /\ IsRecord(a) /\ a.scheme = "http" /\ a.host = <<"l">> /\ a.port = k.host /\ a.path = k.path
      /\ a.query = k.query /\ a.frag = u.frag
  BY <1>1, <1>2 DEF IsRecord
<1>4. [a EXCEPT !.frag = FALSE] = a
  BY <1>1, <1>3 DEF IsRecord
<1> QED BY <1>3, <1>4 DEF a

\* What normalizing changes.
LEMMA FormFields ==
  ASSUME NEW u, IsRecord(u), NEW strict, NEW sortQuery
  PROVE  LET v == FromParsed(u, strict, sortQuery) IN
         /\ v.port = IF strict THEN StripDefaultPort(u) ELSE u.port
         /\ v.path = CanonicalPath(Unescaped(u.path))
         /\ v.query = IF sortQuery THEN SortQuery(u.query) ELSE u.query
<1> DEFINE port == IF strict THEN StripDefaultPort(u) ELSE u.port
           path == CanonicalPath(Unescaped(u.path))
           query == IF sortQuery THEN SortQuery(u.query) ELSE u.query
<1>1. FromParsed(u, strict, sortQuery) =
        [u EXCEPT !.upper = FALSE, !.frag = FALSE, !.port = port, !.path = path, !.query = query]
  BY DEF FromParsed
<1> HIDE DEF port, path, query
<1>2. [u EXCEPT !.upper = FALSE, !.frag = FALSE, !.port = port, !.path = path, !.query = query] =
        [scheme |-> u.scheme, host |-> u.host, port |-> port, path |-> path, query |-> query,
         upper |-> FALSE, frag |-> FALSE]
  BY UrlWith
<1>3. /\ FromParsed(u, strict, sortQuery).port = port /\ FromParsed(u, strict, sortQuery).path = path
      /\ FromParsed(u, strict, sortQuery).query = query
  BY <1>1, <1>2
<1> QED BY <1>3 DEF port, path, query

\* The crawl's key of what a link addresses is the oracle's key of the link.
LEMMA KeysAgree ==
  ASSUME NEW site, IsSite(site), NEW k, OnSite(site, k.host)
  PROVE  EngineKey(site, Address(k)) = Normalized(site, k)
<1> DEFINE a == Address(k)
           b == [Url("", <<>>, "", k.path) EXCEPT !.query = k.query]
<1>1. /\ IsRecord(a) /\ a.scheme = "http" /\ a.port = k.host /\ a.path = k.path /\ a.query = k.query
  BY AddressIs
<1>2. IsRecord(b) /\ b.path = k.path /\ b.query = k.query
  <2> DEFINE none == ""
  <2>1. b = Queried(none, <<>>, none, k.path, k.query)
    BY DEF Queried
  <2> HIDE DEF b, none
  <2> QED BY <2>1, QueriedUrl
<1>3. StripDefaultPort(a) = k.host
  <2>1. k.host # "80"
    BY DEF OnSite, IsSite
  <2>2. DefaultPort(a.scheme) = "80"
    BY <1>1, Zenon DEF DefaultPort
  <2> HIDE DEF a
  <2> QED BY <1>1, <2>1, <2>2, Zenon DEF StripDefaultPort
<1>4. EngineKey(site, Address(k)) = KeyOf(FromParsed(a, site.strict, site.sortQuery))
  BY DEF EngineKey
<1>5. Normalized(site, k) = LET u == FromParsed(b, site.strict, site.sortQuery) IN Link(k.host, u.path, u.query)
  BY DEF Normalized
<1> HIDE DEF a, b
<1>6. FromParsed(a, site.strict, site.sortQuery).port = k.host
  BY <1>1, <1>3, FormFields
<1>7. FromParsed(a, site.strict, site.sortQuery).path = FromParsed(b, site.strict, site.sortQuery).path
  BY <1>1, <1>2, FormFields
<1>8. FromParsed(a, site.strict, site.sortQuery).query = FromParsed(b, site.strict, site.sortQuery).query
  BY <1>1, <1>2, FormFields
<1> QED BY <1>4, <1>5, <1>6, <1>7, <1>8 DEF KeyOf

LEMMA NormalizedIs ==
  ASSUME NEW site, NEW k
  PROVE  Normalized(site, k).host = k.host /\ IsLink(Normalized(site, k))
<1> DEFINE u == FromParsed([Url("", <<>>, "", k.path) EXCEPT !.query = k.query], site.strict, site.sortQuery)
<1>1. Normalized(site, k) = Link(k.host, u.path, u.query)
  BY DEF Normalized
<1> HIDE DEF u
<1> QED BY <1>1 DEF Link, IsLink

\* The policy of the crawl is the site's scope.
LEMMA ScopesAgree ==
  ASSUME NEW site, NEW k
  PROVE  EngineScope(site, k) <=> InSiteScope(site, k)
<1> DEFINE cfg == [sameOrigin |-> site.sameOrigin, subdomains |-> FALSE, allow |-> {}, deny |-> {}, include |-> {}, exclude |-> {}]
           a == Address(k)
           s == Address(SeedKey(site))
<1>1. EngineScope(site, k) <=> InScope(a, s, cfg)
  BY DEF EngineScope
<1>2. /\ cfg.sameOrigin = site.sameOrigin /\ cfg.allow = {} /\ cfg.deny = {} /\ cfg.include = {} /\ cfg.exclude = {}
  BY Zenon
<1>3. ~cfg.subdomains
  BY Zenon
<1>4. a.scheme = "http" /\ a.host = <<"l">> /\ a.port = k.host
  BY AddressIs
<1>5. s.scheme = "http" /\ s.host = <<"l">> /\ s.port = SeedHost(site)
  <2>1. SeedKey(site).host = SeedHost(site)
    BY DEF SeedKey, Link
  <2> QED BY <2>1, AddressIs
<1> HIDE DEF cfg, a, s
<1>6. ExactOrigin(a, s) <=> k.host = SeedHost(site)
  BY <1>4, <1>5, Zenon DEF ExactOrigin
<1>7. AllowDeny(a, cfg.allow, cfg.deny)
  BY <1>2, Zenon DEF AllowDeny
<1>8. Patterns(a, cfg.include, cfg.exclude)
  BY <1>2, Zenon DEF Patterns
<1>9. InScope(a, s, cfg) <=> (site.sameOrigin => k.host = SeedHost(site))
  BY <1>2, <1>3, <1>6, <1>7, <1>8, Zenon DEF InScope
<1> QED BY <1>1, <1>9, Zenon DEF InSiteScope

LEMMA SeedsAgree ==
  ASSUME NEW site, IsSite(site)
  PROVE  /\ FirstKey(site, "engine") = FirstKey(site, "oracle")
         /\ FirstKey(site, "oracle") = Normalized(site, SeedKey(site))
         /\ FirstKey(site, "ground") = SeedKey(site)
         /\ OnSite(site, SeedKey(site).host)
<1>1. SeedKey(site).host = SeedHost(site)
  BY DEF SeedKey, Link
<1>2. SeedHost(site) \in ToSet(site.hosts)
  <2>1. Sequence(site.hosts) /\ site.hosts # <<>>
    BY DEF IsSite
  <2>2. Len(site.hosts) # 0
    BY <2>1, NoElements DEF Sequence
  <2>3. 1 \in 1..Len(site.hosts)
    BY <2>1, <2>2, SequenceFacts
  <2> QED BY <2>1, <2>3, SequenceFacts DEF SeedHost
<1>3. FirstKey(site, "engine") = EngineKey(site, Address(SeedKey(site)))
  BY Zenon DEF FirstKey
<1>4. FirstKey(site, "oracle") = Normalized(site, SeedKey(site))
  BY Zenon DEF FirstKey
<1>5. FirstKey(site, "ground") = SeedKey(site)
  BY Zenon DEF FirstKey
<1> QED BY <1>1, <1>2, <1>3, <1>4, <1>5, KeysAgree DEF OnSite

-----------------------------------------------------------------------------
(* What the extractors find in a served page.                              *)

\* What an extractor that ran found, and what two or three of them did.
Ran(found) == [found |-> found, failed |-> FALSE]

LEMMA RanIs == ASSUME NEW s PROVE Ran(s).found = s /\ ~Ran(s).failed
<1>1. Ran(s).found = s
  BY Zenon DEF Ran
<1>2. ~Ran(s).failed
  BY Zenon DEF Ran
<1> QED BY <1>1, <1>2

LEMMA AllRan ==
  ASSUME NEW a, NEW b, NEW c, Sequence(a), Sequence(b), Sequence(c)
  PROVE  /\ RunAll(<<Ran(a), Ran(b)>>) = Cat(a, b)
         /\ RunAll(<<Ran(a), Ran(b), Ran(c)>>) = Cat(Cat(a, b), c)
<1>1. ASSUME NEW runs, NEW lists, Sequence(lists), DOMAIN runs = DOMAIN lists, \A k \in DOMAIN lists : runs[k] = Ran(lists[k])
      PROVE  RunAll(runs) = FlattenSeq(lists)
  <2> DEFINE found == [k \in DOMAIN runs |-> IF runs[k].failed THEN <<>> ELSE runs[k].found]
  <2>1. RunAll(runs) = FlattenSeq(found)
    BY DEF RunAll, FlatMap
  <2>2. \A k \in DOMAIN runs : found[k] = lists[k]
    BY <1>1, RanIs
  <2>3. found = [k \in DOMAIN lists |-> found[k]]
    BY <1>1
  <2>4. lists = [k \in DOMAIN lists |-> lists[k]]
    BY <1>1, SequenceFacts
  <2> HIDE DEF found
  <2>5. found = lists
    BY <1>1, <2>2, <2>3, <2>4, SameFunction
  <2> QED BY <2>1, <2>5
<1>2. RunAll(<<Ran(a), Ran(b)>>) = Cat(a, b)
  <2> DEFINE s == <<a, b>>
             r == <<Ran(a), Ran(b)>>
  <2>1. /\ s = [k \in 1..2 |-> s[k]] /\ DOMAIN s = 1..2 /\ DOMAIN r = 1..2 /\ s[1] = a /\ s[2] = b
        /\ r[1] = Ran(a) /\ r[2] = Ran(b)
    OBVIOUS
  <2> HIDE DEF s, r
  <2>2. Sequence(s) /\ Len(s) = 2
    BY <2>1, SequenceByIndex
  <2>3. \A k \in 1..2 : k = 1 \/ k = 2
    OBVIOUS
  <2>4. \A k \in DOMAIN s : Sequence(s[k]) /\ r[k] = Ran(s[k])
    BY <2>1, <2>3
  <2>5. RunAll(r) = FlattenSeq(s)
    BY <1>1, <2>1, <2>2, <2>4
  <2>6. PICK F : /\ FlattenSeq(s) = F[Len(s)] /\ F[1] = s[1]
                 /\ \A i \in 1..Len(s) - 1 : F[i + 1] = F[i] \o s[i + 1]
    <3>1. Len(s) # 0
      BY <2>2
    <3> QED BY <2>2, <2>4, <3>1, FlattenFunction
  <2>7. F[2] = a \o b
    <3>1. 1 \in 1..Len(s) - 1 /\ 1 + 1 = 2
      BY <2>2
    <3>2. F[1 + 1] = F[1] \o s[1 + 1]
      BY <2>6, <3>1
    <3> QED BY <2>1, <2>6, <3>1, <3>2
  <2> QED BY <2>2, <2>5, <2>6, <2>7 DEF Cat, r
<1>3. RunAll(<<Ran(a), Ran(b), Ran(c)>>) = Cat(Cat(a, b), c)
  <2> DEFINE s == <<a, b, c>>
             r == <<Ran(a), Ran(b), Ran(c)>>
  <2>1. /\ s = [k \in 1..3 |-> s[k]] /\ DOMAIN s = 1..3 /\ DOMAIN r = 1..3 /\ s[1] = a /\ s[2] = b /\ s[3] = c
        /\ r[1] = Ran(a) /\ r[2] = Ran(b) /\ r[3] = Ran(c)
    OBVIOUS
  <2> HIDE DEF s, r
  <2>2. Sequence(s) /\ Len(s) = 3
    BY <2>1, SequenceByIndex
  <2>3. \A k \in 1..3 : k = 1 \/ k = 2 \/ k = 3
    OBVIOUS
  <2>4. \A k \in DOMAIN s : Sequence(s[k]) /\ r[k] = Ran(s[k])
    BY <2>1, <2>3
  <2>5. RunAll(r) = FlattenSeq(s)
    BY <1>1, <2>1, <2>2, <2>4
  <2>6. PICK F : /\ FlattenSeq(s) = F[Len(s)] /\ F[1] = s[1]
                 /\ \A i \in 1..Len(s) - 1 : F[i + 1] = F[i] \o s[i + 1]
    <3>1. Len(s) # 0
      BY <2>2
    <3> QED BY <2>2, <2>4, <3>1, FlattenFunction
  <2>7. F[2] = a \o b /\ F[3] = F[2] \o c
    <3>1. 1 \in 1..Len(s) - 1 /\ 1 + 1 = 2 /\ 2 \in 1..Len(s) - 1 /\ 2 + 1 = 3
      BY <2>2
    <3>2. F[1 + 1] = F[1] \o s[1 + 1] /\ F[2 + 1] = F[2] \o s[2 + 1]
      BY <2>6, <3>1
    <3> QED BY <2>1, <2>6, <3>1, <3>2
  <2> QED BY <2>2, <2>5, <2>6, <2>7 DEF Cat, r
<1> QED BY <1>2, <1>3

\* Without an address of a socket there is none to find.
LEMMA NoSockets ==
  ASSUME NEW page, page.sockets = <<>>, NEW base
  PROVE  WebSocketExtractor(page, base) = <<>>
<1> DEFINE Scheme == IF base.scheme = "https" THEN "wss" ELSE "ws"
           Target(ref) == IF ref.kind = "absolute" THEN ref.url
                           ELSE [OriginRoot(base, ref.path) EXCEPT !.scheme = Scheme]
           Fresh(k) == \A j \in 1..k - 1 : Target(page.sockets[j]) # Target(page.sockets[k])
           First(k) == IF Fresh(k) THEN <<Discovery("ws_url", Target(page.sockets[k]))>> ELSE <<>>
           indices == [k \in DOMAIN page.sockets |-> k]
           once == [k \in DOMAIN indices |-> First(indices[k])]
<1>1. WebSocketExtractor(page, base) = FlattenSeq(once)
  BY DEF WebSocketExtractor, FlatMap
<1> HIDE DEF First
<1>2. once = <<>>
  OBVIOUS
<1> QED BY <1>1, <1>2 DEF FlattenSeq

LEMMA FewTokens ==
  ASSUME NEW a, NEW b, NEW c
  PROVE  /\ <<a>> \o <<b>> \o <<>> \o <<c>> \o <<>> = <<a, b, c>>
         /\ <<>> \o <<>> \o <<a>> \o <<b>> \o <<>> = <<a, b>>
<1>1. <<a>> \o <<b>> = <<a, b>> /\ <<a, b>> \o <<c>> = <<a, b, c>> /\ <<>> \o <<>> = <<>>
  <2>1. <<a>> \o <<b>> = <<a, b>>
    BY TwoTokens DEF Cat, One
  <2>2. <<>> \o <<>> = <<>>
    BY ShortSequences, CatNothing DEF Cat
  <2> DEFINE S == {a, b, c}
             s == Append(<<a, b>>, c)
             t == <<a, b, c>>
  <2>3. <<a, b>> \in Seq(S) /\ c \in S /\ Len(<<a, b>>) = 2 /\ <<a, b>>[1] = a /\ <<a, b>>[2] = b
    OBVIOUS
  <2>4. s \in Seq(S) /\ Len(s) = 3 /\ s[1] = a /\ s[2] = b /\ s[3] = c
    <3> HIDE DEF S
    <3> QED BY <2>3, AppendProperties
  <2>5. t \in Seq(S) /\ Len(t) = 3 /\ t[1] = a /\ t[2] = b /\ t[3] = c
    OBVIOUS
  <2>6. \A i \in 1..3 : i = 1 \/ i = 2 \/ i = 3
    OBVIOUS
  <2>7. s = t
    <3> HIDE DEF S, s, t
    <3> QED BY <2>4, <2>5, <2>6, SeqEqual
  <2>8. s = <<a, b>> \o <<c>>
    <3>1. Sequence(<<a, b>>)
      BY DEF Sequence, ToSet
    <3> QED BY <3>1, AppendIsCat DEF Cat, One
  <2> QED BY <2>1, <2>2, <2>7, <2>8
<1>2. \A s : Sequence(s) => s \o <<>> = s /\ <<>> \o s = s
  BY CatNothing DEF Cat
<1>3. Sequence(<<>>) /\ Sequence(<<a>>) /\ Sequence(<<a, b>>) /\ Sequence(<<a, b, c>>)
  BY DEF Sequence, ToSet
<1> QED BY <1>1, <1>2, <1>3

RunIf(applies, found) == IF applies THEN <<Ran(found)>> ELSE <<>>

LinksIn(page) == IF HasDoc(page) THEN LinkExtractor(page, BaseURL(page)) ELSE <<>>
FormsIn(page) == IF HasDoc(page) THEN FormExtractor(page, BaseURL(page)) ELSE <<>>

LEMMA HtmlFound ==
  ASSUME NEW page, page.type = "html", page.sockets = <<>>, Sequence(LinksIn(page)), Sequence(FormsIn(page))
  PROVE  RunAll(Runs(page, FALSE)) = Cat(LinksIn(page), FormsIn(page))
<1> DEFINE links == LinksIn(page)
           forms == FormsIn(page)
<1>0. Sequence(links) /\ Sequence(forms)
  OBVIOUS
<1> DEFINE base == BaseURL(page)
           J == JSEndpointExtractor(page, base)
           W == WebSocketExtractor(page, base)
           js == page.type = "javascript"
           html == page.type = "html"
<1>1. Runs(page, FALSE) = RunIf(html, links) \o RunIf(html, forms) \o RunIf(js, J) \o RunIf(html \/ js, W) \o <<>>
  BY Zenon DEF Runs, RunIf, Ran, LinksIn, FormsIn
<1>2. W = <<>>
  BY NoSockets
<1>3. html /\ ~js
  BY Zenon
<1> HIDE DEF html, js, J, W, links, forms
<1>4. RunIf(html, links) = <<Ran(links)>> /\ RunIf(html, forms) = <<Ran(forms)>> /\ RunIf(js, J) = <<>> /\ RunIf(html \/ js, W) = <<Ran(W)>>
  BY <1>3, Zenon DEF RunIf
<1>5. <<Ran(links)>> \o <<Ran(forms)>> \o <<>> \o <<Ran(W)>> \o <<>> = <<Ran(links), Ran(forms), Ran(W)>>
  BY FewTokens
<1>6. Sequence(W) /\ Sequence(Cat(links, forms)) /\ Cat(Cat(links, forms), W) = Cat(links, forms)
  <2>1. Sequence(W)
    BY <1>2, ShortSequences
  <2>2. Sequence(Cat(links, forms))
    BY <1>0, CatTyped
  <2>3. Cat(Cat(links, forms), W) = Cat(links, forms)
    BY <1>2, <2>2, CatNothing
  <2> QED BY <2>1, <2>2, <2>3
<1>7. RunAll(<<Ran(links), Ran(forms), Ran(W)>>) = Cat(Cat(links, forms), W)
  BY <1>0, <1>6, AllRan
<1>8. Runs(page, FALSE) = <<Ran(links), Ran(forms), Ran(W)>>
  BY <1>1, <1>4, <1>5
<1> QED BY <1>6, <1>7, <1>8 DEF links, forms

LEMMA ScriptFound ==
  ASSUME NEW page, page.type = "javascript", page.sockets = <<>>, Sequence(JSEndpointExtractor(page, BaseURL(page)))
  PROVE  RunAll(Runs(page, FALSE)) = JSEndpointExtractor(page, BaseURL(page))
<1> DEFINE base == BaseURL(page)
           L == IF HasDoc(page) THEN LinkExtractor(page, base) ELSE <<>>
           F == IF HasDoc(page) THEN FormExtractor(page, base) ELSE <<>>
           J == JSEndpointExtractor(page, base)
           W == WebSocketExtractor(page, base)
           js == page.type = "javascript"
           html == page.type = "html"
<1>1. Runs(page, FALSE) = RunIf(html, L) \o RunIf(html, F) \o RunIf(js, J) \o RunIf(html \/ js, W) \o <<>>
  BY Zenon DEF Runs, RunIf, Ran
<1>2. W = <<>>
  BY NoSockets
<1>3. js /\ ~html
  BY Zenon
<1>0. Sequence(J)
  OBVIOUS
<1> HIDE DEF html, js, L, F, J, W
<1>4. RunIf(html, L) = <<>> /\ RunIf(html, F) = <<>> /\ RunIf(js, J) = <<Ran(J)>> /\ RunIf(html \/ js, W) = <<Ran(W)>>
  BY <1>3, Zenon DEF RunIf
<1>5. <<>> \o <<>> \o <<Ran(J)>> \o <<Ran(W)>> \o <<>> = <<Ran(J), Ran(W)>>
  BY FewTokens
<1>6. Sequence(W) /\ Cat(J, W) = J
  BY <1>0, <1>2, ShortSequences, CatNothing
<1>7. RunAll(<<Ran(J), Ran(W)>>) = Cat(J, W)
  BY <1>0, <1>6, AllRan
<1>8. Runs(page, FALSE) = <<Ran(J), Ran(W)>>
  BY <1>1, <1>4, <1>5
<1> QED BY <1>6, <1>7, <1>8 DEF J

\* A page without a <base> is its own base.
LEMMA OwnBase ==
  ASSUME NEW page, \A k \in DOMAIN page.elements : page.elements[k].tag # "base"
  PROVE  BaseURL(page) = page.final
<1> DEFINE bases == {k \in DOMAIN page.elements : page.elements[k].tag = "base" /\ page.elements[k].ref.kind # "absent"}
<1>1. bases = {}
  OBVIOUS
<1> QED BY <1>1, Zenon DEF BaseURL

\* What the extractors make of one element.
LinksOf(base, e) ==
  LET Add(ref) == IF Resolves(ref) THEN <<Discovery("link", Resolve(base, ref))>> ELSE <<>>
      Own ==
        CASE e.tag \in LinkTags /\ ~(e.tag \in SkippingTags /\ Skippable(e.ref)) -> Add(e.ref)
          [] e.tag = "code" -> <<Discovery("code_path", OriginRoot(base, e.ref.path))>>
          [] OTHER -> <<>>
      Datum(ref) == IF Skippable(ref) \/ ref = Placeholder THEN <<>> ELSE Add(ref)
  IN  Own \o FlattenSeq([k \in DOMAIN e.data |-> Datum(e.data[k])])
FormOf(base, e) ==
  IF e.tag # "form" \/ FormParams(e.fields) = <<>> THEN <<>>
  ELSE <<[Discovery("form", IF Resolves(e.ref) THEN Resolve(base, e.ref) ELSE base)
            EXCEPT !.method = e.method, !.params = FormParams(e.fields)]>>

LEMMA ElementByElement ==
  ASSUME NEW page, NEW base
  PROVE  /\ LinkExtractor(page, base) = FlattenSeq([k \in DOMAIN page.elements |-> LinksOf(base, page.elements[k])])
         /\ FormExtractor(page, base) = FlattenSeq([k \in DOMAIN page.elements |-> FormOf(base, page.elements[k])])
<1>1. LinkExtractor(page, base) = FlattenSeq([k \in DOMAIN page.elements |-> LinksOf(base, page.elements[k])])
  BY DEF LinkExtractor, FlatMap, LinksOf
<1>2. FormExtractor(page, base) = FlattenSeq([k \in DOMAIN page.elements |-> FormOf(base, page.elements[k])])
  BY DEF FormExtractor, FlatMap, FormOf
<1> QED BY <1>1, <1>2

\* A key as it is served, and what is found there.
Target(link, self) == Address(OnSelf(link, self))
Ref(link, self) == Absolute(Target(link, self))
LinkFound(link, self) == Discovery("link", Target(link, self))

LEMMA RefResolves ==
  ASSUME NEW link, NEW self, NEW base
  PROVE  /\ Resolves(Ref(link, self)) /\ ~Skippable(Ref(link, self)) /\ Ref(link, self) # Placeholder
         /\ Resolve(base, Ref(link, self)) = Target(link, self)
<1> DEFINE r == Ref(link, self)
<1>1. r.kind = "absolute" /\ r.url = Target(link, self)
  BY DEF Ref, Absolute
<1> HIDE DEF r
<1>2. Resolves(r)
  BY <1>1, Zenon DEF Resolves
<1>3. ~Skippable(r)
  BY <1>1, Zenon DEF Skippable
<1>4. r # Placeholder
  <2>1. Placeholder.kind = "placeholder"
    BY Zenon DEF Placeholder
  <2> QED BY <1>1, <2>1, Zenon
<1>5. Resolve(base, r) = [Target(link, self) EXCEPT !.frag = FALSE]
  BY <1>1, ResolveAbsolute
<1>6. [Target(link, self) EXCEPT !.frag = FALSE] = Target(link, self)
  BY AddressIs DEF Target
<1> QED BY <1>2, <1>3, <1>4, <1>5, <1>6 DEF r

LEMMA FlattenFew ==
  ASSUME NEW s, Sequence(s)
  PROVE  FlattenSeq(<<s>>) = s /\ FlattenSeq(<<>>) = <<>> /\ <<>> \o s = s /\ s \o <<>> = s
<1>1. FlattenSeq(<<>>) = <<>>
  BY DEF FlattenSeq
<1>2. <<>> \o s = s /\ s \o <<>> = s
  BY CatNothing DEF Cat
<1> DEFINE ss == <<s>>
<1>3. ss = [k \in 1..1 |-> ss[k]] /\ DOMAIN ss = 1..1 /\ ss[1] = s
  OBVIOUS
<1> HIDE DEF ss
<1>4. Sequence(ss) /\ Len(ss) = 1
  BY <1>3, SequenceByIndex
<1>5. \A i \in DOMAIN ss : Sequence(ss[i])
  BY <1>3
<1>6. FlattenSeq(ss) = s
  <2>1. Len(ss) # 0
    BY <1>4
  <2>2. PICK F : FlattenSeq(ss) = F[Len(ss)] /\ F[1] = ss[1]
    BY <1>4, <1>5, <2>1, FlattenFunction
  <2> QED BY <1>3, <1>4, <2>2
<1> QED BY <1>1, <1>2, <1>6 DEF ss

\* The elements a served page has.
Anchor(tag, ref) == [tag |-> tag, ref |-> ref, data |-> <<>>]
Div(ref) == [tag |-> "div", ref |-> Absent, data |-> <<ref>>]
Field(name) == [name |-> name, type |-> "text", value |-> "", required |-> FALSE, options |-> <<>>]
Fields(form) == [m \in DOMAIN form.fields |-> Field(form.fields[m])]
FormElement(form, ref) ==
  [tag |-> "form", ref |-> ref, data |-> <<>>, method |-> "GET", fields |-> Fields(form)]
FormFound(form, self) ==
  [Discovery("form", Target(form.action, self)) EXCEPT !.method = "GET", !.params = FormParams(Fields(form))]

ServesLink(base, self, e, link) ==
  e.tag # "base" /\ LinksOf(base, e) = <<LinkFound(link, self)>> /\ FormOf(base, e) = <<>>
ServesForm(base, self, e, form) ==
  e.tag # "base" /\ LinksOf(base, e) = <<>> /\ FormOf(base, e) = <<FormFound(form, self)>>

LEMMA AnchorServes ==
  ASSUME NEW base, NEW self, NEW link, NEW tag \in {"a", "script"}
  PROVE  ServesLink(base, self, Anchor(tag, Ref(link, self)), link)
<1> DEFINE e == Anchor(tag, Ref(link, self))
           r == Ref(link, self)
           Add(ref) == IF Resolves(ref) THEN <<Discovery("link", Resolve(base, ref))>> ELSE <<>>
           Own ==
             CASE e.tag \in LinkTags /\ ~(e.tag \in SkippingTags /\ Skippable(e.ref)) -> Add(e.ref)
               [] e.tag = "code" -> <<Discovery("code_path", OriginRoot(base, e.ref.path))>>
               [] OTHER -> <<>>
           Datum(ref) == IF Skippable(ref) \/ ref = Placeholder THEN <<>> ELSE Add(ref)
<1>1. LinksOf(base, e) = Own \o FlattenSeq([k \in DOMAIN e.data |-> Datum(e.data[k])])
  BY DEF LinksOf
<1>2. e.tag = tag /\ e.ref = r /\ e.data = <<>>
  BY DEF Anchor
<1> HIDE DEF e, r, Datum
<1>3. tag \in LinkTags /\ tag # "code" /\ tag # "form" /\ tag # "base"
  BY Zenon DEF LinkTags
<1>4. Add(r) = <<LinkFound(link, self)>>
  BY RefResolves, Zenon DEF LinkFound, r
<1>5. ~Skippable(r)
  BY RefResolves DEF r
<1> HIDE DEF Add
<1>6. Own = Add(r)
  BY <1>2, <1>3, <1>5, Zenon
<1> HIDE DEF Own
<1>7. [k \in DOMAIN e.data |-> Datum(e.data[k])] = <<>>
  BY <1>2
<1>8. LinksOf(base, e) = <<LinkFound(link, self)>>
  <2>1. Sequence(<<LinkFound(link, self)>>)
    BY ShortSequences
  <2> QED BY <1>1, <1>4, <1>6, <1>7, <2>1, FlattenFew
<1>9. FormOf(base, e) = <<>>
  BY <1>2, <1>3, Zenon DEF FormOf
<1>10. e.tag # "base"
  BY <1>2, <1>3
<1> QED BY <1>8, <1>9, <1>10 DEF ServesLink, e

LEMMA DivServes ==
  ASSUME NEW base, NEW self, NEW link
  PROVE  ServesLink(base, self, Div(Ref(link, self)), link)
<1> DEFINE e == Div(Ref(link, self))
           r == Ref(link, self)
           Add(ref) == IF Resolves(ref) THEN <<Discovery("link", Resolve(base, ref))>> ELSE <<>>
           Own ==
             CASE e.tag \in LinkTags /\ ~(e.tag \in SkippingTags /\ Skippable(e.ref)) -> Add(e.ref)
               [] e.tag = "code" -> <<Discovery("code_path", OriginRoot(base, e.ref.path))>>
               [] OTHER -> <<>>
           Datum(ref) == IF Skippable(ref) \/ ref = Placeholder THEN <<>> ELSE Add(ref)
           data == [k \in DOMAIN e.data |-> Datum(e.data[k])]
<1>1. LinksOf(base, e) = Own \o FlattenSeq(data)
  BY DEF LinksOf
<1>2. e.tag = "div" /\ e.data = <<r>>
  BY DEF Div
<1> HIDE DEF e, r
<1>3. "div" \notin LinkTags /\ "div" # "code" /\ "div" # "form" /\ "div" # "base"
  BY Zenon DEF LinkTags
<1>4. Datum(r) = <<LinkFound(link, self)>>
  BY RefResolves, Zenon DEF LinkFound, r
<1> HIDE DEF Add
<1>5. Own = <<>>
  BY <1>2, <1>3, Zenon
<1> HIDE DEF Own, Datum
<1>6. data = <<Datum(r)>>
  BY <1>2
<1> HIDE DEF data
<1>7. LinksOf(base, e) = <<LinkFound(link, self)>>
  <2>1. Sequence(<<LinkFound(link, self)>>)
    BY ShortSequences
  <2> QED BY <1>1, <1>4, <1>5, <1>6, <2>1, FlattenFew
<1>8. FormOf(base, e) = <<>>
  BY <1>2, <1>3, Zenon DEF FormOf
<1>9. e.tag # "base"
  BY <1>2, <1>3
<1> QED BY <1>7, <1>8, <1>9 DEF ServesLink, e

\* A form whose fields have names of their own sends each of them.
LEMMA FormSends ==
  ASSUME NEW form, Sequence(form.fields), NamedApart(form.fields)
  PROVE  FormParams(Fields(form)) # <<>> /\ Cardinality(DOMAIN FormParams(Fields(form))) = Len(form.fields)
<1> DEFINE names == form.fields
           fields == Fields(form)
<1>0. Sequence(names) /\ names # <<>> /\ IsInjective(names)
  BY DEF NamedApart
<1>1. /\ Len(names) \in Nat /\ DOMAIN names = 1..Len(names)
      /\ \A k \in 1..Len(names) : names[k] \in ToSet(names)
  BY <1>0, SequenceFacts
<1>2. DOMAIN fields = DOMAIN names /\ fields = [k \in 1..Len(names) |-> fields[k]]
      /\ \A k \in DOMAIN names : fields[k] = Field(names[k])
  BY <1>1 DEF Fields
<1> HIDE DEF fields
<1>3. Sequence(fields)
  BY <1>1, <1>2, SequenceByIndex
<1>4. ASSUME NEW k \in DOMAIN names PROVE fields[k].name = names[k] /\ ~Left(fields[k])
  <2>1. Field(names[k]).name = names[k] /\ Field(names[k]).type = "text"
    BY Zenon DEF Field
  <2>2. names[k] # ""
    BY <1>1, Zenon DEF NamedApart
  <2>3. "text" \notin NeverSent \cup Replayed
    BY Zenon DEF NeverSent, Replayed
  <2>4. ~Left(Field(names[k]))
    BY <2>1, <2>2, <2>3, Zenon DEF Left
  <2> QED BY <1>2, <2>1, <2>4
<1>5. DOMAIN FormParams(fields) = {fields[k].name : k \in DOMAIN fields}
  BY <1>2, <1>3, <1>4, ParamsNamed
<1>6. {fields[k].name : k \in DOMAIN fields} = ToSet(names)
  BY <1>2, <1>4 DEF ToSet
<1>7. Cardinality(ToSet(names)) = Len(names)
  BY <1>0, NamesCounted
<1>8. FormParams(fields) # <<>>
  <2>1. Len(names) # 0
    BY <1>0, NoElements DEF Sequence
  <2>2. names[1] \in DOMAIN FormParams(fields)
    BY <1>1, <1>5, <1>6, <2>1
  <2>3. DOMAIN <<>> = {}
    OBVIOUS
  <2> QED BY <2>2, <2>3
<1> QED BY <1>5, <1>6, <1>7, <1>8 DEF fields

LEMMA FormServes ==
  ASSUME NEW base, NEW self, NEW form, Sequence(form.fields), NamedApart(form.fields)
  PROVE  ServesForm(base, self, FormElement(form, Ref(form.action, self)), form)
<1> DEFINE r == Ref(form.action, self)
           e == FormElement(form, r)
           Add(ref) == IF Resolves(ref) THEN <<Discovery("link", Resolve(base, ref))>> ELSE <<>>
           Own ==
             CASE e.tag \in LinkTags /\ ~(e.tag \in SkippingTags /\ Skippable(e.ref)) -> Add(e.ref)
               [] e.tag = "code" -> <<Discovery("code_path", OriginRoot(base, e.ref.path))>>
               [] OTHER -> <<>>
           Datum(ref) == IF Skippable(ref) \/ ref = Placeholder THEN <<>> ELSE Add(ref)
<1>1. LinksOf(base, e) = Own \o FlattenSeq([k \in DOMAIN e.data |-> Datum(e.data[k])])
  BY DEF LinksOf
<1>2. e.tag = "form" /\ e.ref = r /\ e.data = <<>> /\ e.method = "GET" /\ e.fields = Fields(form)
  BY DEF FormElement
<1> HIDE DEF e, r, Datum
<1>3. "form" \notin LinkTags /\ "form" # "code" /\ "form" # "base"
  BY Zenon DEF LinkTags
<1> HIDE DEF Add
<1>4. Own = <<>>
  BY <1>2, <1>3, Zenon
<1> HIDE DEF Own
<1>5. [k \in DOMAIN e.data |-> Datum(e.data[k])] = <<>>
  BY <1>2
<1>6. LinksOf(base, e) = <<>>
  <2>1. Sequence(<<>>)
    BY ShortSequences
  <2> QED BY <1>1, <1>4, <1>5, <2>1, FlattenFew
<1>7. FormParams(Fields(form)) # <<>>
  BY FormSends
<1>8. Resolves(r) /\ Resolve(base, r) = Target(form.action, self)
  BY RefResolves DEF r
<1>9. FormOf(base, e) = <<FormFound(form, self)>>
  BY <1>2, <1>7, <1>8, Zenon DEF FormOf, FormFound
<1>10. e.tag # "base"
  BY <1>2, <1>3
<1> QED BY <1>6, <1>9, <1>10 DEF ServesForm, e, r

\* A served page, element by element.
Anchors(tag, links, self) == [n \in DOMAIN links |-> Anchor(tag, Ref(links[n], self))]
Divs(links, self) == [n \in DOMAIN links |-> Div(Ref(links[n], self))]
FormElements(forms, self) == [n \in DOMAIN forms |-> FormElement(forms[n], Ref(forms[n].action, self))]
Body(page, self) ==
  Anchors("a", page.links, self) \o Anchors("script", page.scripts, self) \o Divs(page.data, self)
    \o FormElements(page.forms, self)

LEMMA HrefsElements ==
  ASSUME NEW page, IsPageSpec(page)
  PROVE  /\ Sequence(page.links) /\ Sequence(page.scripts) /\ Sequence(page.data) /\ Sequence(page.forms)
         /\ Sequence(Hrefs(page))
         /\ Len(Hrefs(page)) = Len(page.links) + Len(page.scripts) + Len(page.data)
         /\ \A n \in DOMAIN page.links : page.links[n] \in ToSet(Hrefs(page))
         /\ \A n \in DOMAIN page.scripts : page.scripts[n] \in ToSet(Hrefs(page))
         /\ \A n \in DOMAIN page.data : page.data[n] \in ToSet(Hrefs(page))
         /\ \A n \in DOMAIN page.forms : page.forms[n].action \in ToSet(Actions(page)) /\ IsForm(page.forms[n])
<1> DEFINE a == page.links
           b == page.scripts
           c == page.data
           h == (a \o b) \o c
<1>1. Sequence(a) /\ Sequence(b) /\ Sequence(c) /\ Sequence(page.forms)
  BY DEF IsPageSpec
<1>2. Hrefs(page) = h
  BY DEF Hrefs
<1>3. /\ DOMAIN a = 1..Len(a) /\ DOMAIN b = 1..Len(b) /\ DOMAIN c = 1..Len(c)
      /\ Len(a) \in Nat /\ Len(b) \in Nat /\ Len(c) \in Nat
  BY <1>1, SequenceFacts
<1>4. \A n \in DOMAIN page.forms : page.forms[n].action \in ToSet(Actions(page)) /\ IsForm(page.forms[n])
  <2>1. \A n \in DOMAIN page.forms : page.forms[n] \in ToSet(page.forms)
    BY <1>1, SequenceFacts
  <2> QED BY <2>1 DEF Actions, ToSet, IsPageSpec
<1> HIDE DEF a, b, c
<1> DEFINE ab == a \o b
<1>5. /\ Sequence(ab) /\ Len(ab) = Len(a) + Len(b) /\ \A k \in 1..Len(a) : ab[k] = a[k]
      /\ \A k \in 1..Len(b) : ab[Len(a) + k] = b[k]
  BY <1>1, JoinIndexes
<1> HIDE DEF ab
<1>6. /\ Sequence(ab \o c) /\ Len(ab \o c) = Len(ab) + Len(c) /\ \A k \in 1..Len(ab) : (ab \o c)[k] = ab[k]
      /\ \A k \in 1..Len(c) : (ab \o c)[Len(ab) + k] = c[k]
  BY <1>1, <1>5, JoinIndexes
<1>7. h = ab \o c
  BY DEF ab
<1> HIDE DEF h
<1>8. /\ DOMAIN h = 1..Len(a) + Len(b) + Len(c) /\ Len(h) = Len(a) + Len(b) + Len(c) /\ Sequence(h)
  BY <1>3, <1>5, <1>6, <1>7, SequenceFacts
<1>9. ASSUME NEW k \in 1..Len(a) PROVE a[k] \in ToSet(h)
  <2>1. k \in DOMAIN h /\ k \in 1..Len(ab)
    BY <1>3, <1>5, <1>8, <1>9
  <2>2. h[k] = a[k]
    BY <1>5, <1>6, <1>7, <2>1
  <2> QED BY <2>1, <2>2 DEF ToSet
<1>10. ASSUME NEW k \in 1..Len(b) PROVE b[k] \in ToSet(h)
  <2>1. Len(a) + k \in DOMAIN h /\ Len(a) + k \in 1..Len(ab)
    BY <1>3, <1>5, <1>8, <1>10
  <2>2. h[Len(a) + k] = b[k]
    BY <1>5, <1>6, <1>7, <2>1
  <2> QED BY <2>1, <2>2 DEF ToSet
<1>11. ASSUME NEW k \in 1..Len(c) PROVE c[k] \in ToSet(h)
  <2>1. Len(ab) + k \in DOMAIN h
    BY <1>3, <1>5, <1>8, <1>11
  <2>2. h[Len(ab) + k] = c[k]
    BY <1>6, <1>7
  <2> QED BY <2>1, <2>2 DEF ToSet
<1> QED BY <1>1, <1>2, <1>3, <1>4, <1>8, <1>9, <1>10, <1>11 DEF a, b, c

LEMMA ServedIs ==
  ASSUME NEW site, NEW k, NEW place, WellAt(site, place)
  PROVE  LET page == site.pages[place]
             s == ServedPage(site, k, place) IN
         /\ s.type = IF page.js /\ ~page.bad THEN "javascript" ELSE "html"
         /\ s.final = Address(Link(place[1], place[2], NoQuery))
         /\ s.sockets = <<>>
         /\ s.elements = IF page.js \/ page.bad THEN <<>> ELSE Body(page, place[1])
         /\ s.script.templates = <<>> /\ s.script.statics = page.endpoints
         /\ s.script.suffixes = <<>> /\ s.script.chunks = <<>>
<1> DEFINE page == site.pages[place]
           self == place[1]
           R(link) == Href(site, link, self)
           Tagged(tag, links) == [n \in DOMAIN links |-> [tag |-> tag, ref |-> R(links[n]), data |-> <<>>]]
           F(name) == [name |-> name, type |-> "text", value |-> "", required |-> FALSE, options |-> <<>>]
           forms == [n \in DOMAIN page.forms |->
                  [tag |-> "form", ref |-> R(page.forms[n].action), data |-> <<>>, method |-> "GET",
                   fields |-> [m \in DOMAIN page.forms[n].fields |-> F(page.forms[n].fields[m])]]]
           divs == [n \in DOMAIN page.data |-> [tag |-> "div", ref |-> Absent, data |-> <<R(page.data[n])>>]]
           body == Tagged("a", page.links) \o Tagged("script", page.scripts) \o divs \o forms
           js == [templates |-> <<>>, statics |-> page.endpoints, assigned |-> <<>>, suffixes |-> <<>>, chunks |-> <<>>]
           type == IF page.js /\ ~page.bad THEN "javascript" ELSE "html"
           elements == IF page.js \/ page.bad THEN <<>> ELSE body
           final == Address(Link(place[1], place[2], NoQuery))
           s == ServedPage(site, k, place)
<1>1. s = [type |-> type, requested |-> Address(k), final |-> final, elements |-> elements, script |-> js,
           sockets |-> <<>>, map |-> [where |-> "none"]]
  BY DEF ServedPage
<1>2. js.templates = <<>> /\ js.statics = page.endpoints /\ js.suffixes = <<>> /\ js.chunks = <<>>
  OBVIOUS
<1>3. IsPageSpec(page) /\ \A link \in ToSet(Hrefs(page)) \cup ToSet(Actions(page)) : Known(site, link)
  BY DEF WellAt
<1>4. \A link \in ToSet(Hrefs(page)) \cup ToSet(Actions(page)) : R(link) = Ref(link, self)
  <2>1. ASSUME NEW link \in ToSet(Hrefs(page)) \cup ToSet(Actions(page)) PROVE Href(site, link, self) = Absolute(Address(OnSelf(link, self)))
    BY <1>3, HrefIs
  <2> QED BY <2>1 DEF Ref, Target
<1> HIDE DEF R
<1>5. Tagged("a", page.links) = Anchors("a", page.links, self)
  <2>1. \A n \in DOMAIN page.links : R(page.links[n]) = Ref(page.links[n], self)
    BY <1>3, <1>4, HrefsElements
  <2> HIDE DEF page
  <2> QED BY <2>1 DEF Anchors, Anchor
<1>6. Tagged("script", page.scripts) = Anchors("script", page.scripts, self)
  <2>1. \A n \in DOMAIN page.scripts : R(page.scripts[n]) = Ref(page.scripts[n], self)
    BY <1>3, <1>4, HrefsElements
  <2> HIDE DEF page
  <2> QED BY <2>1 DEF Anchors, Anchor
<1>7. divs = Divs(page.data, self)
  <2>1. \A n \in DOMAIN page.data : R(page.data[n]) = Ref(page.data[n], self)
    BY <1>3, <1>4, HrefsElements
  <2> HIDE DEF page
  <2> QED BY <2>1 DEF Divs, Div
<1>8. forms = FormElements(page.forms, self)
  <2>1. \A n \in DOMAIN page.forms : R(page.forms[n].action) = Ref(page.forms[n].action, self)
    BY <1>3, <1>4, HrefsElements
  <2>2. \A name : F(name) = Field(name)
    BY Zenon DEF Field
  <2> HIDE DEF page, F
  <2>3. \A n : [m \in DOMAIN page.forms[n].fields |-> F(page.forms[n].fields[m])] = Fields(page.forms[n])
    BY <2>2 DEF Fields
  <2> QED BY <2>1, <2>3 DEF FormElements, FormElement
<1> HIDE DEF Tagged, divs, forms
<1>9. body = Body(page, self)
  BY <1>5, <1>6, <1>7, <1>8 DEF Body
<1> HIDE DEF body, js, type, elements, final, s
<1>10. s.type = type /\ s.final = final /\ s.elements = elements /\ s.script = js /\ s.sockets = <<>>
  BY <1>1
<1>11. elements = IF page.js \/ page.bad THEN <<>> ELSE Body(page, self)
  BY <1>9 DEF elements
<1> QED BY <1>2, <1>10, <1>11 DEF type, final, s

BeforeForms(page, self) ==
  Anchors("a", page.links, self) \o Anchors("script", page.scripts, self) \o Divs(page.data, self)

\* The elements before the forms serve the page's links, in their order.
LEMMA LinksServed ==
  ASSUME NEW page, IsPageSpec(page), NEW self, NEW base
  PROVE  LET s == BeforeForms(page, self)
             t == Hrefs(page) IN
         Sequence(s) /\ Len(s) = Len(t) /\ \A k \in 1..Len(t) : ServesLink(base, self, s[k], t[k])
<1> DEFINE L == ToSet(Hrefs(page))
           E == {Anchor(tag, Ref(link, self)) : tag \in {"a", "script"}, link \in L} \cup {Div(Ref(link, self)) : link \in L}
           R == {x \in E \X L : ServesLink(base, self, x[1], x[2])}
           In(e, link) == <<e, link>> \in R
           a == page.links
           b == page.scripts
           c == page.data
           p == Anchors("a", a, self)
           q == Anchors("script", b, self)
           r == Divs(c, self)
<1>1. /\ Sequence(a) /\ Sequence(b) /\ Sequence(c)
      /\ (\A n \in DOMAIN a : a[n] \in L) /\ (\A n \in DOMAIN b : b[n] \in L) /\ (\A n \in DOMAIN c : c[n] \in L)
  BY HrefsElements
<1>2. ASSUME NEW link \in L, NEW tag \in {"a", "script"} PROVE <<Anchor(tag, Ref(link, self)), link>> \in R
  <2>1. ServesLink(base, self, Anchor(tag, Ref(link, self)), link)
    BY AnchorServes
  <2> HIDE DEF L
  <2> QED BY <2>1
<1>3. ASSUME NEW link \in L PROVE <<Div(Ref(link, self)), link>> \in R
  <2>1. ServesLink(base, self, Div(Ref(link, self)), link)
    BY DivServes
  <2> HIDE DEF L
  <2> QED BY <2>1
<1> HIDE DEF R, L, a, b, c
<1>4. Related(R, p, a)
  <2>1. /\ Len(a) \in Nat /\ DOMAIN a = 1..Len(a) /\ p = [k \in 1..Len(a) |-> p[k]]
        /\ \A k \in 1..Len(a) : p[k] = Anchor("a", Ref(a[k], self))
    BY <1>1, SequenceFacts DEF Anchors
  <2> HIDE DEF p
  <2>2. Sequence(p) /\ Len(p) = Len(a)
    BY <2>1, SequenceByIndex
  <2>3. \A k \in 1..Len(a) : <<p[k], a[k]>> \in R
    BY <1>1, <1>2, <2>1
  <2> QED BY <1>1, <2>2, <2>3 DEF Related
<1>5. Related(R, q, b)
  <2>1. /\ Len(b) \in Nat /\ DOMAIN b = 1..Len(b) /\ q = [k \in 1..Len(b) |-> q[k]]
        /\ \A k \in 1..Len(b) : q[k] = Anchor("script", Ref(b[k], self))
    BY <1>1, SequenceFacts DEF Anchors
  <2> HIDE DEF q
  <2>2. Sequence(q) /\ Len(q) = Len(b)
    BY <2>1, SequenceByIndex
  <2>3. \A k \in 1..Len(b) : <<q[k], b[k]>> \in R
    BY <1>1, <1>2, <2>1
  <2> QED BY <1>1, <2>2, <2>3 DEF Related
<1>6. Related(R, r, c)
  <2>1. /\ Len(c) \in Nat /\ DOMAIN c = 1..Len(c) /\ r = [k \in 1..Len(c) |-> r[k]]
        /\ \A k \in 1..Len(c) : r[k] = Div(Ref(c[k], self))
    BY <1>1, SequenceFacts DEF Divs
  <2> HIDE DEF r
  <2>2. Sequence(r) /\ Len(r) = Len(c)
    BY <2>1, SequenceByIndex
  <2>3. \A k \in 1..Len(c) : <<r[k], c[k]>> \in R
    BY <1>1, <1>3, <2>1
  <2> QED BY <1>1, <2>2, <2>3 DEF Related
<1>7. BeforeForms(page, self) = (p \o q) \o r /\ Hrefs(page) = (a \o b) \o c
  BY DEF BeforeForms, Hrefs, a, b, c
<1> HIDE DEF p, q, r
<1>8. Related(R, p \o q, a \o b)
  BY <1>4, <1>5, RelatedJoin
<1>9. Related(R, (p \o q) \o r, (a \o b) \o c)
  BY <1>6, <1>8, RelatedJoin
<1>10. Related(R, BeforeForms(page, self), Hrefs(page))
  BY <1>7, <1>9
<1>11. \A e, link : <<e, link>> \in R => ServesLink(base, self, e, link)
  BY DEF R
<1> QED BY <1>10, <1>11 DEF Related

LEMMA FormsServed ==
  ASSUME NEW page, IsPageSpec(page), \A n \in DOMAIN page.forms : NamedApart(page.forms[n].fields), NEW self, NEW base
  PROVE  LET s == FormElements(page.forms, self) IN
         Sequence(s) /\ Len(s) = Len(page.forms) /\ \A k \in 1..Len(page.forms) : ServesForm(base, self, s[k], page.forms[k])
<1> DEFINE f == page.forms
           s == FormElements(f, self)
<1>1. Sequence(f) /\ \A n \in DOMAIN f : IsForm(f[n])
  BY HrefsElements
<1>2. /\ Len(f) \in Nat /\ DOMAIN f = 1..Len(f) /\ s = [k \in 1..Len(f) |-> s[k]]
      /\ \A k \in 1..Len(f) : s[k] = FormElement(f[k], Ref(f[k].action, self))
  BY <1>1, SequenceFacts DEF FormElements
<1>3. \A k \in 1..Len(f) : NamedApart(f[k].fields) /\ Sequence(f[k].fields)
  BY <1>1, <1>2 DEF IsForm
<1>4. \A k \in 1..Len(f) : ServesForm(base, self, FormElement(f[k], Ref(f[k].action, self)), f[k])
  BY <1>3, FormServes
<1> HIDE DEF s, f
<1>5. Sequence(s) /\ Len(s) = Len(f)
  BY <1>2, SequenceByIndex
<1>6. \A k \in 1..Len(f) : ServesForm(base, self, s[k], f[k])
  BY <1>2, <1>4
<1> QED BY <1>5, <1>6 DEF s, f

LinksFound(page, self) == [k \in 1..Len(Hrefs(page)) |-> LinkFound(Hrefs(page)[k], self)]
FormsFound(page, self) == [k \in 1..Len(page.forms) |-> FormFound(page.forms[k], self)]

\* What the extractors find in a served document.
LEMMA DocumentFound ==
  ASSUME NEW page, IsPageSpec(page), \A n \in DOMAIN page.forms : NamedApart(page.forms[n].fields), NEW self,
         NEW s, s.type = "html", s.elements = Body(page, self)
  PROVE  LinksIn(s) = LinksFound(page, self) /\ FormsIn(s) = FormsFound(page, self)
<1> DEFINE base == BaseURL(s)
           els == s.elements
           h == Hrefs(page)
           f == page.forms
           A == Len(h)
           B == Len(f)
           p == BeforeForms(page, self)
           q == FormElements(f, self)
           links == [k \in DOMAIN els |-> LinksOf(base, els[k])]
           forms == [k \in DOMAIN els |-> FormOf(base, els[k])]
           x == [k \in 1..A |-> LinkFound(h[k], self)]
           y == [k \in A + 1..A + B |-> FormFound(f[k - A], self)]
<1>1. Sequence(p) /\ Len(p) = A /\ \A k \in 1..A : ServesLink(base, self, p[k], h[k])
  BY LinksServed
<1>2. Sequence(q) /\ Len(q) = B /\ \A k \in 1..B : ServesForm(base, self, q[k], f[k])
  BY FormsServed
<1>3. els = p \o q
  BY DEF Body, BeforeForms
<1>4. A \in Nat /\ B \in Nat
  BY <1>1, <1>2, SequenceFacts
<1>5. /\ Sequence(els) /\ Len(els) = A + B /\ DOMAIN els = 1..A + B
      /\ \A k \in 1..A : els[k] = p[k]
      /\ \A k \in 1..B : els[A + k] = q[k]
  <2> HIDE DEF A, B, p, q, els
  <2>1. /\ Sequence(p \o q) /\ Len(p \o q) = Len(p) + Len(q) /\ DOMAIN (p \o q) = 1..Len(p) + Len(q)
        /\ \A k \in 1..Len(p) : (p \o q)[k] = p[k]
        /\ \A k \in 1..Len(q) : (p \o q)[Len(p) + k] = q[k]
    BY <1>1, <1>2, JoinIndexes
  <2> QED BY <1>1, <1>2, <1>3, <2>1
<1>6. /\ LinkExtractor(s, base) = FlattenSeq(links)
      /\ FormExtractor(s, base) = FlattenSeq(forms)
  BY ElementByElement
<1>7. \A k \in 1..A : LinksOf(base, els[k]) = <<LinkFound(h[k], self)>> /\ FormOf(base, els[k]) = <<>>
  BY <1>1, <1>5 DEF ServesLink
<1>8. \A k \in 1..B : LinksOf(base, els[A + k]) = <<>> /\ FormOf(base, els[A + k]) = <<FormFound(f[k], self)>>
  BY <1>2, <1>5 DEF ServesForm
<1>9. LinksFound(page, self) = [k \in 1..A |-> LinkFound(h[k], self)] /\ FormsFound(page, self) = [k \in 1..B |-> FormFound(f[k], self)]
  BY DEF LinksFound, FormsFound
<1> HIDE DEF A, B, p, q, h, f, els, base
<1>10. \A k \in 1..A + B : k \in 1..A \/ (k \notin 1..A /\ k - A \in 1..B /\ A + (k - A) = k /\ k \in A + 1..A + B)
  BY <1>4
<1>11. \A k \in 1..A : k \notin A + 1..A + B
  BY <1>4
<1>12. /\ Sequence(links) /\ Len(links) = A + B /\ DOMAIN links = 1..A + B
       /\ Sequence(forms) /\ Len(forms) = A + B /\ DOMAIN forms = 1..A + B
  <2>1. A + B \in Nat
    BY <1>4
  <2>2. /\ links = [k \in 1..A + B |-> links[k]] /\ forms = [k \in 1..A + B |-> forms[k]]
        /\ DOMAIN links = 1..A + B /\ DOMAIN forms = 1..A + B
    BY <1>5
  <2> HIDE DEF links, forms
  <2> QED BY <2>1, <2>2, SequenceByIndex
<1>13. \A k \in 1..A + B : links[k] = IF k \in 0 + 1..A THEN <<x[k]>> ELSE <<>>
  <2>1. ASSUME NEW k \in 1..A + B PROVE links[k] = IF k \in 0 + 1..A THEN <<x[k]>> ELSE <<>>
    <3>1. links[k] = LinksOf(base, els[k])
      BY <1>5
    <3>2. CASE k \in 1..A
      <4>1. x[k] = LinkFound(h[k], self) /\ k \in 0 + 1..A
        BY <3>2
      <4> HIDE DEF x, links
      <4> QED BY <1>7, <3>1, <3>2, <4>1
    <3>3. CASE k \notin 1..A
      <4>1. LinksOf(base, els[k]) = <<>>
        BY <1>8, <1>10, <3>3
      <4>2. k \notin 0 + 1..A
        BY <3>3
      <4> HIDE DEF x, links
      <4> QED BY <3>1, <4>1, <4>2
    <3> QED BY <3>2, <3>3
  <2> QED BY <2>1
<1>14. \A k \in 1..A + B : forms[k] = IF k \in A + 1..A + B THEN <<y[k]>> ELSE <<>>
  <2>1. ASSUME NEW k \in 1..A + B PROVE forms[k] = IF k \in A + 1..A + B THEN <<y[k]>> ELSE <<>>
    <3>1. forms[k] = FormOf(base, els[k])
      BY <1>5
    <3>2. CASE k \in 1..A
      <4>1. k \notin A + 1..A + B
        BY <1>11, <3>2
      <4> HIDE DEF y, forms
      <4> QED BY <1>7, <3>1, <3>2, <4>1
    <3>3. CASE k \notin 1..A
      <4>0. k \in A + 1..A + B /\ k - A \in 1..B /\ A + (k - A) = k
        BY <1>10, <3>3
      <4>1. FormOf(base, els[k]) = <<FormFound(f[k - A], self)>>
        BY <1>8, <4>0
      <4>2. y[k] = FormFound(f[k - A], self)
        BY <4>0
      <4> HIDE DEF y, forms
      <4> QED BY <3>1, <4>0, <4>1, <4>2
    <3> QED BY <3>2, <3>3
  <2> QED BY <2>1
<1>15. FlattenSeq(links) = LinksFound(page, self)
  <2>1. 0 <= A /\ A <= A + B /\ 0 \in Nat
    BY <1>4
  <2> DEFINE z == [j \in 1..A - 0 |-> x[0 + j]]
  <2>2. FlattenSeq(links) = z
    <3> HIDE DEF links, x, forms, y
    <3>1. \A k \in 1..Len(links) : links[k] = IF k \in 0 + 1..A THEN <<x[k]>> ELSE <<>>
      BY <1>12, <1>13
    <3>2. A <= Len(links)
      BY <1>12, <2>1
    <3>3. Slotted(links, 0, A, x)
      BY <3>1 DEF Slotted
    <3>4. FlattenSeq(links) = Shifted(x, 0, A - 0)
      BY <1>4, <1>12, <2>1, <3>2, <3>3, FlattenSlots
    <3> QED BY <3>4 DEF Shifted
  <2>3. z = [k \in 1..A |-> LinkFound(h[k], self)]
    <3>1. A - 0 = A /\ \A j \in 1..A : 0 + j = j
      BY <1>4
    <3>2. \A j \in 1..A : x[0 + j] = LinkFound(h[j], self)
      BY <3>1
    <3> HIDE DEF x
    <3> QED BY <3>1, <3>2
  <2> QED BY <1>9, <2>2, <2>3
<1>16. FlattenSeq(forms) = FormsFound(page, self)
  <2>1. A <= A + B /\ A + B <= A + B /\ A + B \in Nat
    BY <1>4
  <2> DEFINE z == [j \in 1..A + B - A |-> y[A + j]]
  <2>2. FlattenSeq(forms) = z
    <3> HIDE DEF links, x, forms, y
    <3>1. \A k \in 1..Len(forms) : forms[k] = IF k \in A + 1..A + B THEN <<y[k]>> ELSE <<>>
      BY <1>12, <1>14
    <3>2. A + B <= Len(forms)
      BY <1>12, <2>1
    <3>3. Slotted(forms, A, A + B, y)
      BY <3>1 DEF Slotted
    <3>4. FlattenSeq(forms) = Shifted(y, A, A + B - A)
      BY <1>4, <1>12, <2>1, <3>2, <3>3, FlattenSlots
    <3> QED BY <3>4 DEF Shifted
  <2>3. z = [k \in 1..B |-> FormFound(f[k], self)]
    <3>1. A + B - A = B /\ \A j \in 1..B : A + j - A = j /\ A + j \in A + 1..A + B
      BY <1>4
    <3>2. ASSUME NEW j \in 1..B PROVE y[A + j] = FormFound(f[j], self)
      <4>1. A + j \in A + 1..A + B /\ A + j - A = j
        BY <3>1, <3>2
      <4> DEFINE i == A + j
                 G(k) == FormFound(f[k - A], self)
      <4>2. y[i] = G(i)
        <5>1. y = [k \in A + 1..A + B |-> G(k)] /\ i \in A + 1..A + B
          BY <4>1
        <5> HIDE DEF y, G, i
        <5> QED BY <5>1
      <4>3. i - A = j
        BY <1>4, <3>2
      <4> HIDE DEF y
      <4> QED BY <4>2, <4>3
    <3> HIDE DEF y
    <3> QED BY <3>1, <3>2
  <2> QED BY <1>9, <2>2, <2>3
<1> HIDE DEF links, forms
<1>17. CASE els # <<>>
  <2>1. HasDoc(s)
    BY <1>17, Zenon DEF HasDoc, els
  <2>2. LinksIn(s) = LinkExtractor(s, base) /\ FormsIn(s) = FormExtractor(s, base)
    BY <2>1, Zenon DEF LinksIn, FormsIn, base
  <2> QED BY <1>6, <1>15, <1>16, <2>2
<1>18. CASE els = <<>>
  <2>1. A = 0 /\ B = 0
    <3>1. Len(els) = 0
      BY <1>18
    <3> QED BY <1>4, <1>5, <3>1
  <2>2. ~HasDoc(s)
    BY <1>18, Zenon DEF HasDoc, els
  <2>3. LinksIn(s) = <<>> /\ FormsIn(s) = <<>>
    BY <2>2, Zenon DEF LinksIn, FormsIn
  <2>4. LinksFound(page, self) = <<>> /\ FormsFound(page, self) = <<>>
    BY <1>9, <2>1
  <2> QED BY <2>3, <2>4
<1> QED BY <1>17, <1>18

\* What an endpoint in a script is found as.
Endpoint(base, e, path) == [Discovery("link", OriginRoot(base, path)) EXCEPT !.method = e.method]
EndpointsAt(base, e) ==
  <<Endpoint(base, e, e.path)>> \o IF e.alpha THEN <<Endpoint(base, e, e.path \o <<"/", "1">>)>> ELSE <<>>

LEMMA EndpointIs ==
  ASSUME NEW base, NEW e, NEW path
  PROVE  Endpoint(base, e, path).url = OriginRoot(base, path) /\ Endpoint(base, e, path).kind = "link"
<1> DEFINE u == OriginRoot(base, path)
           d == Discovery("link", u)
<1>1. DOMAIN d = {"kind", "url", "method", "params"} /\ d = [x \in DOMAIN d |-> d[x]] /\ d.url = u /\ d.kind = "link"
  <2> DEFINE none == ""
  <2>1. d = [kind |-> "link", url |-> u, method |-> none, params |-> <<>>]
    BY DEF Discovery
  <2> HIDE DEF none, d, u
  <2> QED BY <2>1
<1>2. Endpoint(base, e, path) = [d EXCEPT !.method = e.method]
  BY DEF Endpoint
<1> HIDE DEF d, u
<1>3. Endpoint(base, e, path).url = u /\ Endpoint(base, e, path).kind = "link"
  BY <1>1, <1>2
<1> QED BY <1>3 DEF u

LEMMA OneRelated ==
  ASSUME NEW R, NEW a, NEW b
  PROVE  /\ <<a, b>> \in R => Related(R, <<a>>, <<b>>)
         /\ Related(R, <<>>, <<>>)
<1>1. Sequence(<<a>>) /\ Sequence(<<b>>) /\ Sequence(<<>>)
  BY ShortSequences
<1>2. Len(<<a>>) = 1 /\ Len(<<b>>) = 1 /\ <<a>>[1] = a /\ <<b>>[1] = b /\ Len(<<>>) = 0
  OBVIOUS
<1>3. Related(R, <<>>, <<>>)
  <2>1. \A k \in 1..0 : FALSE
    OBVIOUS
  <2> QED BY <1>1, <1>2, <2>1 DEF Related
<1>4. ASSUME <<a, b>> \in R PROVE Related(R, <<a>>, <<b>>)
  <2>1. \A k \in 1..1 : k = 1
    OBVIOUS
  <2> QED BY <1>1, <1>2, <1>4, <2>1 DEF Related
<1> QED BY <1>3, <1>4

LEMMA EndpointsRelated ==
  ASSUME NEW base, NEW e, NEW R,
         <<Endpoint(base, e, e.path), e.path>> \in R,
         <<Endpoint(base, e, e.path \o <<"/", "1">>), e.path \o <<"/", "1">>>> \in R
  PROVE  Related(R, EndpointsAt(base, e), JSRouteVariants(e))
<1> DEFINE p == e.path
           q == e.path \o <<"/", "1">>
           a == Endpoint(base, e, p)
           b == Endpoint(base, e, q)
<1>1. Related(R, <<a>>, <<p>>) /\ Related(R, <<b>>, <<q>>) /\ Related(R, <<>>, <<>>)
  BY OneRelated
<1>2. /\ EndpointsAt(base, e) = <<a>> \o IF e.alpha THEN <<b>> ELSE <<>>
      /\ JSRouteVariants(e) = <<p>> \o IF e.alpha THEN <<q>> ELSE <<>>
  BY DEF EndpointsAt, JSRouteVariants
<1> HIDE DEF a, b, p, q
<1>3. CASE e.alpha
  <2>1. Related(R, <<a>> \o <<b>>, <<p>> \o <<q>>)
    BY <1>1, RelatedJoin
  <2>2. EndpointsAt(base, e) = <<a>> \o <<b>> /\ JSRouteVariants(e) = <<p>> \o <<q>>
    BY <1>2, <1>3
  <2> QED BY <2>1, <2>2
<1>4. CASE ~e.alpha
  <2>1. Related(R, <<a>> \o <<>>, <<p>> \o <<>>)
    BY <1>1, RelatedJoin
  <2>2. EndpointsAt(base, e) = <<a>> \o <<>> /\ JSRouteVariants(e) = <<p>> \o <<>>
    BY <1>2, <1>4
  <2> QED BY <2>1, <2>2
<1> QED BY <1>3, <1>4

\* Each route of a served script is found once, under its host.
LEMMA RoutesFound ==
  ASSUME NEW page, IsPageSpec(page), page.js, IsInjective(Routes(page)), NEW base,
         NEW s, s.script.templates = <<>>, s.script.statics = page.endpoints, s.script.suffixes = <<>>, s.script.chunks = <<>>
  PROVE  LET found == JSEndpointExtractor(s, base)
             routes == Routes(page) IN
         /\ Sequence(found) /\ Sequence(routes) /\ Len(found) = Len(routes)
         /\ \A k \in 1..Len(routes) : found[k].url = OriginRoot(base, routes[k]) /\ found[k].kind = "link"
<1> DEFINE js == s.script
           Hit(m, u) == [Discovery("link", u) EXCEPT !.method = m]
           Template(t) ==
             <<Hit(t.method, IF t.ref.kind = "absolute" THEN t.ref.url ELSE OriginRoot(base, t.ref.path))>>
           Static(e) ==
             <<Hit(e.method, OriginRoot(base, e.path))>>
               \o IF e.alpha THEN <<Hit(e.method, OriginRoot(base, e.path \o <<"/", "1">>))>> ELSE <<>>
           bases == VarBases(js.assigned)
           Suffix(e) == IF e.var \in DOMAIN bases
                          THEN <<Hit(e.method, OriginRoot(base, bases[e.var] \o e.path))>> ELSE <<>>
           templates == [k \in DOMAIN js.templates |-> Template(js.templates[k])]
           statics == [k \in DOMAIN js.statics |-> Static(js.statics[k])]
           suffixes == [k \in DOMAIN js.suffixes |-> Suffix(js.suffixes[k])]
           hits == FlattenSeq(templates) \o FlattenSeq(statics) \o FlattenSeq(suffixes)
           Fresh(k) == \A j \in 1..k - 1 : hits[j] # hits[k]
           Chunk(ref) == IF Resolves(ref) THEN <<Discovery("link", Resolve(base, ref))>> ELSE <<>>
           indices == [k \in DOMAIN hits |-> k]
           First(k) == IF Fresh(k) THEN <<hits[k]>> ELSE <<>>
           once == [k \in DOMAIN indices |-> First(indices[k])]
           chunks == [k \in DOMAIN js.chunks |-> Chunk(js.chunks[k])]
           found == JSEndpointExtractor(s, base)
           routes == Routes(page)
           E == page.endpoints
           N == Len(E)
           ways == [k \in DOMAIN E |-> JSRouteVariants(E[k])]
<1>1. found = FlattenSeq(once) \o FlattenSeq(chunks)
  BY DEF JSEndpointExtractor, FlatMap
<1>2. routes = FlattenSeq(ways)
  BY DEF Routes, FlatMap
<1>3. \A e : Static(e) = EndpointsAt(base, e)
  BY DEF EndpointsAt, Endpoint
<1>4. Sequence(E) /\ N \in Nat /\ DOMAIN E = 1..N /\ js.statics = E
  BY SequenceFacts DEF IsPageSpec
<1> HIDE DEF Template, Static, Suffix, Chunk, routes, found, Hit
<1>5. templates = <<>> /\ suffixes = <<>> /\ chunks = <<>>
  BY DEF js
<1> DEFINE P == {e.path : e \in ToSet(E)} \cup {e.path \o <<"/", "1">> : e \in ToSet(E)}
           D == ToSet(E)
           H == {Endpoint(base, e, p) : e \in D, p \in P}
           Finds(a, p) == a.url = OriginRoot(base, p) /\ a.kind = "link"
           R == {x \in H \X P : Finds(x[1], x[2])}
<1>6. \A a, b : <<a, b>> \in R => a.url = OriginRoot(base, b) /\ a.kind = "link"
  <2> HIDE DEF P, H
  <2> QED OBVIOUS
<1>7. ASSUME NEW k \in 1..N PROVE Related(R, EndpointsAt(base, E[k]), JSRouteVariants(E[k]))
  <2> DEFINE e == E[k]
  <2>1. e \in ToSet(E)
    BY <1>4, <1>7, SequenceFacts
  <2> HIDE DEF E
  <2>2. e.path \in P /\ e.path \o <<"/", "1">> \in P
    BY <2>1
  <2> HIDE DEF P, e
  <2> DEFINE p == e.path
             q == e.path \o <<"/", "1">>
  <2>3. p \in P /\ q \in P /\ e \in D
    BY <2>1, <2>2
  <2> HIDE DEF p, q, D
  <2>4. Endpoint(base, e, p) \in H /\ Endpoint(base, e, q) \in H
    BY <2>3
  <2> HIDE DEF H
  <2>5. Finds(Endpoint(base, e, p), p) /\ Finds(Endpoint(base, e, q), q)
    BY EndpointIs
  <2> HIDE DEF Finds
  <2>6. <<Endpoint(base, e, p), p>> \in R /\ <<Endpoint(base, e, q), q>> \in R
    BY <2>3, <2>4, <2>5
  <2> HIDE DEF R
  <2>7. Related(R, EndpointsAt(base, e), JSRouteVariants(e))
    BY <2>6, EndpointsRelated DEF p, q
  <2> QED BY <2>7 DEF e
<1> HIDE DEF R, P
<1> DEFINE hit == FlattenSeq(statics)
<1>8. Related(R, hit, routes)
  <2>1. /\ statics = [k \in 1..N |-> statics[k]] /\ ways = [k \in 1..N |-> ways[k]]
        /\ \A k \in 1..N : statics[k] = EndpointsAt(base, E[k]) /\ ways[k] = JSRouteVariants(E[k])
    BY <1>3, <1>4
  <2> HIDE DEF statics, ways, N, E
  <2>2. Sequence(statics) /\ Len(statics) = N /\ Sequence(ways) /\ Len(ways) = N
    BY <1>4, <2>1, SequenceByIndex
  <2>3. \A k \in 1..Len(statics) : Related(R, statics[k], ways[k])
    BY <1>7, <2>1, <2>2
  <2> QED BY <1>2, <2>2, <2>3, FlattenTogether
<1>9. hits = hit
  <2>1. FlattenSeq(templates) = <<>> /\ FlattenSeq(suffixes) = <<>>
    BY <1>5 DEF FlattenSeq
  <2>2. Sequence(hit)
    BY <1>8 DEF Related
  <2> HIDE DEF templates, suffixes, statics, hit
  <2>3. (<<>> \o hit) \o <<>> = hit
    BY <2>2, FlattenFew
  <2>4. hits = (<<>> \o hit) \o <<>>
    BY <2>1 DEF hit
  <2> QED BY <2>3, <2>4
<1> HIDE DEF hit, hits, templates, suffixes, statics
<1> DEFINE M == Len(hits)
<1>10. /\ Sequence(hits) /\ Sequence(routes) /\ M \in Nat /\ Len(routes) = M /\ DOMAIN hits = 1..M /\ DOMAIN routes = 1..M
       /\ \A k \in 1..M : hits[k].url = OriginRoot(base, routes[k]) /\ hits[k].kind = "link"
  <2>1. Related(R, hits, routes)
    BY <1>8, <1>9
  <2> QED BY <1>6, <2>1, SequenceFacts DEF Related
<1>11. ASSUME NEW k \in 1..M PROVE Fresh(k)
  <2>1. ASSUME NEW j \in 1..k - 1, hits[j] = hits[k] PROVE FALSE
    <3>1. j \in 1..M /\ j # k
      BY <1>10, <1>11, <2>1
    <3>2. OriginRoot(base, routes[j]) = OriginRoot(base, routes[k])
      BY <1>10, <1>11, <2>1, <3>1
    <3>3. routes[j] = routes[k]
      <4>1. \A p : OriginRoot(base, p).path = p
        BY DEF OriginRoot, Url
      <4> QED BY <3>2, <4>1
    <3> QED BY <1>10, <1>11, <3>1, <3>3 DEF IsInjective, routes
  <2> QED BY <2>1
<1> HIDE DEF Fresh
<1>12. FlattenSeq(once) = hits
  <2>1. DOMAIN once = 1..M /\ once = [k \in 1..M |-> once[k]] /\ \A k \in 1..M : once[k] = <<hits[k]>>
    BY <1>10, <1>11
  <2> HIDE DEF once, M
  <2>2. Sequence(once) /\ Len(once) = M
    BY <1>10, <2>1, SequenceByIndex
  <2>3. \A k \in 1..Len(once) : once[k] = IF k \in 0 + 1..M THEN <<hits[k]>> ELSE <<>>
    BY <1>10, <2>1, <2>2
  <2>4. Slotted(once, 0, M, hits)
    BY <2>3 DEF Slotted
  <2>5. 0 \in Nat /\ 0 <= M /\ M <= Len(once)
    BY <1>10, <2>2
  <2>6. FlattenSeq(once) = Shifted(hits, 0, M - 0)
    BY <1>10, <2>2, <2>4, <2>5, FlattenSlots
  <2>7. Shifted(hits, 0, M - 0) = [k \in 1..M |-> hits[k]]
    <3>1. M - 0 = M /\ \A j \in 1..M : 0 + j = j
      BY <1>10
    <3> QED BY <3>1 DEF Shifted
  <2>8. hits = [k \in 1..M |-> hits[k]]
    BY <1>10, SequenceFacts DEF M
  <2> QED BY <2>6, <2>7, <2>8
<1>13. found = hits
  <2>1. FlattenSeq(chunks) = <<>>
    BY <1>5 DEF FlattenSeq
  <2>2. hits \o <<>> = hits
    BY <1>10, FlattenFew
  <2> HIDE DEF once, chunks, M
  <2> QED BY <1>1, <1>12, <2>1, <2>2
<1> QED BY <1>10, <1>13 DEF found, routes

-----------------------------------------------------------------------------
(* A page's links in order, and its forms.                                 *)

\* The links a page's visitor gets, in order, and the forms among what is found.
SelfLink(path) == Link("", path, NoQuery)
RouteLinks(page) == [k \in DOMAIN Routes(page) |-> SelfLink(Routes(page)[k])]
AllLinks(page) == Hrefs(page) \o Actions(page) \o RouteLinks(page)
FormIn(d) == IF d.kind = "form" THEN <<d>> ELSE <<>>
Submissions(found) == FlattenSeq([k \in DOMAIN found |-> FormIn(found[k])])
OwnForms(page) == IF page.js \/ page.bad THEN <<>> ELSE page.forms
ParamCounts(forms) == [n \in DOMAIN forms |-> Cardinality(DOMAIN forms[n].params)]
FieldCounts(forms) == [n \in DOMAIN forms |-> Len(forms[n].fields)]

LEMMA SelfLinkIs ==
  ASSUME NEW path, NEW self, NEW site
  PROVE  OnSelf(SelfLink(path), self) = Link(self, path, NoQuery) /\ IsLink(SelfLink(path)) /\ Known(site, SelfLink(path))
<1> DEFINE none == ""
           k == SelfLink(path)
<1>1. k = Link(none, path, NoQuery)
  BY DEF SelfLink
<1>2. OnSelf(k, self) = IF k.host = none THEN [k EXCEPT !.host = self] ELSE k
  BY DEF OnSelf
<1>3. Known(site, k) <=> k.host \in {none} \cup ToSet(site.hosts)
  BY DEF Known
<1> HIDE DEF none, k
<1>4. k.host = none /\ [k EXCEPT !.host = self] = Link(self, path, NoQuery) /\ IsLink(k)
  BY <1>1 DEF Link, IsLink
<1> QED BY <1>2, <1>3, <1>4 DEF k

LEMMA AllLinksAre ==
  ASSUME NEW site, NEW place, WellAt(site, place)
  PROVE  LET page == site.pages[place]
             A == Len(Hrefs(page))
             B == Len(page.forms)
             C == Len(Routes(page))
             t == AllLinks(page) IN
         /\ A \in Nat /\ B \in Nat /\ C \in Nat /\ Sequence(t) /\ Len(t) = A + B + C
         /\ \A k \in 1..A : t[k] = Hrefs(page)[k]
         /\ \A k \in 1..B : t[A + k] = page.forms[k].action
         /\ \A k \in 1..C : t[A + B + k] = SelfLink(Routes(page)[k])
         /\ \A k \in 1..Len(t) : IsLink(t[k]) /\ Known(site, t[k])
<1> DEFINE page == site.pages[place]
           h == Hrefs(page)
           a == Actions(page)
           r == Routes(page)
           c == RouteLinks(page)
           A == Len(h)
           B == Len(page.forms)
           C == Len(r)
           t == AllLinks(page)
<1>1. IsPageSpec(page) /\ \A link \in ToSet(h) \cup ToSet(a) : Known(site, link)
  BY DEF WellAt
<1>2. /\ Sequence(h) /\ Sequence(page.forms)
      /\ \A n \in DOMAIN page.forms : page.forms[n].action \in ToSet(a) /\ IsForm(page.forms[n])
  BY <1>1, HrefsElements
<1>3. \A link \in ToSet(h) : IsLink(link)
  BY <1>1 DEF IsPageSpec
<1>4. Sequence(r)
  <2> DEFINE ways == [k \in DOMAIN page.endpoints |-> JSRouteVariants(page.endpoints[k])]
  <2>1. CASE ~page.js
    <3>1. r = <<>>
      BY <2>1, Zenon DEF Routes
    <3> QED BY <3>1, ShortSequences
  <2>2. CASE page.js
    <3>1. r = FlattenSeq(ways)
      BY <2>2 DEF Routes, FlatMap
    <3>2. Sequence(page.endpoints)
      BY <1>1 DEF IsPageSpec
    <3>3. Len(page.endpoints) \in Nat /\ DOMAIN page.endpoints = 1..Len(page.endpoints)
      BY <3>2, SequenceFacts
    <3>4. ways = [k \in 1..Len(page.endpoints) |-> ways[k]]
      BY <3>3
    <3>5. \A e : Sequence(JSRouteVariants(e))
      <4>1. ASSUME NEW e PROVE Sequence(JSRouteVariants(e))
        <5> DEFINE q == e.path \o <<"/", "1">>
                   v == IF e.alpha THEN <<q>> ELSE <<>>
        <5>1. JSRouteVariants(e) = <<e.path>> \o v
          BY DEF JSRouteVariants
        <5>2. Sequence(<<e.path>>) /\ Sequence(<<q>>) /\ Sequence(<<>>)
          BY ShortSequences
        <5> HIDE DEF q
        <5>3. Sequence(v)
          BY <5>2
        <5> QED BY <5>1, <5>2, <5>3, JoinSequences
      <4> QED BY <4>1
    <3>6. \A k \in DOMAIN ways : Sequence(ways[k])
      BY <3>5
    <3> HIDE DEF ways
    <3>7. Sequence(ways)
      BY <3>3, <3>4, SequenceByIndex
    <3>8. Related({<<x, x>> : x \in UNION {ToSet(ways[k]) : k \in DOMAIN ways}}, FlattenSeq(ways), FlattenSeq(ways))
      <4> DEFINE X == UNION {ToSet(ways[k]) : k \in DOMAIN ways}
                 R == {<<x, x>> : x \in X}
      <4>1. ASSUME NEW k \in 1..Len(ways) PROVE Related(R, ways[k], ways[k])
        <5>1. k \in DOMAIN ways /\ Sequence(ways[k])
          BY <3>6, <3>7, <4>1, SequenceFacts
        <5>2. \A j \in 1..Len(ways[k]) : ways[k][j] \in ToSet(ways[k])
          BY <5>1, SequenceFacts
        <5>3. \A j \in 1..Len(ways[k]) : ways[k][j] \in X
          BY <5>1, <5>2
        <5> HIDE DEF X
        <5>4. \A j \in 1..Len(ways[k]) : <<ways[k][j], ways[k][j]>> \in R
          BY <5>3
        <5> QED BY <5>1, <5>4 DEF Related
      <4> HIDE DEF R
      <4>2. Related(R, FlattenSeq(ways), FlattenSeq(ways))
        BY <3>7, <4>1, FlattenTogether
      <4> QED BY <4>2 DEF R
    <3> QED BY <3>1, <3>8 DEF Related
  <2> QED BY <2>1, <2>2
<1>5. /\ A \in Nat /\ B \in Nat /\ C \in Nat /\ DOMAIN page.forms = 1..B /\ DOMAIN r = 1..C
  BY <1>2, <1>4, SequenceFacts
<1>6. /\ a = [k \in 1..B |-> a[k]] /\ \A k \in 1..B : a[k] = page.forms[k].action
  BY <1>5 DEF Actions
<1>7. /\ c = [k \in 1..C |-> c[k]] /\ \A k \in 1..C : c[k] = SelfLink(r[k])
  BY <1>5 DEF RouteLinks
<1> HIDE DEF a, c, h, r
<1>8. Sequence(a) /\ Len(a) = B /\ Sequence(c) /\ Len(c) = C
  <2> HIDE DEF B, C
  <2> QED BY <1>5, <1>6, <1>7, SequenceByIndex
<1> DEFINE ha == h \o a
<1>9. /\ Sequence(ha) /\ Len(ha) = A + B /\ \A k \in 1..A : ha[k] = h[k]
      /\ \A k \in 1..B : ha[A + k] = a[k]
  <2>1. /\ Sequence(h \o a) /\ Len(h \o a) = Len(h) + Len(a) /\ \A k \in 1..Len(h) : (h \o a)[k] = h[k]
        /\ \A k \in 1..Len(a) : (h \o a)[Len(h) + k] = a[k]
    <3>1. Sequence(h) /\ Sequence(a)
      BY <1>2, <1>8
    <3> QED BY <3>1, JoinIndexes
  <2> QED BY <1>8, <2>1
<1> HIDE DEF ha, A, B, C
<1>10. /\ Sequence(ha \o c) /\ Len(ha \o c) = A + B + C /\ \A k \in 1..A + B : (ha \o c)[k] = ha[k]
       /\ \A k \in 1..C : (ha \o c)[A + B + k] = c[k]
  <2>1. /\ Sequence(ha \o c) /\ Len(ha \o c) = Len(ha) + Len(c) /\ \A k \in 1..Len(ha) : (ha \o c)[k] = ha[k]
        /\ \A k \in 1..Len(c) : (ha \o c)[Len(ha) + k] = c[k]
    BY <1>8, <1>9, JoinIndexes
  <2> QED BY <1>8, <1>9, <2>1
<1>11. t = ha \o c
  BY DEF AllLinks, ha, h, a, c
<1> HIDE DEF t
<1>12. /\ \A k \in 1..A : k \in 1..A + B
       /\ \A k \in 1..B : A + k \in 1..A + B
       /\ \A k \in 1..A + B + C : k \in 1..A \/ (k - A \in 1..B /\ A + (k - A) = k) \/ (k - (A + B) \in 1..C /\ A + B + (k - (A + B)) = k)
  BY <1>5
<1>13. \A k \in 1..A : t[k] = h[k]
  BY <1>9, <1>10, <1>11, <1>12
<1>14. \A k \in 1..B : t[A + k] = page.forms[k].action
  BY <1>6, <1>9, <1>10, <1>11, <1>12
<1>15. \A k \in 1..C : t[A + B + k] = SelfLink(r[k])
  BY <1>7, <1>10, <1>11
<1>16. ASSUME NEW k \in 1..A + B + C PROVE IsLink(t[k]) /\ Known(site, t[k])
  <2>1. CASE k \in 1..A
    <3>1. h[k] \in ToSet(h)
      BY <1>2, <2>1, SequenceFacts DEF A, h
    <3> QED BY <1>1, <1>3, <1>13, <2>1, <3>1 DEF h
  <2>2. CASE k - A \in 1..B /\ A + (k - A) = k
    <3>1. t[k] = page.forms[k - A].action
      BY <1>14, <2>2
    <3>2. k - A \in DOMAIN page.forms
      BY <1>5, <2>2
    <3>3. IsLink(page.forms[k - A].action)
      BY <1>2, <3>2 DEF IsForm
    <3>4. page.forms[k - A].action \in ToSet(a)
      BY <1>2, <3>2 DEF a
    <3> QED BY <1>1, <3>1, <3>3, <3>4 DEF a
  <2>3. CASE k - (A + B) \in 1..C /\ A + B + (k - (A + B)) = k
    <3>1. t[k] = SelfLink(r[k - (A + B)])
      BY <1>15, <2>3
    <3>2. IsLink(SelfLink(r[k - (A + B)])) /\ Known(site, SelfLink(r[k - (A + B)]))
      BY SelfLinkIs
    <3> QED BY <3>1, <3>2
  <2> QED BY <1>12, <1>16, <2>1, <2>2, <2>3
<1>17. Sequence(t) /\ Len(t) = A + B + C
  BY <1>10, <1>11
<1> QED BY <1>5, <1>13, <1>14, <1>15, <1>16, <1>17 DEF A, B, C, h, r, t

LEMMA JoinedToNothing ==
  ASSUME NEW s, NEW t, Sequence(s), Sequence(t), s \o t = <<>>
  PROVE  Len(s) = 0 /\ Len(t) = 0
<1>1. Len(s) \in Nat /\ Len(t) \in Nat
  BY SequenceFacts
<1>2. Len(s \o t) = Len(s) + Len(t)
  BY JoinIndexes
<1>3. Len(s) + Len(t) = 0
  BY <1>2
<1> QED BY <1>1, <1>3

LEMMA DiscoveryIs ==
  ASSUME NEW kind, NEW u
  PROVE  LET d == Discovery(kind, u) IN
         DOMAIN d = {"kind", "url", "method", "params"} /\ d = [x \in DOMAIN d |-> d[x]] /\ d.url = u /\ d.kind = kind
<1> DEFINE none == ""
           d == Discovery(kind, u)
<1>1. d = [kind |-> kind, url |-> u, method |-> none, params |-> <<>>]
  BY DEF Discovery
<1> HIDE DEF none, d
<1>2. DOMAIN d = {"kind", "url", "method", "params"} /\ d = [x \in DOMAIN d |-> d[x]] /\ d.url = u /\ d.kind = kind
  BY <1>1
<1> QED BY <1>2 DEF d

LEMMA FoundFields ==
  ASSUME NEW self
  PROVE  /\ \A link : LinkFound(link, self).url = Target(link, self) /\ LinkFound(link, self).kind = "link"
         /\ \A form : /\ FormFound(form, self).url = Target(form.action, self) /\ FormFound(form, self).kind = "form"
                      /\ FormFound(form, self).params = FormParams(Fields(form))
<1>1. ASSUME NEW link PROVE LinkFound(link, self).url = Target(link, self) /\ LinkFound(link, self).kind = "link"
  BY DiscoveryIs DEF LinkFound
<1>2. ASSUME NEW form
      PROVE  /\ FormFound(form, self).url = Target(form.action, self) /\ FormFound(form, self).kind = "form"
             /\ FormFound(form, self).params = FormParams(Fields(form))
  <2> DEFINE u == Target(form.action, self)
             d == Discovery("form", u)
             params == FormParams(Fields(form))
             f == FormFound(form, self)
  <2>1. DOMAIN d = {"kind", "url", "method", "params"} /\ d = [x \in DOMAIN d |-> d[x]] /\ d.url = u /\ d.kind = "form"
    BY DiscoveryIs
  <2>2. f = [d EXCEPT !.method = "GET", !.params = params]
    BY DEF FormFound
  <2> HIDE DEF d, params, u, f
  <2>3. f.url = u /\ f.kind = "form" /\ f.params = params
    BY <2>1, <2>2
  <2> QED BY <2>3 DEF f, u, params
<1> QED BY <1>1, <1>2

FoundAs(found, links, self) ==
  /\ Sequence(found) /\ Len(found) = Len(links)
  /\ \A n \in 1..Len(links) : found[n].url = Target(links[n], self)
SentAs(found, forms) ==
  /\ Len(Submissions(found)) = Len(forms)
  /\ ParamCounts(Submissions(found)) = FieldCounts(forms)

\* From a place on there are forms, and no forms before it.
FormsBehind(found, a) ==
  /\ \A n \in 1..a : found[n].kind # "form"
  /\ \A n \in a + 1..Len(found) : found[n].kind = "form"

LEMMA SubmissionsAre ==
  ASSUME NEW found, Sequence(found), NEW a \in Nat, a <= Len(found), FormsBehind(found, a)
  PROVE  Submissions(found) = Shifted(found, a, Len(found) - a)
<1> DEFINE b == Len(found)
           ss == [n \in DOMAIN found |-> FormIn(found[n])]
<1>1. DOMAIN found = 1..b /\ b \in Nat
  BY SequenceFacts
<1>0. (\A n \in 1..a : found[n].kind # "form") /\ \A n \in a + 1..b : found[n].kind = "form"
  BY DEF FormsBehind
<1>2. ss = [n \in 1..b |-> ss[n]] /\ \A n \in 1..b : ss[n] = FormIn(found[n])
  BY <1>1
<1>3. Submissions(found) = FlattenSeq(ss)
  BY DEF Submissions
<1> HIDE DEF ss, b
<1>4. Sequence(ss) /\ Len(ss) = b
  BY <1>1, <1>2, SequenceByIndex
<1>5. ASSUME NEW n \in 1..b PROVE ss[n] = IF n \in a + 1..b THEN <<found[n]>> ELSE <<>>
  <2>1. CASE n \in a + 1..b
    <3>1. FormIn(found[n]) = <<found[n]>>
      BY <1>0, <2>1, Zenon DEF FormIn
    <3> QED BY <1>2, <2>1, <3>1
  <2>2. CASE n \notin a + 1..b
    <3>1. n \in 1..a
      BY <1>1, <2>2
    <3>2. FormIn(found[n]) = <<>>
      BY <1>0, <3>1, Zenon DEF FormIn
    <3> QED BY <1>2, <2>2, <3>2
  <2> QED BY <2>1, <2>2
<1>6. \A n \in 1..Len(ss) : ss[n] = IF n \in a + 1..b THEN <<found[n]>> ELSE <<>>
  BY <1>4, <1>5
<1>7. Slotted(ss, a, b, found)
  BY <1>6 DEF Slotted
<1>8. a <= b /\ b <= Len(ss)
  BY <1>1, <1>4 DEF b
<1>9. FlattenSeq(ss) = Shifted(found, a, b - a)
  BY <1>1, <1>4, <1>7, <1>8, FlattenSlots
<1> QED BY <1>3, <1>9 DEF b

\* A served document gives its page's links in order, the forms last.
LEMMA DocumentsAgree ==
  ASSUME NEW site, NEW k, NEW place, WellAt(site, place), ~site.pages[place].js
  PROVE  LET page == site.pages[place]
             s == ServedPage(site, k, place)
             found == RunAll(Runs(s, FALSE)) IN
         s.type = "html" /\ Routes(page) = <<>>
         /\ FoundAs(found, AllLinks(page), place[1]) /\ SentAs(found, OwnForms(page))
<1> DEFINE page == site.pages[place]
           self == place[1]
           s == ServedPage(site, k, place)
           found == RunAll(Runs(s, FALSE))
           t == AllLinks(page)
           h == Hrefs(page)
           f == page.forms
           A == Len(h)
           B == Len(f)
           C == Len(Routes(page))
           p == LinksFound(page, self)
           q == FormsFound(page, self)
<1>1. /\ IsPageSpec(page) /\ \A n \in DOMAIN f : NamedApart(f[n].fields)
      /\ page.bad => h \o f = <<>>
  BY DEF WellAt
<1>2. /\ s.type = IF page.js /\ ~page.bad THEN "javascript" ELSE "html"
      /\ s.sockets = <<>>
      /\ s.elements = IF page.js \/ page.bad THEN <<>> ELSE Body(page, self)
  BY ServedIs
<1>3. s.type = "html" /\ (page.bad => s.elements = <<>>) /\ (~page.bad => s.elements = Body(page, self))
  BY <1>2, Zenon
<1>4. Routes(page) = <<>>
  BY Zenon DEF Routes
<1>5. /\ A \in Nat /\ B \in Nat /\ C \in Nat /\ Sequence(t) /\ Len(t) = A + B + C
      /\ \A n \in 1..A : t[n] = h[n]
      /\ \A n \in 1..B : t[A + n] = f[n].action
  <2>1. /\ A \in Nat /\ B \in Nat /\ C \in Nat /\ Sequence(t) /\ Len(t) = A + B + C
        /\ \A n \in 1..A : t[n] = h[n]
        /\ \A n \in 1..B : t[A + n] = page.forms[n].action
        /\ \A n \in 1..C : t[A + B + n] = SelfLink(Routes(page)[n])
        /\ \A n \in 1..Len(t) : IsLink(t[n]) /\ Known(site, t[n])
    BY AllLinksAre
  <2> HIDE DEF A, B, C, t, h
  <2> QED BY <2>1
<1>6. C = 0
  BY <1>4
<1>7. Sequence(h) /\ Sequence(f) /\ DOMAIN f = 1..B /\ \A n \in DOMAIN f : IsForm(f[n])
  BY <1>1, HrefsElements, SequenceFacts
<1>8. p = [n \in 1..A |-> LinkFound(h[n], self)] /\ q = [n \in 1..B |-> FormFound(f[n], self)]
  BY DEF LinksFound, FormsFound
<1>9. LinksIn(s) = p /\ FormsIn(s) = q
  <2>1. CASE page.bad
    <3>3. A = 0 /\ B = 0
      BY <1>1, <1>7, <2>1, JoinedToNothing
    <3>4. p = <<>> /\ q = <<>>
      BY <1>8, <3>3
    <3>5. ~HasDoc(s)
      BY <1>3, <2>1, Zenon DEF HasDoc
    <3>6. LinksIn(s) = <<>> /\ FormsIn(s) = <<>>
      BY <3>5, Zenon DEF LinksIn, FormsIn
    <3> QED BY <3>4, <3>6
  <2>2. CASE ~page.bad
    <3>1. s.elements = Body(page, self)
      BY <1>3, <2>2
    <3> QED BY <1>1, <1>3, <3>1, DocumentFound
  <2> QED BY <2>1, <2>2
<1> HIDE DEF A, B, C, p, q, s
<1>10. /\ Sequence(p) /\ Len(p) = A /\ Sequence(q) /\ Len(q) = B
       /\ \A n \in 1..A : p[n] = LinkFound(h[n], self)
       /\ \A n \in 1..B : q[n] = FormFound(f[n], self)
  <2>1. p = [n \in 1..A |-> p[n]] /\ q = [n \in 1..B |-> q[n]]
    BY <1>8
  <2>2. Sequence(p) /\ Len(p) = A /\ Sequence(q) /\ Len(q) = B
    BY <1>5, <2>1, SequenceByIndex
  <2> QED BY <1>8, <2>2
<1>11. found = p \o q
  <2>1. Sequence(LinksIn(s)) /\ Sequence(FormsIn(s))
    BY <1>9, <1>10
  <2>2. RunAll(Runs(s, FALSE)) = Cat(LinksIn(s), FormsIn(s))
    BY <1>2, <1>3, <2>1, HtmlFound
  <2> QED BY <1>9, <2>2 DEF Cat
<1> HIDE DEF found
<1>12. /\ Sequence(found) /\ Len(found) = A + B
       /\ \A n \in 1..A : found[n] = LinkFound(h[n], self)
       /\ \A n \in 1..B : found[A + n] = FormFound(f[n], self)
  <2>1. /\ Sequence(p \o q) /\ Len(p \o q) = Len(p) + Len(q) /\ \A n \in 1..Len(p) : (p \o q)[n] = p[n]
        /\ \A n \in 1..Len(q) : (p \o q)[Len(p) + n] = q[n]
    <3>1. Sequence(p) /\ Sequence(q)
      BY <1>10
    <3> QED BY <3>1, JoinIndexes
  <2> QED BY <1>10, <1>11, <2>1
<1> HIDE DEF h, f, t, self
<1>13. \A n \in 1..A + B : n \in 1..A \/ (n - A \in 1..B /\ A + (n - A) = n)
  BY <1>5
<1>14. FoundAs(found, t, self)
  <2>1. ASSUME NEW n \in 1..A + B PROVE found[n].url = Target(t[n], self)
    <3>1. CASE n \in 1..A
      BY <1>5, <1>12, <3>1, FoundFields
    <3>2. CASE n - A \in 1..B /\ A + (n - A) = n
      <4>1. found[n] = FormFound(f[n - A], self) /\ t[n] = f[n - A].action
        BY <1>5, <1>12, <3>2
      <4> QED BY <4>1, FoundFields
    <3> QED BY <1>13, <3>1, <3>2
  <2>2. Len(t) = A + B
    BY <1>5, <1>6
  <2> QED BY <1>12, <2>1, <2>2 DEF FoundAs
<1>15. OwnForms(page) = f
  <2>1. CASE page.bad
    <3>3. B = 0
      BY <1>1, <1>7, <2>1, JoinedToNothing DEF B
    <3>4. f = <<>>
      BY <1>7, <3>3, NoElements DEF Sequence, B
    <3> QED BY <2>1, <3>4, Zenon DEF OwnForms
  <2>2. CASE ~page.bad
    BY <2>2, Zenon DEF OwnForms, f
  <2> QED BY <2>1, <2>2
<1>16. Submissions(found) = Shifted(found, A, Len(found) - A)
  <2>1. A <= Len(found)
    BY <1>5, <1>12
  <2>2. ASSUME NEW n \in 1..A PROVE found[n].kind # "form"
    <3>1. found[n].kind = "link"
      BY <1>12, FoundFields
    <3> QED BY <3>1, Zenon
  <2>3. ASSUME NEW n \in A + 1..A + B PROVE found[n].kind = "form"
    <3>1. n - A \in 1..B /\ A + (n - A) = n
      BY <1>5, <2>3
    <3>2. found[n] = FormFound(f[n - A], self)
      BY <1>12, <3>1
    <3> QED BY <3>2, FoundFields
  <2>4. FormsBehind(found, A)
    BY <1>12, <2>2, <2>3 DEF FormsBehind
  <2> QED BY <1>5, <1>12, <2>1, <2>4, SubmissionsAre
<1>17. Submissions(found) = [n \in 1..B |-> FormFound(f[n], self)]
  <2>1. Len(found) - A = B
    BY <1>5, <1>12
  <2>2. Shifted(found, A, B) = [n \in 1..B |-> found[A + n]]
    BY DEF Shifted
  <2> QED BY <1>12, <1>16, <2>1, <2>2
<1>18. SentAs(found, f)
  <2> DEFINE sub == Submissions(found)
  <2>1. sub = [n \in 1..B |-> sub[n]] /\ DOMAIN sub = 1..B /\ \A n \in 1..B : sub[n] = FormFound(f[n], self)
    BY <1>17
  <2> HIDE DEF sub
  <2>2. Len(sub) = B
    BY <1>5, <2>1, SequenceByIndex
  <2>3. ASSUME NEW n \in 1..B PROVE Cardinality(DOMAIN sub[n].params) = Len(f[n].fields)
    <3>1. n \in DOMAIN f
      BY <1>7
    <3>2. Sequence(f[n].fields) /\ NamedApart(f[n].fields)
      BY <1>1, <1>7, <3>1 DEF IsForm, f
    <3>3. Cardinality(DOMAIN FormParams(Fields(f[n]))) = Len(f[n].fields)
      BY <3>2, FormSends
    <3>4. sub[n].params = FormParams(Fields(f[n]))
      BY <2>1, FoundFields
    <3> QED BY <3>3, <3>4
  <2>4. ParamCounts(sub) = FieldCounts(f)
    BY <1>7, <2>1, <2>3 DEF ParamCounts, FieldCounts
  <2> QED BY <2>2, <2>4 DEF SentAs, sub, B
<1> QED BY <1>3, <1>4, <1>14, <1>15, <1>18 DEF found, s, t, self

LEMMA RootOfAddress ==
  ASSUME NEW self, NEW path, NEW route
  PROVE  OriginRoot(Address(Link(self, path, NoQuery)), route) = Address(Link(self, route, NoQuery))
<1> DEFINE a == Address(Link(self, path, NoQuery))
           u == Url("http", <<"l">>, self, route)
<1>1. Link(self, path, NoQuery).host = self /\ Link(self, route, NoQuery).host = self
      /\ Link(self, route, NoQuery).path = route /\ Link(self, route, NoQuery).query = NoQuery
  BY DEF Link
<1>2. a.scheme = "http" /\ a.host = <<"l">> /\ a.port = self
  BY <1>1, AddressIs
<1>3. OriginRoot(a, route) = u
  BY <1>2 DEF OriginRoot
<1>4. Address(Link(self, route, NoQuery)) = [u EXCEPT !.query = NoQuery]
  BY <1>1, Zenon DEF Address
<1>5. [u EXCEPT !.query = NoQuery] = u
  <2>1. IsRecord(u) /\ u.query = NoQuery
    BY DEF Url, IsRecord
  <2> HIDE DEF u
  <2> QED BY <2>1 DEF IsRecord
<1> QED BY <1>3, <1>4, <1>5

LEMMA ScriptsAgree ==
  ASSUME NEW site, NEW k, NEW place, WellAt(site, place), site.pages[place].js
  PROVE  LET page == site.pages[place]
             s == ServedPage(site, k, place)
             found == RunAll(Runs(s, FALSE)) IN
         s.type = "javascript" /\ Len(found) = Len(Routes(page))
         /\ FoundAs(found, AllLinks(page), place[1]) /\ SentAs(found, OwnForms(page))
<1> DEFINE page == site.pages[place]
           self == place[1]
           s == ServedPage(site, k, place)
           found == RunAll(Runs(s, FALSE))
           t == AllLinks(page)
           h == Hrefs(page)
           f == page.forms
           r == Routes(page)
           A == Len(h)
           B == Len(f)
           C == Len(r)
           final == Address(Link(self, place[2], NoQuery))
           J == JSEndpointExtractor(s, final)
<1>1. IsPageSpec(page) /\ IsInjective(r) /\ h \o f = <<>> /\ ~page.bad
  BY DEF WellAt
<1>2. /\ s.type = IF page.js /\ ~page.bad THEN "javascript" ELSE "html"
      /\ s.final = final /\ s.sockets = <<>>
      /\ s.elements = IF page.js \/ page.bad THEN <<>> ELSE Body(page, self)
      /\ s.script.templates = <<>> /\ s.script.statics = page.endpoints
      /\ s.script.suffixes = <<>> /\ s.script.chunks = <<>>
  BY ServedIs
<1>3. s.type = "javascript" /\ s.elements = <<>>
  BY <1>1, <1>2, Zenon
<1>4. BaseURL(s) = final
  <2>1. \A n \in DOMAIN s.elements : FALSE
    BY <1>3
  <2> QED BY <1>2, <2>1, OwnBase
<1>5. /\ Sequence(J) /\ Sequence(r) /\ Len(J) = C
      /\ \A n \in 1..C : J[n].url = OriginRoot(final, r[n]) /\ J[n].kind = "link"
  <2> HIDE DEF s, final
  <2> QED BY <1>1, <1>2, RoutesFound
<1>6. found = J
  <2> HIDE DEF final
  <2>1. Sequence(JSEndpointExtractor(s, BaseURL(s)))
    BY <1>4, <1>5
  <2>2. found = JSEndpointExtractor(s, BaseURL(s))
    BY <1>2, <1>3, <2>1, ScriptFound
  <2> QED BY <1>4, <2>2
<1>7. /\ A \in Nat /\ B \in Nat /\ C \in Nat /\ Sequence(t) /\ Len(t) = A + B + C
      /\ \A n \in 1..C : t[A + B + n] = SelfLink(r[n])
  <2>1. /\ A \in Nat /\ B \in Nat /\ C \in Nat /\ Sequence(t) /\ Len(t) = A + B + C
        /\ \A n \in 1..A : t[n] = h[n]
        /\ \A n \in 1..B : t[A + n] = page.forms[n].action
        /\ \A n \in 1..C : t[A + B + n] = SelfLink(Routes(page)[n])
        /\ \A n \in 1..Len(t) : IsLink(t[n]) /\ Known(site, t[n])
    BY AllLinksAre
  <2> HIDE DEF A, B, C, t, h
  <2> QED BY <2>1
<1>8. A = 0 /\ B = 0
  <2>1. Sequence(h) /\ Sequence(f)
    BY <1>1, HrefsElements
  <2> QED BY <1>1, <2>1, JoinedToNothing
<1> HIDE DEF found, J, t, A, B, C, s
<1>9. Len(t) = C /\ \A n \in 1..C : t[n] = SelfLink(r[n])
  <2>1. A + B + C = C /\ \A n \in 1..C : A + B + n = n
    BY <1>7, <1>8
  <2> QED BY <1>7, <2>1
<1>10. ASSUME NEW n \in 1..C PROVE found[n].url = Target(t[n], self)
  <2>1. found[n].url = OriginRoot(final, r[n])
    BY <1>5, <1>6
  <2>2. OriginRoot(final, r[n]) = Address(Link(self, r[n], NoQuery))
    BY RootOfAddress
  <2>3. OnSelf(SelfLink(r[n]), self) = Link(self, r[n], NoQuery)
    BY SelfLinkIs
  <2>4. Target(t[n], self) = Address(Link(self, r[n], NoQuery))
    BY <1>9, <2>3 DEF Target
  <2> QED BY <2>1, <2>2, <2>4
<1>11. FoundAs(found, t, self)
  BY <1>5, <1>6, <1>9, <1>10 DEF FoundAs
<1>12. SentAs(found, OwnForms(page))
  <2>1. OwnForms(page) = <<>>
    BY Zenon DEF OwnForms
  <2>2. Len(found) = C /\ Sequence(found)
    BY <1>5, <1>6
  <2>3. FormsBehind(found, C)
    <3>1. \A n \in 1..C : found[n].kind # "form"
      <4>1. ASSUME NEW n \in 1..C PROVE found[n].kind # "form"
        <5>1. found[n].kind = "link"
          BY <1>5, <1>6
        <5> QED BY <5>1, Zenon
      <4> QED BY <4>1
    <3>2. C + 1..Len(found) = {}
      BY <1>7, <2>2
    <3> QED BY <3>1, <3>2 DEF FormsBehind
  <2>4. C <= Len(found)
    BY <1>7, <2>2
  <2>5. Submissions(found) = Shifted(found, C, Len(found) - C)
    BY <1>7, <2>2, <2>3, <2>4, SubmissionsAre
  <2>6. Submissions(found) = <<>>
    <3>1. Len(found) - C = 0
      BY <1>7, <2>2
    <3> QED BY <2>5, <3>1 DEF Shifted
  <2>7. ParamCounts(<<>>) = <<>> /\ FieldCounts(<<>>) = <<>>
    BY DEF ParamCounts, FieldCounts
  <2> QED BY <2>1, <2>6, <2>7 DEF SentAs
<1>13. Len(found) = C
  BY <1>5, <1>6
<1> QED BY <1>3, <1>11, <1>12, <1>13 DEF found, s, t, self, C

-----------------------------------------------------------------------------
(* One visit, and its share of the counts.                                 *)

Answered(r, forms, params, files, routes) ==
  [Zero EXCEPT !.requests = 1, !.ok = 1, !.redirects = r, !.forms = forms, !.params = params,
               !.jsFiles = files, !.jsRoutes = routes]

Twice(r, forms, params, files, routes) ==
  [[Zero EXCEPT !.requests = 1, !.redirects = r]
      EXCEPT !.ok = 1, !.forms = forms, !.params = params, !.jsFiles = files, !.jsRoutes = routes]

LEMMA AnsweredIs ==
  ASSUME NEW r, NEW forms, NEW params, NEW files, NEW routes
  PROVE  /\ Twice(r, forms, params, files, routes) = Answered(r, forms, params, files, routes)
         /\ [[Zero EXCEPT !.requests = 1, !.redirects = 0] EXCEPT !.failed = 1] = [Zero EXCEPT !.requests = 1, !.failed = 1]
<1>1. [[Zero EXCEPT !.requests = 1, !.redirects = r]
               EXCEPT !.ok = 1, !.forms = forms, !.params = params, !.jsFiles = files, !.jsRoutes = routes]
               = Answered(r, forms, params, files, routes)
  BY DEF Zero, Answered
<1>2. [[Zero EXCEPT !.requests = 1, !.redirects = 0] EXCEPT !.failed = 1] = [Zero EXCEPT !.requests = 1, !.failed = 1]
  <2>1. [Zero EXCEPT !.requests = 1, !.redirects = 0] = [Zero EXCEPT !.requests = 1]
    <3> DEFINE z == Zero
    <3>1. z = [x \in DOMAIN z |-> z[x]] /\ z.redirects = 0 /\ "redirects" # "requests"
      BY DEF Zero
    <3> HIDE DEF z
    <3>2. [z EXCEPT !.requests = 1, !.redirects = 0] = [z EXCEPT !.requests = 1]
      BY <3>1
    <3> QED BY <3>2 DEF z
  <2>2. [[Zero EXCEPT !.requests = 1] EXCEPT !.failed = 1] = [Zero EXCEPT !.requests = 1, !.failed = 1]
    OBVIOUS
  <2> QED BY <2>1, <2>2
<1> QED BY <1>1, <1>2 DEF Twice

FileCount(js) == IF js THEN 1 ELSE 0
KeysOf(site, links, self) == [n \in DOMAIN links |-> Normalized(site, OnSelf(links[n], self))]
FoundKeys(site, found) == [n \in DOMAIN found |-> EngineKey(site, found[n].url)]

LEMMA OracleVisitIs ==
  ASSUME NEW site, NEW item, Good(site, item.at)
  PROVE  LET end == ResolveRedirects(site, item.at)
             page == site.pages[end.place] IN
         OracleVisit(site, item) =
           [counts |-> Answered(end.hops, Len(OwnForms(page)),
                         Cardinality(QueryKeys(item.at.query)) + Total(FieldCounts(OwnForms(page))),
                         FileCount(page.js), Len(Routes(page))),
            keys |-> KeysOf(site, AllLinks(page), item.at.host)]
BY Zenon DEF OracleVisit, Answered, OwnForms, FieldCounts, FileCount, KeysOf, AllLinks, RouteLinks, SelfLink

LEMMA CrawledIs ==
  ASSUME NEW site, NEW item, Ends(site, FollowRedirects(site, item.at)), ~Broken(site, FollowRedirects(site, item.at).place)
  PROVE  LET end == FollowRedirects(site, item.at)
             page == ServedPage(site, item.at, end.place)
             found == RunAll(Runs(page, FALSE))
             js == page.type = "javascript" IN
         Crawled(site, item) =
           [counts |-> Twice(end.hops, Len(Submissions(found)),
                         Cardinality(QueryKeys(item.at.query)) + Total(ParamCounts(Submissions(found))),
                         FileCount(js), IF js THEN Len(found) ELSE 0),
            keys |-> FoundKeys(site, found)]
BY Zenon DEF Crawled, Twice, Submissions, FormIn, FlatMap, ParamCounts, FileCount, FoundKeys

LEMMA CrawledFails ==
  ASSUME NEW site, NEW item,
         ~Ends(site, FollowRedirects(site, item.at)) \/ Broken(site, FollowRedirects(site, item.at).place)
  PROVE  LET end == FollowRedirects(site, item.at)
             hops == [Zero EXCEPT !.requests = 1, !.redirects = IF Ends(site, end) THEN end.hops ELSE 0] IN
         Crawled(site, item) = [Failure EXCEPT !.counts = [hops EXCEPT !.failed = 1]]
BY Zenon DEF Crawled

\* What is found on a page has the keys of its links.
LEMMA FoundKeysAre ==
  ASSUME NEW site, IsSite(site), NEW place, WellAt(site, place), NEW found,
         FoundAs(found, AllLinks(site.pages[place]), place[1])
  PROVE  LET keys == KeysOf(site, AllLinks(site.pages[place]), place[1]) IN
         /\ FoundKeys(site, found) = keys
         /\ Sequence(keys) /\ \A n \in 1..Len(keys) : IsLink(keys[n]) /\ OnSite(site, keys[n].host)
<1> DEFINE page == site.pages[place]
           t == AllLinks(page)
           N == Len(t)
           self == place[1]
           keys == KeysOf(site, t, self)
<1>1. OnSite(site, self)
  BY DEF WellAt
<1>2. Sequence(t) /\ \A k \in 1..Len(t) : IsLink(t[k]) /\ Known(site, t[k])
  BY AllLinksAre
<1>3. Sequence(found) /\ Len(found) = N /\ \A n \in 1..N : found[n].url = Target(t[n], self)
  BY DEF FoundAs
<1> HIDE DEF t, self
<1>4. N \in Nat /\ DOMAIN t = 1..N /\ DOMAIN found = 1..N
  BY <1>2, <1>3, SequenceFacts
<1>5. ASSUME NEW n \in 1..N
      PROVE  /\ EngineKey(site, found[n].url) = Normalized(site, OnSelf(t[n], self))
             /\ IsLink(Normalized(site, OnSelf(t[n], self))) /\ OnSite(site, Normalized(site, OnSelf(t[n], self)).host)
  <2> DEFINE k == OnSelf(t[n], self)
  <2>1. OnSite(site, k.host)
    BY <1>1, <1>2, KnownOnSelf
  <2>2. found[n].url = Address(k)
    BY <1>3 DEF Target
  <2> HIDE DEF k
  <2>3. EngineKey(site, Address(k)) = Normalized(site, k)
    BY <2>1, KeysAgree
  <2>4. Normalized(site, k).host = k.host /\ IsLink(Normalized(site, k))
    BY NormalizedIs
  <2> QED BY <2>1, <2>2, <2>3, <2>4 DEF k
<1>6. FoundKeys(site, found) = [n \in 1..N |-> EngineKey(site, found[n].url)]
  BY <1>4 DEF FoundKeys
<1>7. keys = [n \in 1..N |-> Normalized(site, OnSelf(t[n], self))]
  BY <1>4 DEF KeysOf
<1>8. FoundKeys(site, found) = keys
  BY <1>5, <1>6, <1>7
<1>9. keys = [n \in 1..N |-> keys[n]] /\ \A n \in 1..N : keys[n] = Normalized(site, OnSelf(t[n], self))
  BY <1>7
<1> HIDE DEF keys, N
<1>10. Sequence(keys) /\ Len(keys) = N
  BY <1>4, <1>9, SequenceByIndex
<1> QED BY <1>5, <1>8, <1>9, <1>10 DEF keys, t, self

KeysOnSite(site, keys) == Sequence(keys) /\ \A n \in 1..Len(keys) : IsLink(keys[n]) /\ OnSite(site, keys[n].host)

LEMMA NoKeys == ASSUME NEW site PROVE KeysOnSite(site, <<>>)
<1>1. Len(<<>>) = 0 /\ \A n \in 1..0 : FALSE
  OBVIOUS
<1>2. Sequence(<<>>)
  BY ShortSequences
<1> QED BY <1>1, <1>2 DEF KeysOnSite

\* The crawl's visit of a place is the oracle's.
LEMMA VisitsAgree ==
  ASSUME NEW site, IsSite(site), WellFormed(site), NEW item, OnSite(site, item.at.host)
  PROVE  Crawled(site, item) = OracleVisit(site, item) /\ KeysOnSite(site, OracleVisit(site, item).keys)
<1> DEFINE k == item.at
           o == ResolveRedirects(site, k)
           e == FollowRedirects(site, k)
<1>1. /\ Ends(site, e) <=> Ends(site, o)
      /\ Ends(site, o) => e = o
      /\ Ends(site, o) /\ Broken(site, o.place) => o.hops = 0
      /\ o.place = <<k.host, o.place[2]>>
  BY EndsAgree
<1>2. Good(site, k) <=> Ends(site, o) /\ ~Broken(site, o.place)
  BY DEF Good
<1>3. CASE ~Good(site, k)
  <2> DEFINE r == IF Ends(site, e) THEN e.hops ELSE 0
             hops == [Zero EXCEPT !.requests = 1, !.redirects = r]
  <2>1. OracleVisit(site, item) = Failure
    BY <1>3, Zenon DEF OracleVisit
  <2>2. Crawled(site, item) = [Failure EXCEPT !.counts = [hops EXCEPT !.failed = 1]]
    <3>1. ~Ends(site, e) \/ Broken(site, e.place)
      <4> HIDE DEF e, o
      <4> QED BY <1>1, <1>2, <1>3
    <3> QED BY <3>1, CrawledFails
  <2>3. r = 0
    <3> HIDE DEF e, o
    <3> QED BY <1>1, <1>2, <1>3
  <2> DEFINE c == [Zero EXCEPT !.requests = 1, !.failed = 1]
  <2>4. [hops EXCEPT !.failed = 1] = c
    <3> HIDE DEF r
    <3>1. hops = [Zero EXCEPT !.requests = 1, !.redirects = 0]
      BY <2>3
    <3> HIDE DEF hops
    <3> QED BY <3>1, AnsweredIs
  <2>5. Failure = [counts |-> c, keys |-> <<>>]
    BY DEF Failure
  <2> HIDE DEF c, hops
  <2>6. [Failure EXCEPT !.counts = c] = Failure /\ Failure.keys = <<>>
    BY <2>5
  <2>7. KeysOnSite(site, <<>>)
    BY NoKeys
  <2> QED BY <2>1, <2>2, <2>4, <2>6, <2>7
<1>4. CASE Good(site, k)
  <2> DEFINE place == o.place
             page == site.pages[place]
             s == ServedPage(site, k, place)
             found == RunAll(Runs(s, FALSE))
             js == s.type = "javascript"
             t == AllLinks(page)
             own == OwnForms(page)
             sub == Submissions(found)
             q == Cardinality(QueryKeys(k.query))
             keys == KeysOf(site, t, k.host)
  <2>1. e = o /\ Ends(site, e) /\ ~Broken(site, e.place)
    <3> HIDE DEF e, o
    <3> QED BY <1>1, <1>2, <1>4
  <2>2. place \in DOMAIN site.pages /\ place[1] = k.host
    <3>1. Has(site, place)
      BY <1>2, <1>4, Zenon DEF Broken
    <3> HIDE DEF o
    <3>2. place[1] = k.host
      BY <1>1
    <3> QED BY <3>1, <3>2 DEF Has
  <2>3. WellAt(site, place)
    BY <2>2, PagesWell
  <2>4. OracleVisit(site, item) =
          [counts |-> Answered(o.hops, Len(own), q + Total(FieldCounts(own)), FileCount(page.js), Len(Routes(page))),
           keys |-> keys]
    BY <1>4, OracleVisitIs
  <2>5. Crawled(site, item) =
           [counts |-> Twice(o.hops, Len(sub), q + Total(ParamCounts(sub)), FileCount(js), IF js THEN Len(found) ELSE 0),
            keys |-> FoundKeys(site, found)]
    <3> DEFINE E(end) ==
                 LET ep == ServedPage(site, item.at, end.place)
                     ef == RunAll(Runs(ep, FALSE))
                     ejs == ep.type = "javascript" IN
                 [counts |-> Twice(end.hops, Len(Submissions(ef)),
                               Cardinality(QueryKeys(item.at.query)) + Total(ParamCounts(Submissions(ef))),
                               FileCount(ejs), IF ejs THEN Len(ef) ELSE 0),
                  keys |-> FoundKeys(site, ef)]
    <3>1. Crawled(site, item) = E(e)
      BY <2>1, CrawledIs
    <3>2. E(e) = E(o)
      <4> HIDE DEF E, e, o
      <4> QED BY <2>1
    <3> HIDE DEF e
    <3> QED BY <3>1, <3>2
  <2>6. /\ FoundAs(found, t, place[1]) /\ SentAs(found, own)
        /\ page.js => s.type = "javascript" /\ Len(found) = Len(Routes(page))
        /\ ~page.js => s.type = "html" /\ Routes(page) = <<>>
    <3>1. CASE page.js
      <4>1. /\ s.type = "javascript" /\ Len(found) = Len(Routes(page))
            /\ FoundAs(found, t, place[1]) /\ SentAs(found, own)
        BY <2>3, <3>1, ScriptsAgree
      <4> QED BY <3>1, <4>1
    <3>2. CASE ~page.js
      <4>1. /\ s.type = "html" /\ Routes(page) = <<>>
            /\ FoundAs(found, t, place[1]) /\ SentAs(found, own)
        BY <2>3, <3>2, DocumentsAgree
      <4> QED BY <3>2, <4>1
    <3> QED BY <3>1, <3>2
  <2>7. /\ FoundKeys(site, found) = keys
        /\ Sequence(keys) /\ \A n \in 1..Len(keys) : IsLink(keys[n]) /\ OnSite(site, keys[n].host)
    <3>1. FoundAs(found, AllLinks(site.pages[place]), place[1])
      BY <2>6
    <3> HIDE DEF place
    <3>2. /\ FoundKeys(site, found) = KeysOf(site, AllLinks(site.pages[place]), place[1])
          /\ KeysOnSite(site, KeysOf(site, AllLinks(site.pages[place]), place[1]))
      BY <2>3, <3>1, FoundKeysAre DEF KeysOnSite
    <3>3. KeysOf(site, AllLinks(site.pages[place]), place[1]) = keys
      BY <2>2
    <3> QED BY <3>2, <3>3 DEF KeysOnSite
  <2>8. Len(sub) = Len(own) /\ ParamCounts(sub) = FieldCounts(own)
    BY <2>6 DEF SentAs
  <2>9. FileCount(js) = FileCount(page.js) /\ (IF js THEN Len(found) ELSE 0) = Len(Routes(page))
    <3>1. CASE page.js
      <4>1. js /\ Len(found) = Len(Routes(page))
        BY <2>6, <3>1
      <4> HIDE DEF js, found
      <4>2. FileCount(js) = 1 /\ FileCount(page.js) = 1
        BY <3>1, <4>1, Zenon DEF FileCount
      <4> QED BY <4>1, <4>2
    <3>2. CASE ~page.js
      <4>1. s.type = "html" /\ Routes(page) = <<>>
        BY <2>6, <3>2
      <4>2. ~js
        <5> HIDE DEF s
        <5> QED BY <4>1, Zenon
      <4> HIDE DEF js, found
      <4>3. FileCount(js) = 0 /\ FileCount(page.js) = 0
        BY <3>2, <4>2, Zenon DEF FileCount
      <4>4. Len(Routes(page)) = 0
        BY <4>1
      <4> QED BY <4>2, <4>3, <4>4
    <3> QED BY <3>1, <3>2
  <2>10. Twice(o.hops, Len(sub), q + Total(ParamCounts(sub)), FileCount(js), IF js THEN Len(found) ELSE 0)
         = Answered(o.hops, Len(own), q + Total(FieldCounts(own)), FileCount(page.js), Len(Routes(page)))
    <3> DEFINE f1 == FileCount(js)
               f2 == IF js THEN Len(found) ELSE 0
               r1 == o.hops
               n1 == Len(sub)
               p1 == q + Total(ParamCounts(sub))
    <3>1. Twice(r1, n1, p1, f1, f2) = Answered(r1, n1, p1, f1, f2)
      <4> HIDE DEF f1, f2, r1, n1, p1
      <4> QED BY AnsweredIs, Zenon
    <3>2. n1 = Len(own) /\ p1 = q + Total(FieldCounts(own)) /\ f1 = FileCount(page.js) /\ f2 = Len(Routes(page))
      BY <2>8, <2>9, Zenon
    <3> HIDE DEF n1, p1, f1, f2, r1
    <3> QED BY <3>1, <3>2 DEF n1, p1, f1, f2, r1
  <2>11. OracleVisit(site, item).keys = keys
    <3> HIDE DEF keys
    <3> QED BY <2>4
  <2>12. Crawled(site, item) = OracleVisit(site, item)
    BY <2>4, <2>5, <2>7, <2>10, Zenon
  <2> HIDE DEF keys
  <2> QED BY <2>7, <2>11, <2>12 DEF KeysOnSite
<1> QED BY <1>3, <1>4

-----------------------------------------------------------------------------
(* The walks.                                                              *)

\* A walk's queue is on the site.
Healthy(site, acc) ==
  Sequence(acc.queue) /\ \A n \in 1..Len(acc.queue) : OnSite(site, acc.queue[n].at.host)

LEMMA TailIs ==
  ASSUME NEW s, Sequence(s), s # <<>>
  PROVE  /\ Head(s) = s[1] /\ 1 \in 1..Len(s) /\ Sequence(Tail(s))
         /\ \A n \in 1..Len(Tail(s)) : n + 1 \in 1..Len(s) /\ Tail(s)[n] = s[n + 1]
<1> DEFINE S == ToSet(s)
           t == Tail(s)
           N == Len(s)
<1>1. s \in Seq(S) /\ N \in Nat
  BY SequenceFacts DEF Sequence
<1>2. N # 0
  BY <1>1, NoElements
<1> HIDE DEF S
<1>3. Head(s) = s[1] /\ t \in Seq(S) /\ Len(t) = N - 1 /\ \A n \in 1..N - 1 : t[n] = s[n + 1]
  BY <1>1, <1>2, HeadTailProperties
<1> HIDE DEF t, N
<1>4. Sequence(t)
  <2>1. DOMAIN t = 1..N - 1 /\ t = [n \in 1..N - 1 |-> t[n]] /\ N - 1 \in Nat
    BY <1>1, <1>2, <1>3
  <2> QED BY <2>1, SequenceByIndex
<1>5. 1 \in 1..N /\ \A n \in 1..N - 1 : n + 1 \in 1..N
  BY <1>1, <1>2
<1> QED BY <1>3, <1>4, <1>5 DEF t, N

\* What a visit queues, and where.
NewKey(acc, keys, wanted, n) == keys[n] \notin acc.seen /\ \A j \in wanted : j < n => keys[j] # keys[n]
Entered(acc, item, keys, wanted, n) ==
  IF n \in wanted /\ NewKey(acc, keys, wanted, n) THEN <<[at |-> keys[n], depth |-> item.depth + 1]>> ELSE <<>>
Entries(acc, item, keys, wanted) == FlattenSeq([n \in DOMAIN keys |-> Entered(acc, item, keys, wanted, n)])

Met(keys, wanted) == {keys[n] : n \in wanted}

Becomes(acc, item, keys, wanted, next) ==
  /\ next.queue = Tail(acc.queue) \o Entries(acc, item, keys, wanted)
  /\ next.seen = acc.seen \cup Met(keys, wanted)
  /\ next.visited = Append(acc.visited, item.at)

LEMMA QueuedIs ==
  ASSUME NEW acc, NEW item, NEW v, NEW wanted
  PROVE  Becomes(acc, item, v.keys, wanted, Queued(acc, item, v, wanted))
<1> DEFINE keys == v.keys
           New(n) == keys[n] \notin acc.seen /\ \A j \in wanted : j < n => keys[j] # keys[n]
           Item(n) == IF n \in wanted /\ New(n) THEN <<[at |-> keys[n], depth |-> item.depth + 1]>> ELSE <<>>
           duplicates == Cardinality({n \in wanted : ~New(n)})
           indices == [n \in DOMAIN keys |-> n]
           ss == [n \in DOMAIN indices |-> Item(indices[n])]
           tt == [n \in DOMAIN keys |-> Entered(acc, item, keys, wanted, n)]
           queue == Tail(acc.queue) \o FlattenSeq(ss)
           seen == acc.seen \cup {keys[n] : n \in wanted}
           counts == Added(Added(acc.counts, v.counts), [Zero EXCEPT !.duplicates = duplicates])
           visited == Append(acc.visited, item.at)
           next == Queued(acc, item, v, wanted)
<1>1. next = [queue |-> queue, seen |-> seen, counts |-> counts, visited |-> visited]
  BY Zenon DEF Queued, FlatMap
<1>2. ss = tt
  <2>1. \A n : Item(n) = Entered(acc, item, keys, wanted, n)
    BY DEF Entered, NewKey
  <2> HIDE DEF Item
  <2> QED BY <2>1
<1>3. queue = Tail(acc.queue) \o Entries(acc, item, keys, wanted)
  BY <1>2 DEF Entries
<1> HIDE DEF queue, seen, counts, visited, next
<1>4. next.queue = queue /\ next.seen = seen /\ next.visited = visited
  BY <1>1
<1>5. seen = acc.seen \cup Met(keys, wanted)
  BY DEF seen, Met
<1> QED BY <1>3, <1>4, <1>5 DEF visited, next, Becomes

LEMMA EntriesOnSite ==
  ASSUME NEW site, NEW acc, NEW item, NEW keys, KeysOnSite(site, keys), NEW wanted
  PROVE  LET e == Entries(acc, item, keys, wanted) IN
         Sequence(e) /\ \A n \in 1..Len(e) : OnSite(site, e[n].at.host)
<1> DEFINE N == Len(keys)
           Entry1(n) == [at |-> keys[n], depth |-> item.depth + 1]
           X == {Entry1(n) : n \in 1..N}
           R == {x \in X \X X : OnSite(site, x[1].at.host)}
           tt == [n \in DOMAIN keys |-> Entered(acc, item, keys, wanted, n)]
           e == Entries(acc, item, keys, wanted)
<1>1. N \in Nat /\ DOMAIN keys = 1..N /\ \A n \in 1..N : OnSite(site, keys[n].host)
  BY SequenceFacts DEF KeysOnSite
<1>2. ASSUME NEW n \in 1..N PROVE <<Entry1(n), Entry1(n)>> \in R
  <2>1. Entry1(n).at = keys[n]
    OBVIOUS
  <2>2. Entry1(n) \in X
    OBVIOUS
  <2> HIDE DEF Entry1, X
  <2> QED BY <1>1, <2>1, <2>2
<1> HIDE DEF X
<1>3. ASSUME NEW n \in 1..N PROVE Related(R, Entered(acc, item, keys, wanted, n), Entered(acc, item, keys, wanted, n))
  <2>1. Entered(acc, item, keys, wanted, n) = <<Entry1(n)>> \/ Entered(acc, item, keys, wanted, n) = <<>>
    BY Zenon DEF Entered
  <2> HIDE DEF R, Entry1
  <2>2. Related(R, <<Entry1(n)>>, <<Entry1(n)>>) /\ Related(R, <<>>, <<>>)
    BY <1>2, OneRelated
  <2> QED BY <2>1, <2>2
<1>4. tt = [n \in 1..N |-> tt[n]] /\ \A n \in 1..N : tt[n] = Entered(acc, item, keys, wanted, n)
  BY <1>1
<1>5. e = FlattenSeq(tt)
  BY DEF Entries
<1> HIDE DEF tt, N, e
<1>6. Sequence(tt) /\ Len(tt) = N
  BY <1>1, <1>4, SequenceByIndex
<1>7. Related(R, e, e)
  <2>1. \A n \in 1..Len(tt) : Related(R, tt[n], tt[n])
    BY <1>3, <1>4, <1>6
  <2> HIDE DEF R
  <2>2. Related(R, FlattenSeq(tt), FlattenSeq(tt))
    BY <1>6, <2>1, FlattenTogether
  <2> QED BY <1>5, <2>2
<1>8. \A x : <<x, x>> \in R => OnSite(site, x.at.host)
  OBVIOUS
<1> HIDE DEF R
<1> QED BY <1>7, <1>8 DEF Related, e

LEMMA QueuedHealthy ==
  ASSUME NEW site, NEW acc, Healthy(site, acc), acc.queue # <<>>, NEW item, NEW v, KeysOnSite(site, v.keys), NEW wanted
  PROVE  Healthy(site, Queued(acc, item, v, wanted))
<1> DEFINE q == acc.queue
           t == Tail(q)
           e == Entries(acc, item, v.keys, wanted)
           next == Queued(acc, item, v, wanted)
<1>1. Sequence(q) /\ \A n \in 1..Len(q) : OnSite(site, q[n].at.host)
  BY DEF Healthy
<1>2. Sequence(t) /\ \A n \in 1..Len(t) : n + 1 \in 1..Len(q) /\ t[n] = q[n + 1]
  BY <1>1, TailIs
<1>3. Sequence(e) /\ \A n \in 1..Len(e) : OnSite(site, e[n].at.host)
  BY EntriesOnSite
<1>4. next.queue = t \o e
  <2>1. Becomes(acc, item, v.keys, wanted, Queued(acc, item, v, wanted))
    BY QueuedIs
  <2> QED BY <2>1 DEF Becomes
<1> HIDE DEF q, t, e, next
<1>5. \A n \in 1..Len(t) : OnSite(site, t[n].at.host)
  BY <1>1, <1>2
<1>6. /\ Sequence(t \o e) /\ Len(t \o e) = Len(t) + Len(e) /\ \A k \in 1..Len(t) : (t \o e)[k] = t[k]
      /\ \A k \in 1..Len(e) : (t \o e)[Len(t) + k] = e[k]
  <2>1. Sequence(t) /\ Sequence(e)
    BY <1>2, <1>3
  <2> QED BY <2>1, JoinIndexes
<1>7. Len(t) \in Nat /\ Len(e) \in Nat
  BY <1>2, <1>3, SequenceFacts
<1>8. \A n \in 1..Len(t) + Len(e) : n \in 1..Len(t) \/ (n - Len(t) \in 1..Len(e) /\ Len(t) + (n - Len(t)) = n)
  BY <1>7
<1>9. \A n \in 1..Len(t) + Len(e) : OnSite(site, (t \o e)[n].at.host)
  BY <1>3, <1>5, <1>6, <1>8
<1> QED BY <1>4, <1>6, <1>9 DEF Healthy, next

LEMMA VisitIs ==
  ASSUME NEW site, NEW item
  PROVE  /\ Visit(site, "oracle", item) = OracleVisit(site, item)
         /\ Visit(site, "ground", item) = GroundVisit(site, item)
         /\ Visit(site, "engine", item) = Crawled(site, item)
<1>1. Visit(site, "oracle", item) = OracleVisit(site, item)
  BY Zenon DEF Visit
<1>2. Visit(site, "ground", item) = GroundVisit(site, item)
  BY Zenon DEF Visit
<1>3. Visit(site, "engine", item) = Crawled(site, item)
  BY Zenon DEF Visit
<1> QED BY <1>1, <1>2, <1>3

WantedOf(site, who, item, keys) ==
  IF item.depth >= site.maxDepth THEN {} ELSE {n \in DOMAIN keys : Wanted(site, who, keys[n])}

LEMMA AdvanceIs ==
  ASSUME NEW site, NEW who, NEW acc
  PROVE  LET item == Head(acc.queue)
             v == Visit(site, who, item) IN
         /\ acc.queue = <<>> => Advance(site, who, acc) = acc
         /\ acc.queue # <<>> => Advance(site, who, acc) = Queued(acc, item, v, WantedOf(site, who, item, v.keys))
<1>1. CASE acc.queue = <<>>
  BY <1>1, Zenon DEF Advance
<1>2. CASE acc.queue # <<>>
  BY <1>2, Zenon DEF Advance, Follow, WantedOf
<1> QED BY <1>1, <1>2

\* All three ask the same of a key.
LEMMA WantedAlike ==
  ASSUME NEW site, NEW item, NEW keys
  PROVE  /\ WantedOf(site, "engine", item, keys) = WantedOf(site, "oracle", item, keys)
         /\ WantedOf(site, "ground", item, keys) = WantedOf(site, "oracle", item, keys)
<1>1. \A k : Wanted(site, "engine", k) <=> EngineScope(site, k)
  BY Zenon DEF Wanted
<1>2. \A k : Wanted(site, "oracle", k) <=> InSiteScope(site, k)
  BY Zenon DEF Wanted
<1>3. \A k : Wanted(site, "ground", k) <=> InSiteScope(site, k)
  BY Zenon DEF Wanted
<1>4. \A k : EngineScope(site, k) <=> InSiteScope(site, k)
  BY ScopesAgree
<1>5. \A k : /\ Wanted(site, "engine", k) <=> Wanted(site, "oracle", k)
             /\ Wanted(site, "ground", k) <=> Wanted(site, "oracle", k)
  BY <1>1, <1>2, <1>3, <1>4
<1>6. {n \in DOMAIN keys : Wanted(site, "engine", keys[n])} = {n \in DOMAIN keys : Wanted(site, "oracle", keys[n])}
  BY <1>5
<1>7. {n \in DOMAIN keys : Wanted(site, "ground", keys[n])} = {n \in DOMAIN keys : Wanted(site, "oracle", keys[n])}
  BY <1>5
<1> QED BY <1>6, <1>7 DEF WantedOf

LEMMA AdvancesAgree ==
  ASSUME NEW site, IsSite(site), WellFormed(site), NEW acc, Healthy(site, acc)
  PROVE  Advance(site, "engine", acc) = Advance(site, "oracle", acc) /\ Healthy(site, Advance(site, "oracle", acc))
<1> DEFINE item == Head(acc.queue)
           v == OracleVisit(site, item)
           w == Crawled(site, item)
<1>1. CASE acc.queue = <<>>
  <2>1. Advance(site, "engine", acc) = acc /\ Advance(site, "oracle", acc) = acc
    BY <1>1, AdvanceIs
  <2> QED BY <2>1
<1>2. CASE acc.queue # <<>>
  <2>1. OnSite(site, item.at.host)
    <3>1. Sequence(acc.queue)
      BY DEF Healthy
    <3>2. item = acc.queue[1] /\ 1 \in 1..Len(acc.queue)
      BY <1>2, <3>1, TailIs
    <3> HIDE DEF item
    <3> QED BY <3>2 DEF Healthy
  <2>2. w = v /\ KeysOnSite(site, v.keys)
    BY <2>1, VisitsAgree
  <2>3. Advance(site, "engine", acc) = Queued(acc, item, w, WantedOf(site, "engine", item, w.keys))
    <3>1. Advance(site, "engine", acc) =
            Queued(acc, item, Visit(site, "engine", item), WantedOf(site, "engine", item, Visit(site, "engine", item).keys))
      BY <1>2, AdvanceIs
    <3>2. Visit(site, "engine", item) = w
      BY VisitIs
    <3> HIDE DEF w
    <3> QED BY <3>1, <3>2
  <2>4. Advance(site, "oracle", acc) = Queued(acc, item, v, WantedOf(site, "oracle", item, v.keys))
    <3>1. Advance(site, "oracle", acc) =
            Queued(acc, item, Visit(site, "oracle", item), WantedOf(site, "oracle", item, Visit(site, "oracle", item).keys))
      BY <1>2, AdvanceIs
    <3>2. Visit(site, "oracle", item) = v
      BY VisitIs
    <3> HIDE DEF v
    <3> QED BY <3>1, <3>2
  <2> HIDE DEF item, v, w
  <2>5. WantedOf(site, "engine", item, v.keys) = WantedOf(site, "oracle", item, v.keys)
    BY WantedAlike
  <2>6. Healthy(site, Queued(acc, item, v, WantedOf(site, "oracle", item, v.keys)))
    BY <1>2, <2>2, QueuedHealthy
  <2> QED BY <2>2, <2>3, <2>4, <2>5, <2>6
<1> QED BY <1>1, <1>2

LEMMA SeedHealthy ==
  ASSUME NEW site, IsSite(site)
  PROVE  AtSeed(site, "engine") = AtSeed(site, "oracle") /\ Healthy(site, AtSeed(site, "oracle"))
<1> DEFINE k == FirstKey(site, "oracle")
           first == [at |-> k, depth |-> 0]
           a == AtSeed(site, "oracle")
<1>1. AtSeed(site, "engine") = a
  BY SeedsAgree DEF AtSeed
<1>2. OnSite(site, k.host)
  BY SeedsAgree, NormalizedIs
<1>3. a.queue = <<first>>
  BY DEF AtSeed
<1> HIDE DEF k, a
<1>4. first.at = k
  OBVIOUS
<1> HIDE DEF first
<1>5. Sequence(<<first>>) /\ \A n \in 1..Len(<<first>>) : <<first>>[n] = first
  <2>1. Len(<<first>>) = 1 /\ <<first>>[1] = first /\ \A n \in 1..1 : n = 1
    OBVIOUS
  <2> QED BY <2>1, ShortSequences
<1>6. Healthy(site, a)
  BY <1>2, <1>3, <1>4, <1>5 DEF Healthy
<1> QED BY <1>1, <1>6 DEF a

\* The oracle's walk of a well-formed site is the crawl of it.
LEMMA WalksAgree ==
  ASSUME NEW site, IsSite(site), WellFormed(site)
  PROVE  Walk(site, "engine") = Walk(site, "oracle")
<1> DEFINE N == Enough(site)
<1>1. N \in Nat
  BY EnoughIs
<1>2. PICK e : /\ Walk(site, "engine") = e[N] /\ e[0] = AtSeed(site, "engine")
               /\ \A n \in 1..N : e[n] = Advance(site, "engine", e[n - 1])
  BY WalkRuns
<1>3. PICK o : /\ Walk(site, "oracle") = o[N] /\ o[0] = AtSeed(site, "oracle")
               /\ \A n \in 1..N : o[n] = Advance(site, "oracle", o[n - 1])
  BY WalkRuns
<1> HIDE DEF N
<1> DEFINE T == {n \in 0..N : e[n] = o[n] /\ Healthy(site, o[n])}
<1>4. 0 \in T
  BY <1>1, <1>2, <1>3, SeedHealthy
<1>5. ASSUME NEW n \in 0..N - 1, n \in T PROVE n + 1 \in T
  <2>1. n + 1 \in 1..N /\ n + 1 \in 0..N /\ n + 1 - 1 = n
    BY <1>1
  <2>2. e[n + 1] = Advance(site, "engine", o[n]) /\ o[n + 1] = Advance(site, "oracle", o[n]) /\ Healthy(site, o[n])
    BY <1>2, <1>3, <1>5, <2>1
  <2>3. Advance(site, "engine", o[n]) = Advance(site, "oracle", o[n]) /\ Healthy(site, Advance(site, "oracle", o[n]))
    BY <2>2, AdvancesAgree
  <2> QED BY <2>1, <2>2, <2>3
<1>6. N \in 0..N
  BY <1>1
<1> HIDE DEF T
<1>7. N \in T
  BY <1>1, <1>4, <1>5, <1>6, PrefixInd
<1> QED BY <1>2, <1>3, <1>7 DEF T

-----------------------------------------------------------------------------
(* The ground truth.                                                       *)

\* Keys that are in normal form already.
LEMMA NormalOnSelf ==
  ASSUME NEW site, NEW link, IsLink(link), Normalized(site, link) = link, NEW self
  PROVE  Normalized(site, OnSelf(link, self)) = OnSelf(link, self)
<1> DEFINE k == OnSelf(link, self)
           U(path, query) == FromParsed([Url("", <<>>, "", path) EXCEPT !.query = query], site.strict, site.sortQuery)
           u == U(link.path, link.query)
<1>1. IsLink(k) /\ k.path = link.path /\ k.query = link.query
  BY OnSelfIs
<1>2. Normalized(site, link) = Link(link.host, u.path, u.query)
  BY DEF Normalized
<1>3. Normalized(site, k) = Link(k.host, U(k.path, k.query).path, U(k.path, k.query).query)
  BY DEF Normalized
<1> HIDE DEF k, U
<1>4. Normalized(site, k) = Link(k.host, u.path, u.query)
  BY <1>1, <1>3
<1> HIDE DEF u
<1>5. u.path = link.path /\ u.query = link.query
  BY <1>2 DEF Link
<1> QED BY <1>1, <1>4, <1>5 DEF IsLink, k

\* The links the ground truth follows, and what it may be asked about.
GroundLinks(page) == page.links \o page.scripts \o Actions(page)
AsWrittenAt(site, page) ==
  /\ page.data = <<>> /\ ~page.js
  /\ \A link \in ToSet(Hrefs(page)) \cup ToSet(Actions(page)) : Normalized(site, link) = link

LEMMA JoinNothing ==
  ASSUME NEW s, Sequence(s)
  PROVE  s \o <<>> = s
BY DEF Sequence

LEMMA GroundLinksAre ==
  ASSUME NEW site, NEW place, WellAt(site, place), AsWrittenAt(site, site.pages[place])
  PROVE  AllLinks(site.pages[place]) = GroundLinks(site.pages[place])
<1> DEFINE page == site.pages[place]
           a == page.links
           b == page.scripts
           c == Actions(page)
           ab == a \o b
<1>1. IsPageSpec(page) /\ page.data = <<>> /\ ~page.js
  BY DEF WellAt, AsWrittenAt
<1>2. Sequence(a) /\ Sequence(b) /\ Sequence(page.forms)
  BY <1>1, HrefsElements
<1>3. Sequence(ab)
  BY <1>2, JoinIndexes
<1>4. Hrefs(page) = ab
  <2>1. Hrefs(page) = ab \o page.data
    BY DEF Hrefs
  <2> HIDE DEF ab, page
  <2>2. ab \o <<>> = ab
    BY <1>3, JoinNothing
  <2> QED BY <1>1, <2>1, <2>2
<1>5. Sequence(c)
  <2>1. DOMAIN page.forms = 1..Len(page.forms) /\ Len(page.forms) \in Nat
    BY <1>2, SequenceFacts
  <2>2. c = [k \in 1..Len(page.forms) |-> page.forms[k].action]
    BY <2>1 DEF Actions
  <2>3. c = [k \in 1..Len(page.forms) |-> c[k]]
    BY <2>2
  <2> HIDE DEF c, page
  <2> QED BY <2>1, <2>3, SequenceByIndex
<1>6. RouteLinks(page) = <<>>
  <2>1. Routes(page) = <<>>
    BY <1>1, Zenon DEF Routes
  <2> HIDE DEF page
  <2> QED BY <2>1 DEF RouteLinks
<1>7. AllLinks(page) = (ab \o c) \o <<>>
  <2>1. AllLinks(page) = (Hrefs(page) \o c) \o RouteLinks(page)
    BY DEF AllLinks
  <2> HIDE DEF ab, c, page
  <2> QED BY <1>4, <1>6, <2>1
<1>8. GroundLinks(page) = ab \o c
  BY DEF GroundLinks
<1> HIDE DEF ab, c, page
<1>9. Sequence(ab \o c)
  BY <1>3, <1>5, JoinIndexes
<1>10. (ab \o c) \o <<>> = ab \o c
  BY <1>9, JoinNothing
<1> QED BY <1>7, <1>8, <1>10 DEF page

\* The keys of a visit are those the oracle queues.
LEMMA GroundKeysAre ==
  ASSUME NEW site, NEW place, WellAt(site, place), AsWrittenAt(site, site.pages[place]), NEW self
  PROVE  LET links == GroundLinks(site.pages[place]) IN
         [n \in DOMAIN links |-> OnSelf(links[n], self)] = KeysOf(site, AllLinks(site.pages[place]), self)
<1> DEFINE page == site.pages[place]
           links == GroundLinks(page)
           t == AllLinks(page)
           A == Len(Hrefs(page))
           B == Len(page.forms)
           N == Len(t)
<1>1. t = links
  BY GroundLinksAre
<1>2. /\ A \in Nat /\ B \in Nat /\ Len(Routes(page)) \in Nat /\ Sequence(t) /\ N = A + B + Len(Routes(page))
      /\ \A k \in 1..A : t[k] = Hrefs(page)[k]
      /\ \A k \in 1..B : t[A + k] = page.forms[k].action
      /\ \A k \in 1..Len(Routes(page)) : t[A + B + k] = SelfLink(Routes(page)[k])
      /\ \A k \in 1..N : IsLink(t[k]) /\ Known(site, t[k])
  BY AllLinksAre
<1>3. Routes(page) = <<>>
  BY Zenon DEF Routes, AsWrittenAt
<1>4. N = A + B /\ DOMAIN t = 1..N
  <2> HIDE DEF A, B, t, page
  <2>1. Len(Routes(page)) = 0
    BY <1>3
  <2>2. DOMAIN t = 1..N
    BY <1>2, SequenceFacts
  <2> QED BY <1>2, <2>1, <2>2
<1>5. /\ Sequence(Hrefs(page)) /\ Sequence(page.forms)
      /\ \A n \in DOMAIN page.forms : page.forms[n].action \in ToSet(Actions(page))
  BY HrefsElements DEF WellAt
<1>6. /\ \A k \in 1..A : Hrefs(page)[k] \in ToSet(Hrefs(page))
      /\ \A k \in 1..B : page.forms[k].action \in ToSet(Actions(page))
  BY <1>5, SequenceFacts
<1>7. \A link \in ToSet(Hrefs(page)) \cup ToSet(Actions(page)) : Normalized(site, link) = link
  BY DEF AsWrittenAt
<1> HIDE DEF A, B, N, t, links, page
<1>8. ASSUME NEW k \in 1..N PROVE Normalized(site, OnSelf(t[k], self)) = OnSelf(t[k], self)
  <2>1. IsLink(t[k])
    BY <1>2
  <2>2. Normalized(site, t[k]) = t[k]
    <3>1. CASE k \in 1..A
      BY <1>2, <1>6, <1>7, <3>1
    <3>2. CASE k \notin 1..A
      <4>1. k - A \in 1..B /\ A + (k - A) = k
        BY <1>2, <1>4, <3>2
      <4>2. t[k] = page.forms[k - A].action
        BY <1>2, <4>1
      <4> QED BY <1>6, <1>7, <4>1, <4>2
    <3> QED BY <3>1, <3>2
  <2> QED BY <2>1, <2>2, NormalOnSelf
<1>9. KeysOf(site, t, self) = [n \in 1..N |-> Normalized(site, OnSelf(t[n], self))]
  BY <1>4 DEF KeysOf
<1>10. [n \in DOMAIN links |-> OnSelf(links[n], self)] = [n \in 1..N |-> OnSelf(t[n], self)]
  BY <1>1, <1>4
<1>11. [n \in DOMAIN links |-> OnSelf(links[n], self)] = KeysOf(site, t, self)
  BY <1>8, <1>9, <1>10
<1> QED BY <1>11 DEF t, links, page

LEMMA GroundVisitsAlike ==
  ASSUME NEW site, IsSite(site), WellFormed(site), AsWritten(site), NEW item, OnSite(site, item.at.host)
  PROVE  GroundVisit(site, item).keys = OracleVisit(site, item).keys
<1> DEFINE k == item.at
           o == ResolveRedirects(site, k)
           place == o.place
           page == site.pages[place]
           links == GroundLinks(page)
<1>1. GroundVisit(site, item).keys = IF Good(site, k) THEN [n \in DOMAIN links |-> OnSelf(links[n], k.host)] ELSE <<>>
  BY DEF GroundVisit, GroundLinks
<1>2. CASE ~Good(site, k)
  <2>1. OracleVisit(site, item) = Failure
    BY <1>2, Zenon DEF OracleVisit
  <2>2. Failure.keys = <<>>
    BY DEF Failure
  <2> HIDE DEF links
  <2> QED BY <1>1, <1>2, <2>1, <2>2
<1>3. CASE Good(site, k)
  <2>1. Ends(site, o) /\ ~Broken(site, o.place)
    BY <1>3 DEF Good
  <2>2. place \in DOMAIN site.pages
    BY <2>1, Zenon DEF Broken, Has
  <2>3. WellAt(site, place)
    BY <2>2, PagesWell
  <2>4. AsWrittenAt(site, page)
    BY <2>2, Zenon DEF AsWritten, AsWrittenAt
  <2>5. [n \in DOMAIN links |-> OnSelf(links[n], k.host)] = KeysOf(site, AllLinks(page), k.host)
    <3> DEFINE l(p) == GroundLinks(site.pages[p])
    <3>1. \A p : WellAt(site, p) /\ AsWrittenAt(site, site.pages[p]) =>
            [n \in DOMAIN l(p) |-> OnSelf(l(p)[n], k.host)] = KeysOf(site, AllLinks(site.pages[p]), k.host)
      BY GroundKeysAre
    <3> HIDE DEF place
    <3> QED BY <2>3, <2>4, <3>1
  <2>6. OracleVisit(site, item).keys = KeysOf(site, AllLinks(page), k.host)
    <3> DEFINE ks == KeysOf(site, AllLinks(page), k.host)
               c == Answered(o.hops, Len(OwnForms(page)), Cardinality(QueryKeys(k.query)) + Total(FieldCounts(OwnForms(page))),
                             FileCount(page.js), Len(Routes(page)))
    <3>1. OracleVisit(site, item) = [counts |-> c, keys |-> ks]
      BY <1>3, OracleVisitIs
    <3> HIDE DEF ks, c
    <3>2. OracleVisit(site, item).keys = ks
      BY <3>1
    <3> QED BY <3>2 DEF ks
  <2> HIDE DEF links, page
  <2> QED BY <1>1, <1>3, <2>5, <2>6
<1> QED BY <1>2, <1>3

\* Walks that differ in what they count only.
Alike(a, b) == a.queue = b.queue /\ a.seen = b.seen /\ a.visited = b.visited

LEMMA QueuedAlike ==
  ASSUME NEW a, NEW b, Alike(a, b), NEW item, NEW v, NEW w, v.keys = w.keys, NEW wanted
  PROVE  Alike(Queued(a, item, v, wanted), Queued(b, item, w, wanted))
<1> DEFINE keys == v.keys
           p == Queued(a, item, v, wanted)
           q == Queued(b, item, w, wanted)
<1>1. Becomes(a, item, keys, wanted, p) /\ Becomes(b, item, w.keys, wanted, q)
  BY QueuedIs
<1> HIDE DEF p, q
<1>2. Becomes(b, item, keys, wanted, q)
  BY <1>1
<1> HIDE DEF keys
<1>3. Entries(a, item, keys, wanted) = Entries(b, item, keys, wanted)
  <2>1. \A n : Entered(a, item, keys, wanted, n) = Entered(b, item, keys, wanted, n)
    <3>1. \A n : NewKey(a, keys, wanted, n) <=> NewKey(b, keys, wanted, n)
      BY DEF NewKey, Alike
    <3>2. ASSUME NEW n PROVE Entered(a, item, keys, wanted, n) = Entered(b, item, keys, wanted, n)
      BY <3>1, Zenon DEF Entered
    <3> QED BY <3>2
  <2>2. [n \in DOMAIN keys |-> Entered(a, item, keys, wanted, n)] = [n \in DOMAIN keys |-> Entered(b, item, keys, wanted, n)]
    BY <2>1
  <2> QED BY <2>2, Zenon DEF Entries
<1>4. /\ p.queue = Tail(a.queue) \o Entries(a, item, keys, wanted) /\ p.seen = a.seen \cup Met(keys, wanted)
      /\ p.visited = Append(a.visited, item.at)
  BY <1>1, Zenon DEF Becomes
<1>5. /\ q.queue = Tail(b.queue) \o Entries(b, item, keys, wanted) /\ q.seen = b.seen \cup Met(keys, wanted)
      /\ q.visited = Append(b.visited, item.at)
  BY <1>2, Zenon DEF Becomes
<1>6. a.queue = b.queue /\ a.seen = b.seen /\ a.visited = b.visited
  BY DEF Alike
<1>7. p.queue = q.queue /\ p.seen = q.seen /\ p.visited = q.visited
  BY <1>3, <1>4, <1>5, <1>6, Zenon
<1> QED BY <1>7 DEF Alike, p, q

LEMMA AdvancesAlike ==
  ASSUME NEW site, IsSite(site), WellFormed(site), AsWritten(site), NEW g, NEW o, Alike(g, o), Healthy(site, o)
  PROVE  Alike(Advance(site, "ground", g), Advance(site, "oracle", o))
<1> DEFINE item == Head(o.queue)
           v == OracleVisit(site, item)
           w == GroundVisit(site, item)
<1>1. g.queue = o.queue
  BY DEF Alike
<1>2. CASE o.queue = <<>>
  <2>1. Advance(site, "ground", g) = g /\ Advance(site, "oracle", o) = o
    BY <1>1, <1>2, AdvanceIs
  <2> QED BY <2>1
<1>3. CASE o.queue # <<>>
  <2>1. OnSite(site, item.at.host)
    <3>1. Sequence(o.queue)
      BY DEF Healthy
    <3>2. item = o.queue[1] /\ 1 \in 1..Len(o.queue)
      BY <1>3, <3>1, TailIs
    <3> HIDE DEF item
    <3> QED BY <3>2 DEF Healthy
  <2>2. w.keys = v.keys
    BY <2>1, GroundVisitsAlike
  <2>3. Advance(site, "ground", g) = Queued(g, item, w, WantedOf(site, "ground", item, w.keys))
    <3> DEFINE i == Head(g.queue)
    <3>1. Advance(site, "ground", g) =
            Queued(g, i, Visit(site, "ground", i), WantedOf(site, "ground", i, Visit(site, "ground", i).keys))
      BY <1>1, <1>3, AdvanceIs
    <3>2. i = item
      BY <1>1
    <3>3. Visit(site, "ground", item) = w
      BY VisitIs
    <3> HIDE DEF w, i, item
    <3> QED BY <3>1, <3>2, <3>3
  <2>4. Advance(site, "oracle", o) = Queued(o, item, v, WantedOf(site, "oracle", item, v.keys))
    <3>1. Advance(site, "oracle", o) =
            Queued(o, item, Visit(site, "oracle", item), WantedOf(site, "oracle", item, Visit(site, "oracle", item).keys))
      BY <1>3, AdvanceIs
    <3>2. Visit(site, "oracle", item) = v
      BY VisitIs
    <3> HIDE DEF v
    <3> QED BY <3>1, <3>2
  <2> HIDE DEF item, v, w
  <2>5. WantedOf(site, "ground", item, v.keys) = WantedOf(site, "oracle", item, v.keys)
    BY WantedAlike
  <2>6. Alike(Queued(g, item, w, WantedOf(site, "oracle", item, v.keys)), Queued(o, item, v, WantedOf(site, "oracle", item, v.keys)))
    BY <2>2, QueuedAlike
  <2> QED BY <2>2, <2>3, <2>4, <2>5, <2>6
<1> QED BY <1>2, <1>3

\* The ground truth of a site as written is what the oracle's walk visits.
LEMMA WalksAlike ==
  ASSUME NEW site, IsSite(site), WellFormed(site), AsWritten(site)
  PROVE  Walk(site, "ground").visited = Walk(site, "oracle").visited
<1> DEFINE N == Enough(site)
<1>1. N \in Nat
  BY EnoughIs
<1>2. PICK g : /\ Walk(site, "ground") = g[N] /\ g[0] = AtSeed(site, "ground")
               /\ \A n \in 1..N : g[n] = Advance(site, "ground", g[n - 1])
  BY WalkRuns
<1>3. PICK o : /\ Walk(site, "oracle") = o[N] /\ o[0] = AtSeed(site, "oracle")
               /\ \A n \in 1..N : o[n] = Advance(site, "oracle", o[n - 1])
  BY WalkRuns
<1> HIDE DEF N
<1> DEFINE T == {n \in 0..N : Alike(g[n], o[n]) /\ Healthy(site, o[n])}
<1>4. 0 \in T
  <2>1. FirstKey(site, "ground") = FirstKey(site, "oracle")
    BY SeedsAgree DEF AsWritten
  <2>2. Alike(AtSeed(site, "ground"), AtSeed(site, "oracle"))
    BY <2>1 DEF Alike, AtSeed
  <2> QED BY <1>1, <1>2, <1>3, <2>2, SeedHealthy
<1>5. ASSUME NEW n \in 0..N - 1, n \in T PROVE n + 1 \in T
  <2>1. n + 1 \in 1..N /\ n + 1 \in 0..N /\ n + 1 - 1 = n
    BY <1>1
  <2>2. /\ g[n + 1] = Advance(site, "ground", g[n]) /\ o[n + 1] = Advance(site, "oracle", o[n])
        /\ Alike(g[n], o[n]) /\ Healthy(site, o[n])
    BY <1>2, <1>3, <1>5, <2>1
  <2>3. Alike(Advance(site, "ground", g[n]), Advance(site, "oracle", o[n])) /\ Healthy(site, Advance(site, "oracle", o[n]))
    BY <2>2, AdvancesAgree, AdvancesAlike
  <2> QED BY <2>1, <2>2, <2>3
<1>6. N \in 0..N
  BY <1>1
<1> HIDE DEF T
<1>7. N \in T
  BY <1>1, <1>4, <1>5, <1>6, PrefixInd
<1>8. Alike(g[N], o[N])
  BY <1>7 DEF T
<1> QED BY <1>2, <1>3, <1>8 DEF Alike

\* "the two can never drift apart" (internal/benchlab/oracle.go): whatever well-formed
\* site is made up, with its redirects, loops, errors, scripts and forms, the oracle
\* counts what a crawl of it counts; and with links in normal form, the paths the
\* competitors are scored against (coverage.go) are those the crawl reaches.
THEOREM OracleCorrect == Spec => []OracleFollowsEngine
<1>1. ASSUME IsCase(input) PROVE OracleFollowsEngine
  <2> DEFINE site == input.site
             visited == Walk(site, "oracle").visited
             score == Score(CrawledPaths(site), DiscoverablePaths(site))
  <2>1. SUFFICES ASSUME Is("site"), WellFormed(site)
                 PROVE  /\ Compute(site) = Crawl(site).counts
                        /\ AsWritten(site) => Exact(score)
    BY DEF OracleFollowsEngine
  <2>2. IsSite(site)
    BY <1>1, <2>1, CaseOfKind, AlgorithmsAssumption DEF Is
  <2>3. Crawl(site) = Walk(site, "oracle")
    BY <2>1, <2>2, WalksAgree DEF Crawl
  <2>4. Compute(site) = Crawl(site).counts
    BY <2>3 DEF Compute
  <2>5. ASSUME AsWritten(site) PROVE Exact(score)
    <3>1. Walk(site, "ground").visited = visited
      BY <2>1, <2>2, <2>5, WalksAlike
    <3>2. CrawledPaths(site) = DiscoverablePaths(site)
      BY <2>3, <3>1, Zenon DEF CrawledPaths, DiscoverablePaths
    <3> DEFINE f == CrawledPaths(site)
               d == DiscoverablePaths(site)
    <3>3. score.extra = f \ d /\ score.missing = d \ f
      BY DEF Score
    <3> HIDE DEF f, d, score
    <3>4. score.extra = {} /\ score.missing = {}
      BY <3>2, <3>3 DEF f, d
    <3> QED BY <3>4 DEF Exact
  <2> QED BY <2>4, <2>5
<1>2. Init => IsCase(input)
  BY DEF Init
<1>3. IsCase(input) /\ [Next]_<<input, writerVars>> => IsCase(input)'
  BY DEF Next, IsCase
<1> QED BY <1>1, <1>2, <1>3, PTL DEF Spec
=============================================================================
