--------------------------- MODULE Requests_proofs ---------------------------
(***************************************************************************)
(* Proofs about the requests to the models, for every value of the          *)
(* constants: LLMClient, ModelRouting, Difficulty and Wire.                 *)
(***************************************************************************)
EXTENDS LLMClient, ModelRouting, Difficulty, Wire, SequenceLemmas

-----------------------------------------------------------------------------
(***************************************************************************)
(* Whatever the providers, credentials, configurations and models are: the  *)
(* clients use a provider as it was added, decisions answer what was asked, *)
(* and prices and model cards that are set stay.                            *)
(***************************************************************************)

CallFields == {"provider", "api", "attempts", "phase", "error"}
(* The records of the clients have their fields; an added provider is one   *)
(* that may be.                                                             *)
ClientInv ==
    /\ DOMAIN call = CallFields /\ call = [f \in CallFields |-> call[f]]
    /\ ClientTypeOK /\ AddedProviderIsUsed

LEMMA PutFacts ==
    ASSUME NEW f, NEW x, NEW v
    PROVE  /\ DOMAIN Put(f, x, v) = DOMAIN f \cup {x}
           /\ Put(f, x, v)[x] = v
           /\ \A y \in DOMAIN f : y # x => Put(f, x, v)[y] = f[y]
  BY DEF Put

LEMMA ClientInitInv == LcInit => ClientInv
  BY DEF LcInit, ClientInv, ClientTypeOK, AddedProviderIsUsed, NoCall, NoApi, Runs, CallFields,
         Delays

(* A request creates or finds the client of its provider.                   *)
LEMMA RequestKeepsClients == ClientInv /\ StartRequest => ClientInv'
<1> SUFFICES ASSUME ClientInv, StartRequest PROVE ClientInv'
  OBVIOUS
<1> DEFINE supported(p) == p \in Builtin \cup DOMAIN custom
<1>1. PICK p \in KnownProviders :
        /\ apis' = IF supported(p) THEN Put(apis, p, Api(p)) ELSE apis
        /\ call' = [NoCall EXCEPT
              !.provider = p, !.api = IF supported(p) THEN Api(p) ELSE NoApi,
              !.phase = IF supported(p) /\ MaySend(Api(p)) THEN "attempt" ELSE "refused"]
  BY DEF StartRequest
<1>2. /\ DOMAIN call' = CallFields /\ call' = [f \in CallFields |-> call'[f]]
      /\ call'.attempts = 0
      /\ call'.api = IF supported(p) THEN Api(p) ELSE NoApi
      /\ call'.phase = IF supported(p) /\ MaySend(Api(p)) THEN "attempt" ELSE "refused"
  BY <1>1 DEF NoCall, CallFields
<1>3. custom' = custom
  BY DEF StartRequest
<1>4. DOMAIN apis' \subseteq Builtin \cup DOMAIN custom'
  <2>1. CASE supported(p)
    <3>1. DOMAIN apis' = DOMAIN apis \cup {p}
      BY <2>1, <1>1, PutFacts
    <3> QED
      BY <3>1, <2>1, <1>3 DEF ClientInv, ClientTypeOK
  <2>2. CASE ~supported(p)
    BY <2>2, <1>1, <1>3 DEF ClientInv, ClientTypeOK
  <2> QED
    BY <2>1, <2>2
<1>5. ClientTypeOK'
  BY <1>2, <1>4 DEF ClientTypeOK, Runs, Delays, MaySend
<1>6. ASSUME NEW q \in DOMAIN custom' \cap DOMAIN apis'
      PROVE  apis'[q].impl = "custom" /\ (custom'[q] # NoKey => apis'[q].key = custom'[q])
  <2>1. CASE q \in DOMAIN apis /\ apis'[q] = apis[q]
    BY <2>1, <1>3 DEF ClientInv, AddedProviderIsUsed
  <2>2. CASE q = p /\ apis'[q] = NewApi(q)
    BY <2>2, <1>3 DEF NewApi, OwnKey
  <2>3. CASE ~supported(p)
    BY <2>3, <2>1, <1>1
  <2>4. CASE supported(p)
    <3>1. apis' = Put(apis, p, Api(p))
      BY <2>4, <1>1
    <3>2. DOMAIN apis' = DOMAIN apis \cup {p} /\ apis'[p] = Api(p)
          /\ \A y \in DOMAIN apis : y # p => apis'[y] = apis[y]
      <4> DEFINE new == Put(apis, p, Api(p))
      <4>1. /\ DOMAIN new = DOMAIN apis \cup {p} /\ new[p] = Api(p)
            /\ \A y \in DOMAIN apis : y # p => new[y] = apis[y]
        BY DEF Put
      <4> QED
        BY <4>1, <3>1
    <3>3. Api(p) = IF p \in DOMAIN apis THEN apis[p] ELSE NewApi(p)
      BY DEF Api
    <3> QED
      BY <3>2, <3>3, <2>1, <2>2
  <2> QED
    BY <2>3, <2>4
<1> QED
  BY <1>2, <1>5, <1>6 DEF ClientInv, AddedProviderIsUsed

(* An attempt is answered, fails, or waits for the next one.                *)
LEMMA AttemptKeepsClients ==
    ClientInv /\ (AttemptSucceeds \/ AttemptFails \/ WakeUp) => ClientInv'
<1> SUFFICES ASSUME ClientInv, AttemptSucceeds \/ AttemptFails \/ WakeUp PROVE ClientInv'
  OBVIOUS
<1>1. UNCHANGED <<custom, apis>>
  BY DEF AttemptSucceeds, AttemptFails, WakeUp
<1>2. AddedProviderIsUsed'
  BY <1>1 DEF ClientInv, AddedProviderIsUsed
<1>3. DOMAIN call' = CallFields /\ call' = [f \in CallFields |-> call'[f]]
  BY DEF ClientInv, CallFields, AttemptSucceeds, AttemptFails, WakeUp, Tried
<1>4. ClientTypeOK'
  <2>1. CASE AttemptSucceeds
    BY <2>1, <1>1 DEF ClientInv, ClientTypeOK, CallFields, AttemptSucceeds, Tried, Runs, Delays
  <2>2. CASE AttemptFails
    <3>1. PICK error \in RequestErrors :
            call' = IF Retryable(error) /\ MayRetry(Tried(call))
                    THEN [Tried(call) EXCEPT !.phase = "sleep"]
                    ELSE [Tried(call) EXCEPT !.phase = "failed", !.error = error]
      BY <2>2 DEF AttemptFails
    <3>2. call.phase = "attempt" /\ call.attempts \in 0..2 /\ call.api.key # NoKey
      BY <2>2 DEF AttemptFails, ClientInv, ClientTypeOK, Runs, Delays
    <3>3. /\ DOMAIN Tried(call) = CallFields
          /\ Tried(call).attempts = call.attempts + 1 /\ Tried(call).api = call.api
      BY DEF Tried, ClientInv, CallFields
    <3>4. /\ call'.attempts = call.attempts + 1 /\ call'.api = call.api
          /\ call'.phase = IF Retryable(error) /\ MayRetry(Tried(call)) THEN "sleep" ELSE "failed"
          /\ call'.phase = "failed" => call'.error = error
      BY <3>1, <3>3 DEF CallFields
    <3> QED
      BY <3>2, <3>3, <3>4, <1>1 DEF ClientInv, ClientTypeOK, Runs, Delays, MayRetry
  <2>3. CASE WakeUp
    BY <2>3, <1>1 DEF ClientInv, ClientTypeOK, CallFields, WakeUp, Runs, Delays
  <2> QED
    BY <2>1, <2>2, <2>3
<1> QED
  BY <1>2, <1>3, <1>4 DEF ClientInv

LEMMA ClientNextInv == ClientInv /\ [LcNext]_lcVars => ClientInv'
<1> SUFFICES ASSUME ClientInv, [LcNext]_lcVars PROVE ClientInv'
  OBVIOUS
<1>1. CASE ChangeEnvironment \/ Decide \/ UNCHANGED lcVars
  BY <1>1 DEF ClientInv, ClientTypeOK, AddedProviderIsUsed, ChangeEnvironment, Decide, lcVars, Runs
<1>2. CASE AddProvider
  BY <1>2, PutFacts
     DEF ClientInv, ClientTypeOK, AddedProviderIsUsed, AddProvider, Cleared, Runs
<1> QED
  BY <1>1, <1>2, RequestKeepsClients, AttemptKeepsClients DEF LcNext

(* The types of the clients: no request is sent without credentials or more *)
(* than three times, and temporary errors alone are retried until then.     *)
THEOREM ClientTypeCorrect == LcSpec => []ClientTypeOK
<1>1. ClientInv => ClientTypeOK
  BY DEF ClientInv
<1> QED
  BY <1>1, ClientInitInv, ClientNextInv, PTL DEF LcSpec

(* LLM_API.get: a provider is used with the implementation and the          *)
(* credentials of its add_provider, whatever the caches held before.        *)
THEOREM AddedProviderIsUsedAlways == LcSpec => []AddedProviderIsUsed
<1>1. ClientInv => AddedProviderIsUsed
  BY DEF ClientInv
<1> QED
  BY <1>1, ClientInitInv, ClientNextInv, PTL DEF LcSpec

-----------------------------------------------------------------------------
(* The last answer for a name is one of its answers.                        *)
LEMMA LastIsAnAnswer ==
    ASSUME NEW k \in 0..2, NEW answers \in [1..k -> Answers], NEW n \in NamesIn(answers)
    PROVE  \E i \in DOMAIN answers : answers[i].name = n /\ LastFor(answers, n) = answers[i]
<1> DEFINE Newest(i) == answers[i].name = n /\ \A m \in i + 1..Len(answers) : answers[m].name # n
<1>1. DOMAIN answers = 1..k /\ Len(answers) = k
  OBVIOUS
<1>2. \E i \in DOMAIN answers : Newest(i)
  <2>1. PICK i \in 1..k : answers[i].name = n
    BY <1>1 DEF NamesIn
  <2>2. CASE k = 2 /\ answers[2].name = n
    BY <2>2, <1>1
  <2>3. CASE ~(k = 2 /\ answers[2].name = n)
    BY <2>1, <2>3, <1>1
  <2> QED
    BY <2>2, <2>3
<1> QED
  BY <1>2 DEF LastFor

(* EveryQuestionIsDecided holds of each decision by itself.                 *)
LEMMA DecideAnswersAll == Decide => EveryQuestionIsDecided'
<1> SUFFICES ASSUME Decide PROVE EveryQuestionIsDecided'
  OBVIOUS
<1>1. PICK api \in DecisionAPIs, asks \in SUBSET QuestionNames \ {{}} :
        \E questions \in [asks -> AnswerTypes], answers \in UNION {[1..k -> Answers] : k \in 0..2} :
           decision' =
              [api |-> api, questions |-> questions, answers |-> answers,
               result |-> IF Accepts(api, questions, answers) THEN "accepted" ELSE "raised"]
  BY DEF Decide
<1>2. PICK questions \in [asks -> AnswerTypes], answers \in UNION {[1..k -> Answers] : k \in 0..2} :
        decision' =
            [api |-> api, questions |-> questions, answers |-> answers,
             result |-> IF Accepts(api, questions, answers) THEN "accepted" ELSE "raised"]
  BY <1>1
<1>3. PICK k \in 0..2 : answers \in [1..k -> Answers]
  OBVIOUS
<1>4. ASSUME Accepts(api, questions, answers), NEW n \in DOMAIN questions
      PROVE  \E i \in DOMAIN answers : answers[i] = [name |-> n, type |-> questions[n]]
  <2>1. n \in NamesIn(answers)
    BY <1>4 DEF Accepts
  <2>2. \E i \in DOMAIN answers : answers[i].name = n /\ answers[i].type = questions[n]
    <3>1. CASE api = "systemone"
      <4>1. LastFor(answers, n).type = questions[n]
        BY <3>1, <1>4 DEF Accepts
      <4>2. \E i \in DOMAIN answers : answers[i].name = n /\ LastFor(answers, n) = answers[i]
        BY <1>3, <2>1, LastIsAnAnswer
      <4> QED
        BY <4>1, <4>2
    <3>2. CASE api # "systemone"
      BY <3>2, <1>4, <2>1 DEF Accepts, NamesIn
    <3> QED
      BY <3>1, <3>2
  <2> QED
    BY <2>2, <1>3 DEF Answers
<1> QED
  BY <1>2, <1>4 DEF EveryQuestionIsDecided

(* decisions_api.py: a decision that is returned answers every question     *)
(* that was asked, with a decision of the type of the question.             *)
THEOREM EveryQuestionIsDecidedAlways == LcSpec => []EveryQuestionIsDecided
<1>1. LcInit => EveryQuestionIsDecided
  BY DEF LcInit, EveryQuestionIsDecided, NoDecision, AsksDecision
<1>2. EveryQuestionIsDecided /\ [LcNext]_lcVars => EveryQuestionIsDecided'
  <2> SUFFICES ASSUME EveryQuestionIsDecided, [LcNext]_lcVars PROVE EveryQuestionIsDecided'
    OBVIOUS
  <2>1. CASE Decide
    BY <2>1, DecideAnswersAll
  <2>2. CASE decision' = decision
    BY <2>2 DEF EveryQuestionIsDecided
  <2> QED
    BY <2>1, <2>2
       DEF LcNext, lcVars, ChangeEnvironment, AddProvider, StartRequest, AttemptSucceeds,
           AttemptFails, WakeUp
<1> QED
  BY <1>1, <1>2, PTL DEF LcSpec

-----------------------------------------------------------------------------
(* The prices are a sequence; all there can be are finitely many.           *)
PricesAreASequence == \E S : prices \in Seq(S)

LEMMA FinitelyManyKeys == routing \in RoutingSetups => IsFiniteSet(Keys)
<1> SUFFICES ASSUME routing \in RoutingSetups PROVE IsFiniteSet(Keys)
  OBVIOUS
<1> DEFINE pairs == Providers \X routing.names
           image == {PriceKey(x[1], x[2]) : x \in pairs}
<1>1. IsFiniteSet(pairs)
  BY RoutingAssumption, FS_Product
<1>2. IsFiniteSet(image)
  <2> DEFINE f == [x \in pairs |-> PriceKey(x[1], x[2])]
  <2>1. f \in Surjection(pairs, image)
    BY DEF Surjection
  <2> QED
    BY <1>1, <2>1, FS_Surjection
<1>3. Keys \subseteq image
  <2>1. ASSUME NEW provider \in Providers, NEW name \in routing.names
        PROVE  PriceKey(provider, name) \in image
    <3>1. <<provider, name>> \in pairs
      OBVIOUS
    <3> QED
      BY <3>1
  <2> QED
    BY <2>1 DEF Keys
<1> QED
  BY <1>2, <1>3, FS_Subset

LEMMA PricesInit == MrInit => PricesAreASequence
<1> SUFFICES ASSUME MrInit PROVE PricesAreASequence
  OBVIOUS
<1>1. CASE prices = <<>>
  BY <1>1 DEF PricesAreASequence
<1>2. CASE prices = [i \in 1..Cardinality(Keys) |-> [key |-> SetToSeq(Keys)[i], price |-> 1]]
  <2>1. Cardinality(Keys) \in Nat
    BY FinitelyManyKeys, FS_CardinalityType DEF MrInit
  <2> DEFINE S == {[key |-> SetToSeq(Keys)[i], price |-> 1] : i \in 1..Cardinality(Keys)}
  <2>2. prices \in Seq(S)
    BY <1>2, <2>1
  <2> QED
    BY <2>2 DEF PricesAreASequence
<1> QED
  BY <1>1, <1>2 DEF MrInit

(* A price is appended, or one that is not valid gets a value.              *)
PriceStep ==
    \/ prices' = prices
    \/ \E e : prices' = Append(prices, e)
    \/ \E i \in DOMAIN prices, price \in 1..2 :
          MayFill(i) /\ prices' = [prices EXCEPT ![i].price = price]

LEMMA PricesStep == [MrNext]_mrVars => PriceStep
<1> SUFFICES ASSUME [MrNext]_mrVars PROVE PriceStep
  OBVIOUS
<1>1. CASE ChangeFile \/ CreateJobDef \/ SetCard \/ UNCHANGED mrVars
  BY <1>1 DEF ChangeFile, CreateJobDef, SetCard, mrVars, PriceStep
<1>2. CASE SendModelRequest
  <2>1. UNCHANGED prices \/ \E e : prices' = Append(prices, e)
    BY <1>2 DEF SendModelRequest, Priced
  <2> QED
    BY <2>1 DEF PriceStep
<1>3. CASE SetPrice
  BY <1>3 DEF SetPrice, Priced, FoundPrices, PriceStep
<1> QED
  BY <1>1, <1>2, <1>3 DEF MrNext

LEMMA PricesStaySequence == PricesAreASequence /\ PriceStep => PricesAreASequence'
<1> SUFFICES ASSUME NEW S, prices \in Seq(S), PriceStep PROVE PricesAreASequence'
  BY DEF PricesAreASequence
<1>1. ASSUME NEW e, prices' = Append(prices, e) PROVE PricesAreASequence'
  <2>1. prices' \in Seq(S \cup {e})
    BY <1>1
  <2> QED
    BY <2>1 DEF PricesAreASequence
<1>2. ASSUME NEW i \in DOMAIN prices, NEW price,
             prices' = [prices EXCEPT ![i].price = price]
      PROVE  PricesAreASequence'
  <2>1. prices' \in Seq(S \cup {[prices[i] EXCEPT !.price = price]})
    BY <1>2
  <2> QED
    BY <2>1 DEF PricesAreASequence
<1> QED
  BY <1>1, <1>2 DEF PriceStep, PricesAreASequence

(* model_pricing.py, model_card.py: a price that is in use is never changed *)
(* under the usage it prices, however many objects a search finds, and no   *)
(* field of a card that is set gets another value.                          *)
THEOREM PricesAndCardsStayAlways == MrSpec => PricesAndCardsStay
<1> DEFINE Stay ==
      /\ \A i \in DOMAIN prices : prices[i].price # 0 => prices'[i] = prices[i]
      /\ \A f \in DOMAIN card : card[f] # 0 => card'[f] = card[f]
<1>1. PricesAreASequence /\ [MrNext]_mrVars => PricesAreASequence'
  BY PricesStep, PricesStaySequence
<1>2. PricesAreASequence /\ [MrNext]_mrVars => [Stay]_mrVars
  <2> SUFFICES ASSUME NEW S, prices \in Seq(S), [MrNext]_mrVars PROVE Stay
    BY DEF PricesAreASequence
  <2>1. ASSUME NEW i \in DOMAIN prices, prices[i].price # 0 PROVE prices'[i] = prices[i]
    <3>1. ASSUME NEW e, prices' = Append(prices, e) PROVE prices'[i] = prices[i]
      BY <3>1
    <3> QED
      BY <2>1, <3>1, PricesStep DEF PriceStep, MayFill
  <2>2. ASSUME NEW f \in DOMAIN card, card[f] # 0 PROVE card'[f] = card[f]
    <3>1. CASE SetCard
      BY <2>2, <3>1 DEF SetCard, MayBeSet
    <3> QED
      BY <3>1 DEF MrNext, mrVars, ChangeFile, CreateJobDef, SendModelRequest, SetPrice
  <2> QED
    BY <2>1, <2>2
<1> QED
  BY <1>1, <1>2, PricesInit, PTL DEF MrSpec, PricesAndCardsStay

-----------------------------------------------------------------------------
(***************************************************************************)
(* Whatever the configurations and names of models are: a request has the   *)
(* parameters and the price of its model, its level and the configuration   *)
(* that its job was created with.                                           *)
(***************************************************************************)
LEMMA EarliestIsFirst ==
    ASSUME NEW S, S \subseteq Nat, S # {}
    PROVE  Earliest(S) \in S /\ \A k \in S : Earliest(S) <= k
<1>1. PICK i \in S : \A k \in S : i <= k
  BY LeastNumber
<1> QED
  BY <1>1 DEF Earliest

LEMMA EarliestIs ==
    ASSUME NEW S, S \subseteq Nat, NEW i \in S, \A k \in S : i <= k
    PROVE  Earliest(S) = i
<1>1. Earliest(S) \in S /\ Earliest(S) <= i
  BY EarliestIsFirst
<1>2. i <= Earliest(S) /\ Earliest(S) \in Nat /\ i \in Nat
  BY <1>1
<1> QED
  BY <1>1, <1>2

(***************************************************************************)
(* The candidates of _candidate_paths are the paths that apply to the       *)
(* request, from the heaviest to the lightest.                              *)
(***************************************************************************)
Candidates == CandidatePaths(asked.provider, asked.name.family, asked.name.model)

LEMMA CandidatesAre ==
    \/ /\ asked.name.family = Absent
       /\ Candidates = << <<asked.provider, asked.name.model>>, <<asked.provider>> >>
    \/ /\ asked.name.family # Absent
       /\ Candidates = << <<asked.provider, asked.name.family, asked.name.model>>,
                          <<asked.provider, asked.name.model>>,
                          <<asked.provider, asked.name.family>>, <<asked.provider>> >>
  BY DEF Candidates, CandidatePaths

LEMMA CandidatesApply ==
    ASSUME asked.name.model # Absent, NEW R, NEW path \in Seq(R), path # <<>>
    PROVE  Applies(path) <=> \E i \in DOMAIN Candidates : path = Candidates[i]
<1>1. PICK p, f, m : p = asked.provider /\ f = asked.name.family /\ m = asked.name.model
  OBVIOUS
<1>2. Len(path) \in Nat \ {0} /\ DOMAIN path = 1..Len(path)
  OBVIOUS
<1>3. Applies(path) <=>
        /\ path[1] = p /\ Len(path) <= 3
        /\ \A i \in 2..Len(path) : path[i] \in {f, m} \ {Absent}
        /\ Len(path) = 3 => path[2] = f /\ path[3] = m
  BY <1>1 DEF Applies
<1>4. (\E i \in DOMAIN Candidates : path = Candidates[i]) <=>
        \/ path = <<p>> \/ path = <<p, m>>
        \/ f # Absent /\ (path = <<p, f>> \/ path = <<p, f, m>>)
  <2>1. CASE /\ f = Absent
             /\ Candidates = << <<p, m>>, <<p>> >>
    <3>1. DOMAIN Candidates = 1..2 /\ Candidates[1] = <<p, m>> /\ Candidates[2] = <<p>>
      BY <2>1
    <3>2. (\E i \in DOMAIN Candidates : path = Candidates[i]) <=> path = <<p, m>> \/ path = <<p>>
      <4>1. \A i \in 1..2 : i = 1 \/ i = 2
        OBVIOUS
      <4>2. 1 \in 1..2 /\ 2 \in 1..2
        OBVIOUS
      <4> QED
        BY <3>1, <4>1, <4>2, Zenon
    <3> QED
      BY <2>1, <3>2, Zenon
  <2>2. CASE /\ f # Absent
             /\ Candidates = << <<p, f, m>>, <<p, m>>, <<p, f>>, <<p>> >>
    <3>1. /\ DOMAIN Candidates = 1..4 /\ Candidates[1] = <<p, f, m>> /\ Candidates[2] = <<p, m>>
          /\ Candidates[3] = <<p, f>> /\ Candidates[4] = <<p>>
      BY <2>2
    <3>2. (\E i \in DOMAIN Candidates : path = Candidates[i]) <=>
            path = <<p, f, m>> \/ path = <<p, m>> \/ path = <<p, f>> \/ path = <<p>>
      <4>1. \A i \in 1..4 : i = 1 \/ i = 2 \/ i = 3 \/ i = 4
        OBVIOUS
      <4>2. 1 \in 1..4 /\ 2 \in 1..4 /\ 3 \in 1..4 /\ 4 \in 1..4
        OBVIOUS
      <4> QED
        BY <3>1, <4>1, <4>2, Zenon
    <3> QED
      BY <2>2, <3>2, Zenon
  <2> QED
    BY <1>1, <2>1, <2>2, CandidatesAre
<1>9. /\ Len(<<p>>) = 1 /\ Len(<<p, m>>) = 2 /\ Len(<<p, f>>) = 2 /\ Len(<<p, f, m>>) = 3
  OBVIOUS
<1>5. CASE Len(path) = 1
  <2>1. path[1] = p <=> path = <<p>>
    BY <1>2, <1>5
  <2>2. path # <<p, m>> /\ path # <<p, f>> /\ path # <<p, f, m>>
    BY <1>5, <1>9, SMTT(30)
  <2> QED
    BY <1>3, <1>4, <1>5, <2>1, <2>2
<1>6. CASE Len(path) = 2
  <2>1. path # <<p>> /\ path # <<p, f, m>>
    BY <1>6, <1>9
  <2>2. /\ path = <<p, m>> <=> path[1] = p /\ path[2] = m
        /\ path = <<p, f>> <=> path[1] = p /\ path[2] = f
    BY <1>2, <1>6
  <2>3. 2..Len(path) = {2}
    BY <1>6
  <2> QED
    BY <1>1, <1>3, <1>4, <1>6, <2>1, <2>2, <2>3
<1>7. CASE Len(path) = 3
  <2>1. path # <<p>> /\ path # <<p, m>> /\ path # <<p, f>>
    <3>1. Len(path) # 1 /\ Len(path) # 2
      BY <1>7
    <3> QED
      BY <3>1, <1>9, Zenon
  <2>2. path = <<p, f, m>> <=> path[1] = p /\ path[2] = f /\ path[3] = m
    BY <1>2, <1>7
  <2>3. 2..Len(path) = {2, 3}
    BY <1>7
  <2> QED
    BY <1>1, <1>3, <1>4, <1>7, <2>1, <2>2, <2>3, SMTT(30)
<1>8. CASE Len(path) \notin {1, 2, 3}
  <2>1. path # <<p>> /\ path # <<p, m>> /\ path # <<p, f>> /\ path # <<p, f, m>>
    BY <1>8, <1>9, Zenon
  <2>2. ~(Len(path) <= 3)
    BY <1>2, <1>8
  <2> QED
    BY <1>3, <1>4, <2>1, <2>2
<1> QED
  BY <1>2, <1>5, <1>6, <1>7, <1>8

LEMMA CandidatesWeigh ==
    /\ DOMAIN Candidates \subseteq Nat
    /\ \A i, k \in DOMAIN Candidates :
          /\ Weight(Candidates[i]) \in Nat
          /\ i < k => \/ Weight(Candidates[k]) < Weight(Candidates[i])
                      \/ Candidates[k] = Candidates[i]
<1>1. PICK p, f, m : p = asked.provider /\ f = asked.name.family /\ m = asked.name.model
  OBVIOUS
<1>2. /\ Weight(<<p>>) \in {2, 3} /\ Weight(<<p, m>>) = 5 /\ Weight(<<p, f, m>>) = 7
      /\ Weight(<<p, f>>) = IF f = m THEN 5 ELSE 4
  BY <1>1 DEF Weight
<1>3. CASE Candidates = << <<p, m>>, <<p>> >>
  <2>1. DOMAIN Candidates = 1..2 /\ Candidates[1] = <<p, m>> /\ Candidates[2] = <<p>>
    BY <1>3
  <2>2. \A i \in 1..2 : i = 1 \/ i = 2
    OBVIOUS
  <2> QED
    BY <1>2, <2>1, <2>2
<1>4. CASE Candidates = << <<p, f, m>>, <<p, m>>, <<p, f>>, <<p>> >>
  <2>1. /\ DOMAIN Candidates = 1..4 /\ Candidates[1] = <<p, f, m>> /\ Candidates[2] = <<p, m>>
        /\ Candidates[3] = <<p, f>> /\ Candidates[4] = <<p>>
    BY <1>4
  <2>2. \A i \in 1..4 : i = 1 \/ i = 2 \/ i = 3 \/ i = 4
    OBVIOUS
  <2>3. f = m => <<p, f>> = <<p, m>>
    OBVIOUS
  <2> QED
    BY <1>2, <2>1, <2>2, <2>3
<1> QED
  BY <1>1, <1>3, <1>4, CandidatesAre

LEMMA HeaviestIsEarliest ==
    ASSUME NEW at, at \subseteq DOMAIN Candidates, at # {}
    PROVE  /\ Earliest(at) \in at
           /\ Heaviest({Candidates[i] : i \in at}) = Candidates[Earliest(at)]
<1> DEFINE e == Earliest(at)
           paths == {Candidates[i] : i \in at}
<1>1. at \subseteq Nat /\ e \in at /\ \A k \in at : e <= k
  BY CandidatesWeigh, EarliestIsFirst
<1> HIDE DEF e
<1>2. \A k \in at : \/ Weight(Candidates[k]) < Weight(Candidates[e])
                    \/ Candidates[k] = Candidates[e]
  <2> SUFFICES ASSUME NEW k \in at
               PROVE  \/ Weight(Candidates[k]) < Weight(Candidates[e])
                      \/ Candidates[k] = Candidates[e]
    OBVIOUS
  <2>1. e <= k /\ e \in Nat /\ k \in Nat
    BY <1>1
  <2> QED
    BY <1>1, <2>1, CandidatesWeigh
<1>3. \A k \in at : Weight(Candidates[k]) \in Nat
  BY CandidatesWeigh
<1>4. Candidates[e] \in paths /\ \A other \in paths : Weight(other) <= Weight(Candidates[e])
  BY <1>1, <1>2, <1>3
<1>5. ASSUME NEW path \in paths, \A other \in paths : Weight(other) <= Weight(path)
      PROVE  path = Candidates[e]
  <2>1. PICK k \in at : path = Candidates[k]
    OBVIOUS
  <2>2. Weight(Candidates[e]) <= Weight(Candidates[k])
    BY <1>4, <1>5, <2>1
  <2> QED
    BY <1>1, <1>2, <1>3, <2>1, <2>2
<1>6. Heaviest(paths) = Candidates[e]
  <2> HIDE DEF paths
  <2> QED
    BY <1>4, <1>5 DEF Heaviest
<1> QED
  BY <1>1, <1>6 DEF e

(***************************************************************************)
(* The inductive invariant: a job definition has the configuration that it  *)
(* was made with, and what was asked is a request of one of them.           *)
(***************************************************************************)
RoutingInv ==
    /\ routing \in RoutingSetups /\ file \in Configs \cup {Absent}
    /\ snapshots \in Seq([content : Configs, tagged : BOOLEAN])
    /\ jobDefs \in Seq([config : Nat, made : Configs \cup {Absent}])
    /\ \A d \in DOMAIN jobDefs : jobDefs[d].config \in 0..Len(snapshots)
    /\ SnapshotsAreSharedAndKept
AskedInv ==
    asked = NothingAsked \/
    \E d \in DOMAIN jobDefs, name \in routing.names, metadata, loop \in Providers \cup {Absent} :
        asked = ModelRequest(d, name, metadata, loop)

LEMMA ConfigIsKept ==
    ASSUME RoutingInv, NEW d \in DOMAIN jobDefs
    PROVE  jobDefs[d].made = ConfigOf(d) /\ ConfigOf(d) \in Configs \cup {Absent}
<1>1. jobDefs[d].made = ConfigOf(d)
  BY DEF RoutingInv, SnapshotsAreSharedAndKept, ConfigOf
<1>2. jobDefs[d].made \in Configs \cup {Absent}
  <2>1. jobDefs \in Seq([config : Nat, made : Configs \cup {Absent}])
    BY DEF RoutingInv
  <2>2. d \in 1..Len(jobDefs)
    BY <2>1
  <2>3. jobDefs[d] \in [config : Nat, made : Configs \cup {Absent}]
    BY <2>1, <2>2, ElementOfSeq
  <2> QED
    BY <2>3
<1> QED
  BY <1>1, <1>2

(* The request of a name: what it was asked for, and what it was made from. *)
LEMMA AskedFacts ==
    ASSUME RoutingInv, NEW d \in DOMAIN jobDefs, NEW name \in routing.names,
           NEW metadata \in Providers \cup {Absent}, NEW loop \in Providers \cup {Absent},
           asked = ModelRequest(d, name, metadata, loop)
    PROVE  /\ asked.name = name /\ asked.def = d /\ asked.loop = loop
           /\ asked.provider = ChosenProvider(name, metadata, loop)
           /\ asked.priced = PriceKey(PriceProvider(name, metadata), name)
           /\ asked.sent <=> ~ReasoningError(name, Payload(ConfigOf(d), name, asked.provider))
           /\ asked.params = Parameters(Payload(ConfigOf(d), name, asked.provider),
                                        Ignored(ConfigOf(d), name, asked.provider))
           /\ name.model # Absent /\ name.levels \in Seq(Nat)
           /\ Candidates = CandidatePaths(asked.provider, name.family, name.model)
<1>1. PICK provider : provider = ChosenProvider(name, metadata, loop)
  OBVIOUS
<1>2. PICK payload : payload = Payload(ConfigOf(d), name, provider)
  OBVIOUS
<1>9. PICK sent \in BOOLEAN : sent = ~ReasoningError(name, payload)
  OBVIOUS
<1>3. asked = [sent |-> sent, def |-> d, name |-> name, loop |-> loop,
               provider |-> provider, model |-> UpstreamModel(name, provider),
               priced |-> PriceKey(PriceProvider(name, metadata), name),
               params |-> Parameters(payload, Ignored(ConfigOf(d), name, provider))]
  BY <1>1, <1>2, <1>9 DEF ModelRequest
<1>4. name.model # Absent /\ name.levels \in Seq(Nat)
  BY RoutingAssumption DEF RoutingInv
<1>5. asked.name = name /\ asked.def = d /\ asked.loop = loop /\ asked.provider = provider
  BY <1>3
<1>6. asked.priced = PriceKey(PriceProvider(name, metadata), name)
  BY <1>3
<1>7. asked.sent <=> ~ReasoningError(name, payload)
  <2>1. asked.sent = sent
    BY <1>3
  <2> QED
    BY <1>9, <2>1
<1>8. asked.params = Parameters(payload, Ignored(ConfigOf(d), name, provider))
  BY <1>3
<1> QED
  BY <1>1, <1>2, <1>4, <1>5, <1>6, <1>7, <1>8 DEF Candidates

LEMMA FirstPresentIs ==
    ASSUME NEW S, NEW names \in Seq(S), NEW i \in DOMAIN names, names[i] # Absent,
           \A k \in DOMAIN names : k < i => names[k] = Absent
    PROVE  FirstPresent(names) = names[i]
<1> DEFINE at == {k \in DOMAIN names : names[k] # Absent}
<1>1. at \subseteq Nat /\ i \in at /\ \A k \in at : i <= k
  OBVIOUS
<1>2. Earliest(at) = i
  <2> HIDE DEF at
  <2> QED
    BY <1>1, EarliestIs
<1> QED
  BY <1>2 DEF FirstPresent

(* Without a provider of the loop, the price is looked up for the provider  *)
(* that the request is sent to.                                             *)
LEMMA SameProvider ==
    ASSUME NEW name, NEW metadata \in Providers \cup {Absent},
           name.provider \in Providers \cup {Absent}
    PROVE  ChosenProvider(name, metadata, Absent) = PriceProvider(name, metadata)
<1>1. PICK p \in Providers \cup {Absent} : p = name.provider
  OBVIOUS
<1> DEFINE longer == <<p, metadata, Absent, DefaultProvider>>
           shorter == <<p, metadata, DefaultProvider>>
<1>2. /\ longer \in Seq(Providers \cup {Absent}) /\ shorter \in Seq(Providers \cup {Absent})
      /\ DOMAIN longer = 1..4 /\ DOMAIN shorter = 1..3
      /\ longer[1] = p /\ longer[2] = metadata /\ longer[3] = Absent
      /\ longer[4] = DefaultProvider /\ shorter[1] = p /\ shorter[2] = metadata
      /\ shorter[3] = DefaultProvider /\ DefaultProvider # Absent
  BY RoutingAssumption
<1> HIDE DEF longer, shorter
<1>3. CASE p # Absent
  <2>1. FirstPresent(longer) = longer[1] /\ FirstPresent(shorter) = shorter[1]
    BY <1>2, <1>3, FirstPresentIs
  <2> QED
    BY <1>1, <1>2, <2>1 DEF ChosenProvider, PriceProvider, longer, shorter
<1>4. CASE p = Absent /\ metadata # Absent
  <2>1. FirstPresent(longer) = longer[2] /\ FirstPresent(shorter) = shorter[2]
    BY <1>2, <1>4, FirstPresentIs
  <2> QED
    BY <1>1, <1>2, <2>1 DEF ChosenProvider, PriceProvider, longer, shorter
<1>5. CASE p = Absent /\ metadata = Absent
  <2>1. FirstPresent(longer) = longer[4] /\ FirstPresent(shorter) = shorter[3]
    BY <1>2, <1>5, FirstPresentIs
  <2> QED
    BY <1>1, <1>2, <2>1 DEF ChosenProvider, PriceProvider, longer, shorter
<1> QED
  BY <1>3, <1>4, <1>5

LEMMA PriceFits == RoutingInv /\ AskedInv => PricedAsSentByDefault
<1> SUFFICES ASSUME RoutingInv, AskedInv, asked # NothingAsked, asked.loop = Absent
             PROVE  asked.priced = PriceKey(asked.provider, asked.name)
  BY DEF PricedAsSentByDefault, PricedAsSent
<1>1. PICK d \in DOMAIN jobDefs, name \in routing.names,
           metadata \in Providers \cup {Absent}, loop \in Providers \cup {Absent} :
        asked = ModelRequest(d, name, metadata, loop)
  BY DEF AskedInv
<1>2. /\ asked.name = name /\ asked.loop = loop
      /\ asked.provider = ChosenProvider(name, metadata, loop)
      /\ asked.priced = PriceKey(PriceProvider(name, metadata), name)
  BY <1>1, AskedFacts
<1>3. name.provider \in Providers \cup {Absent}
  BY RoutingAssumption DEF RoutingInv
<1> QED
  BY <1>2, <1>3, SameProvider

(***************************************************************************)
(* Of the nodes that are of use, the first candidate is the heaviest that   *)
(* applies to the request.                                                  *)
(***************************************************************************)
LEMMA FirstIsHeaviest ==
    ASSUME RoutingInv, AskedInv, asked # NothingAsked, NEW config \in Configs,
           NEW useful, useful \subseteq DOMAIN NodesOf[config],
           NEW found, found = {i \in Present(config, Candidates) : Candidates[i] \in useful},
           NEW paths, paths = {path \in useful : Applies(path)}
    PROVE  /\ paths = {} <=> found = {}
           /\ found # {} => /\ Heaviest(paths) \in paths
                            /\ Heaviest(paths) = Candidates[Earliest(found)]
<1>1. asked.name.model # Absent
  BY AskedFacts DEF AskedInv
<1>2. ASSUME NEW path \in useful
      PROVE  Applies(path) <=> \E i \in DOMAIN Candidates : path = Candidates[i]
  <2>1. path \in Seq(Range(path)) /\ path # <<>>
    BY RoutingAssumption
  <2> QED
    BY <1>1, <2>1, CandidatesApply
<1>3. found \subseteq DOMAIN Candidates
  BY DEF Present
<1>4. ASSUME NEW i \in DOMAIN Candidates, Candidates[i] \in useful
      PROVE  i \in found
  BY <1>4 DEF Present
<1>5. paths = {Candidates[i] : i \in found}
  <2>1. ASSUME NEW path \in paths PROVE \E i \in found : path = Candidates[i]
    BY <1>2, <1>4
  <2>2. ASSUME NEW i \in found PROVE Candidates[i] \in paths
    BY <1>2, <1>3
  <2> QED
    BY <2>1, <2>2
<1>6. found # {} => Earliest(found) \in found /\ Heaviest(paths) = Candidates[Earliest(found)]
  BY <1>3, <1>5, HeaviestIsEarliest
<1> QED
  BY <1>5, <1>6

(* What find_ignored_parameters and find_payload return.                    *)
Lists(config) == {path \in DOMAIN NodesOf[config] : Applies(path) /\ NodesOf[config][path].ignore # None}
LEMMA IgnoredOfHeaviest ==
    ASSUME RoutingInv, AskedInv, asked # NothingAsked, NEW config \in Configs
    PROVE  /\ Lists(config) = {} => FindIgnored(config, Candidates) = {}
           /\ Lists(config) # {} =>
                 /\ Heaviest(Lists(config)) \in Lists(config)
                 /\ FindIgnored(config, Candidates) =
                        Head(NodesOf[config][Heaviest(Lists(config))].ignore)
<1> DEFINE useful == {path \in DOMAIN NodesOf[config] : NodesOf[config][path].ignore # None}
           found == {i \in Present(config, Candidates) : NodesOf[config][Candidates[i]].ignore # None}
<1>1. Lists(config) = {path \in useful : Applies(path)}
  BY DEF Lists
<1>2. FindIgnored(config, Candidates) =
        IF found = {} THEN {} ELSE Head(NodesOf[config][Candidates[Earliest(found)]].ignore)
  BY DEF FindIgnored
<1>3. found = {i \in Present(config, Candidates) : Candidates[i] \in useful}
  BY DEF Present
<1>4. useful \subseteq DOMAIN NodesOf[config]
  OBVIOUS
<1> HIDE DEF found, useful
<1>5. /\ Lists(config) = {} <=> found = {}
      /\ found # {} => /\ Heaviest(Lists(config)) \in Lists(config)
                       /\ Heaviest(Lists(config)) = Candidates[Earliest(found)]
  BY <1>1, <1>3, <1>4, FirstIsHeaviest
<1> QED
  BY <1>2, <1>5

Nodes(config, degree) ==
    {path \in DOMAIN NodesOf[config] :
        Applies(path) /\ MatchingRanges(NodesOf[config][path], degree) # {}}
PayloadOf(node, degree) == node.ranges[Earliest(MatchingRanges(node, degree))].payload
LEMMA PayloadOfHeaviest ==
    ASSUME RoutingInv, AskedInv, asked # NothingAsked, NEW config \in Configs, NEW degree
    PROVE  /\ Nodes(config, degree) = {} => FindPayload(config, Candidates, degree) = None
           /\ Nodes(config, degree) # {} =>
                 /\ Heaviest(Nodes(config, degree)) \in Nodes(config, degree)
                 /\ FindPayload(config, Candidates, degree) =
                        <<PayloadOf(NodesOf[config][Heaviest(Nodes(config, degree))], degree)>>
<1> DEFINE useful == {path \in DOMAIN NodesOf[config] :
                         MatchingRanges(NodesOf[config][path], degree) # {}}
           found == {i \in Present(config, Candidates) :
                        MatchingRanges(NodesOf[config][Candidates[i]], degree) # {}}
<1>1. Nodes(config, degree) = {path \in useful : Applies(path)}
  BY DEF Nodes
<1>2. FindPayload(config, Candidates, degree) =
        IF found = {} THEN None
        ELSE <<PayloadOf(NodesOf[config][Candidates[Earliest(found)]], degree)>>
  BY DEF FindPayload, PayloadOf
<1>3. found = {i \in Present(config, Candidates) : Candidates[i] \in useful}
  BY DEF Present
<1>4. useful \subseteq DOMAIN NodesOf[config]
  OBVIOUS
<1> HIDE DEF found, useful
<1>5. /\ Nodes(config, degree) = {} <=> found = {}
      /\ found # {} => /\ Heaviest(Nodes(config, degree)) \in Nodes(config, degree)
                       /\ Heaviest(Nodes(config, degree)) = Candidates[Earliest(found)]
  BY <1>1, <1>3, <1>4, FirstIsHeaviest
<1> QED
  BY <1>2, <1>5

(* What a request with levels is made of.                                   *)
LEMMA MadeOf ==
    ASSUME RoutingInv, AskedInv, asked.sent
    PROVE  \E payload, ignored :
             /\ asked.params = Parameters(payload, ignored)
             /\ asked.name.levels \in Seq(Nat)
             /\ asked.name.levels # <<>> /\ payload = None => asked.name.levels[1] = 0
             /\ payload = None <=> asked.name.levels = <<>> \/ SilentDefault
             /\ payload = None => ignored = {}
             /\ payload # None =>
                   /\ jobDefs[asked.def].made \in Configs
                   /\ payload = <<PayloadOf(Made[Heaviest(For(asked.name.levels[1]))],
                                            asked.name.levels[1])>>
                   /\ Heaviest(For(asked.name.levels[1])) \in DOMAIN Made
                   /\ MatchingRanges(Made[Heaviest(For(asked.name.levels[1]))],
                                     asked.name.levels[1]) # {}
                   /\ Lists(jobDefs[asked.def].made) = {} => ignored = {}
                   /\ Lists(jobDefs[asked.def].made) # {} =>
                        /\ Heaviest(Lists(jobDefs[asked.def].made))
                               \in Lists(jobDefs[asked.def].made)
                        /\ ignored = Head(Made[Heaviest(Lists(jobDefs[asked.def].made))].ignore)
<1>1. asked # NothingAsked
  BY DEF NothingAsked
<1>2. PICK d \in DOMAIN jobDefs, name \in routing.names,
           metadata \in Providers \cup {Absent}, loop \in Providers \cup {Absent} :
        asked = ModelRequest(d, name, metadata, loop)
  BY <1>1 DEF AskedInv
<1>3. /\ asked.name = name /\ asked.def = d /\ name.levels \in Seq(Nat)
      /\ asked.sent <=> ~ReasoningError(name, Payload(ConfigOf(d), name, asked.provider))
      /\ asked.params = Parameters(Payload(ConfigOf(d), name, asked.provider),
                                   Ignored(ConfigOf(d), name, asked.provider))
      /\ Candidates = CandidatePaths(asked.provider, name.family, name.model)
  BY <1>2, AskedFacts
<1>4. PICK config \in Configs \cup {Absent} : config = ConfigOf(d) /\ config = jobDefs[asked.def].made
  BY <1>3, ConfigIsKept
<1>5. PICK payload : payload = Payload(config, name, asked.provider)
  OBVIOUS
<1>6. PICK ignored : ignored = Ignored(config, name, asked.provider)
  OBVIOUS
<1>7. asked.params = Parameters(payload, ignored) /\ ~ReasoningError(name, payload)
  BY <1>3, <1>4, <1>5, <1>6
<1>8. name.levels # <<>> /\ payload = None => name.levels[1] = 0
  <2>1. name.levels # <<>> => name.levels[1] \in Nat
    BY <1>3
  <2> QED
    BY <1>7, <2>1 DEF ReasoningError
<1>9. CASE name.levels = <<>>
  <2>1. payload = None /\ ignored = {}
    BY <1>5, <1>6, <1>9 DEF Payload, Ignored
  <2> QED
    BY <1>3, <1>7, <1>9, <2>1
<1>10. CASE name.levels # <<>> /\ config = Absent
  <2>1. payload = None /\ ignored = {}
    BY <1>5, <1>6, <1>10 DEF Payload, Ignored
  <2>2. SilentDefault
    BY <1>4, <1>10 DEF SilentDefault, Unconfigured
  <2> QED
    BY <1>3, <1>7, <1>8, <2>1, <2>2
<1>11. CASE name.levels # <<>> /\ config # Absent
  <2>1. PICK degree : degree = name.levels[1]
    OBVIOUS
  <2>2. payload = FindPayload(config, Candidates, degree) /\ config \in Configs
    BY <1>3, <1>5, <1>11, <2>1 DEF Payload
  <2>3. For(degree) = Nodes(config, degree) /\ Made = NodesOf[config]
    BY <1>3, <1>4 DEF For, Nodes, Made, MatchingRanges
  <2>4. SilentDefault <=> For(degree) = {}
    BY <1>3, <1>4, <1>11, <2>1 DEF SilentDefault, Unconfigured
  <2>5. payload = None <=> SilentDefault
    BY <1>1, <2>2, <2>3, <2>4, PayloadOfHeaviest DEF None
  <2>6. payload = None => ignored = {}
    BY <1>5, <1>6 DEF Ignored
  <2>7. ASSUME payload # None
        PROVE  /\ payload = <<PayloadOf(Made[Heaviest(For(degree))], degree)>>
               /\ Heaviest(For(degree)) \in DOMAIN Made
               /\ MatchingRanges(Made[Heaviest(For(degree))], degree) # {}
    BY <1>1, <2>2, <2>3, <2>4, <2>5, <2>7, PayloadOfHeaviest DEF Nodes
  <2>8. payload # None => ignored = FindIgnored(config, Candidates)
    BY <1>3, <1>5, <1>6 DEF Ignored
  <2>9. /\ payload # None /\ Lists(config) = {} => ignored = {}
        /\ payload # None /\ Lists(config) # {} =>
              /\ Heaviest(Lists(config)) \in Lists(config)
              /\ ignored = Head(Made[Heaviest(Lists(config))].ignore)
    BY <1>1, <2>2, <2>3, <2>8, IgnoredOfHeaviest
  <2>10. jobDefs[asked.def].made = config
    BY <1>4
  <2> WITNESS payload, ignored
  <2> QED
    BY <1>3, <1>7, <1>8, <1>11, <2>1, <2>2, <2>5, <2>6, <2>7, <2>9, <2>10
<1> QED
  BY <1>9, <1>10, <1>11

LEMMA LevelFits == RoutingInv /\ AskedInv => LevelIsHonoured
<1> SUFFICES ASSUME RoutingInv, AskedInv, asked.sent, asked.name.levels # <<>>
             PROVE  LevelIsHonoured
  BY DEF LevelIsHonoured, Wants
<1>1. PICK degree : degree = asked.name.levels[1]
  OBVIOUS
<1>2. PICK payload, ignored :
        /\ asked.params = Parameters(payload, ignored)
        /\ payload = None => degree = 0
        /\ payload = None <=> SilentDefault
        /\ payload # None =>
              /\ payload = <<PayloadOf(Made[Heaviest(For(degree))], degree)>>
              /\ Heaviest(For(degree)) \in DOMAIN Made
              /\ MatchingRanges(Made[Heaviest(For(degree))], degree) # {}
              /\ Lists(jobDefs[asked.def].made) = {} => ignored = {}
              /\ Lists(jobDefs[asked.def].made) # {} =>
                   /\ Heaviest(Lists(jobDefs[asked.def].made)) \in Lists(jobDefs[asked.def].made)
                   /\ ignored = Head(Made[Heaviest(Lists(jobDefs[asked.def].made))].ignore)
              /\ jobDefs[asked.def].made \in Configs
  BY <1>1, MadeOf
<1>3. CASE SilentDefault
  BY <1>1, <1>2, <1>3 DEF LevelIsHonoured
<1>4. CASE ~SilentDefault
  <2> DEFINE node == Made[Heaviest(For(degree))]
             range == CHOOSE i \in DOMAIN node.ranges :
                          /\ InRange(node.ranges[i], degree)
                          /\ \A k \in 1..i - 1 : ~InRange(node.ranges[k], degree)
             at == MatchingRanges(node, degree)
  <2>1. range = Earliest(at)
    <3>1. /\ at # {} /\ at \subseteq DOMAIN node.ranges
          /\ \A i \in DOMAIN node.ranges : i \in at <=> InRange(node.ranges[i], degree)
      BY <1>2, <1>4 DEF MatchingRanges
    <3>2. node.ranges \in Seq(Range(node.ranges))
      BY <1>2, <1>4, RoutingAssumption DEF Made
    <3> HIDE DEF at, node
    <3>3. DOMAIN node.ranges = 1..Len(node.ranges) /\ Len(node.ranges) \in Nat
      BY <3>2
    <3>4. PICK e \in at : e = Earliest(at) /\ \A k \in at : e <= k
      BY <3>1, <3>3, EarliestIsFirst
    <3>5. \A k \in 1..e - 1 : k \notin at
      BY <3>1, <3>3, <3>4
    <3>6. \A k \in 1..e - 1 : ~InRange(node.ranges[k], degree)
      BY <3>1, <3>3, <3>4, <3>5
    <3>7. ASSUME NEW i \in DOMAIN node.ranges, InRange(node.ranges[i], degree),
                 \A k \in 1..i - 1 : ~InRange(node.ranges[k], degree)
          PROVE  i = e
      <4>1. i \in at /\ e <= i /\ InRange(node.ranges[e], degree)
        BY <3>1, <3>4, <3>7
      <4>2. e \notin 1..i - 1 /\ e \in 1..Len(node.ranges) /\ i \in 1..Len(node.ranges)
        BY <3>1, <3>3, <3>4, <3>7, <4>1
      <4> QED
        BY <3>3, <4>1, <4>2
    <3>8. e \in DOMAIN node.ranges /\ InRange(node.ranges[e], degree)
      BY <3>1, <3>4
    <3> QED
      BY <3>4, <3>6, <3>7, <3>8
  <2>2. payload = <<node.ranges[range].payload>>
    BY <1>2, <1>4, <2>1 DEF PayloadOf
  <2>3. PICK set : set = node.ranges[range].payload
    OBVIOUS
  <2> HIDE DEF range, node, at
  <2>4. Merged(payload) = [k \in Base \cup set |-> IF k \in set THEN "config" ELSE "job"]
    BY <2>2, <2>3 DEF Merged, None
  <2>5. /\ DOMAIN asked.params = {k \in Base \cup set : ~\E i \in DOMAIN k : k[i] \in ignored}
        /\ \A k \in DOMAIN asked.params : asked.params[k] = IF k \in set THEN "config" ELSE "job"
    BY <1>2, <2>4 DEF Parameters
  <2>6. {k \in DOMAIN asked.params : asked.params[k] = "config"} \subseteq set
    BY <2>5
  <2>7. ASSUME NEW k \in set
        PROVE  \/ k \in DOMAIN asked.params
               \/ \E path \in DOMAIN Made : \E i \in DOMAIN k :
                     Applies(path) /\ Made[path].ignore # None /\ k[i] \in Head(Made[path].ignore)
    <3>1. CASE \E i \in DOMAIN k : k[i] \in ignored
      <4>1. PICK i \in DOMAIN k : k[i] \in ignored
        BY <3>1
      <4>2. PICK path : path = Heaviest(Lists(jobDefs[asked.def].made))
        OBVIOUS
      <4>3. path \in Lists(jobDefs[asked.def].made) /\ k[i] \in Head(Made[path].ignore)
        BY <1>2, <1>4, <4>1, <4>2
      <4>4. path \in DOMAIN Made /\ Applies(path) /\ Made[path].ignore # None
        BY <4>3 DEF Lists, Made
      <4> QED
        BY <4>1, <4>3, <4>4
    <3>2. CASE ~\E i \in DOMAIN k : k[i] \in ignored
      BY <2>5, <3>2
    <3> QED
      BY <3>1, <3>2
  <2> QED
    BY <1>1, <1>4, <2>3, <2>6, <2>7 DEF LevelIsHonoured, range, node
<1> QED
  BY <1>3, <1>4

LEMMA ConflictsAreOut == RoutingInv /\ AskedInv => ConflictsAreRemoved
<1> SUFFICES ASSUME RoutingInv, AskedInv, asked.sent
             PROVE  ConflictsAreRemoved
  BY DEF ConflictsAreRemoved
<1> DEFINE made == jobDefs[asked.def].made
<1>1. PICK payload, ignored :
        /\ asked.params = Parameters(payload, ignored)
        /\ payload = None <=> asked.name.levels = <<>> \/ SilentDefault
        /\ payload = None => ignored = {}
        /\ payload # None =>
              /\ Lists(made) = {} => ignored = {}
              /\ Lists(made) # {} => ignored = Head(Made[Heaviest(Lists(made))].ignore)
  BY MadeOf
<1>2. PICK set : set = IF payload = None THEN {} ELSE payload[1]
  OBVIOUS
<1>3. Merged(payload) = [k \in Base \cup set |-> IF k \in set THEN "config" ELSE "job"]
  BY <1>2 DEF Merged
<1>4. DOMAIN asked.params = {k \in Base \cup set : ~\E i \in DOMAIN k : k[i] \in ignored}
  BY <1>1, <1>3 DEF Parameters
<1> DEFINE reasons == asked.name.levels # <<>> /\ ~SilentDefault
           lists == IF reasons
                    THEN {path \in DOMAIN Made : Applies(path) /\ Made[path].ignore # None}
                    ELSE {}
<1>5. lists = IF reasons THEN Lists(made) ELSE {}
  BY DEF Lists, Made
<1>6. reasons <=> payload # None
  BY <1>1
<1> HIDE DEF made, lists, reasons
<1>7. lists = {} => Base \subseteq DOMAIN asked.params
  <2>1. lists = {} => ignored = {}
    BY <1>1, <1>5, <1>6
  <2> QED
    BY <1>4, <2>1
<1>8. lists # {} => \A k \in DOMAIN asked.params : \A i \in DOMAIN k :
                      k[i] \notin Head(Made[Heaviest(lists)].ignore)
  <2>1. lists # {} => ignored = Head(Made[Heaviest(lists)].ignore)
    BY <1>1, <1>5, <1>6
  <2> QED
    BY <1>4, <2>1
<1> QED
  BY <1>7, <1>8 DEF ConflictsAreRemoved, lists, reasons

(***************************************************************************)
(* The invariant holds from the start and in every step.                    *)
(***************************************************************************)
LEMMA RoutingStart == MrInit => RoutingInv /\ AskedInv
<1> SUFFICES ASSUME MrInit PROVE RoutingInv /\ AskedInv
  OBVIOUS
<1>1. /\ routing \in RoutingSetups /\ file \in Configs \cup {Absent}
      /\ jobDefs = <<>> /\ asked = NothingAsked
  BY DEF MrInit
<1>2. snapshots = <<>> \/ \E c \in Configs : snapshots = <<[content |-> c, tagged |-> FALSE]>>
  BY DEF MrInit
<1>3. /\ snapshots \in Seq([content : Configs, tagged : BOOLEAN])
      /\ \A i, k \in DOMAIN snapshots : snapshots[i].content = snapshots[k].content => i = k
  <2>1. CASE snapshots = <<>>
    BY <2>1
  <2>2. ASSUME NEW c \in Configs, snapshots = <<[content |-> c, tagged |-> FALSE]>>
        PROVE  <1>3
    <3> DEFINE r == [content |-> c, tagged |-> FALSE]
    <3>1. r \in [content : Configs, tagged : BOOLEAN]
      OBVIOUS
    <3> HIDE DEF r
    <3>2. snapshots = <<r>>
      BY <2>2 DEF r
    <3> QED
      BY <3>1, <3>2
  <2> QED
    BY <1>2, <2>1, <2>2
<1>4. jobDefs \in Seq([config : Nat, made : Configs \cup {Absent}]) /\ DOMAIN jobDefs = {}
  BY <1>1
<1> QED
  BY <1>1, <1>3, <1>4 DEF RoutingInv, AskedInv, SnapshotsAreSharedAndKept

(* A job definition is appended with a snapshot of the content of the file. *)
LEMMA DefIsAdded ==
    ASSUME RoutingInv, NEW config \in Nat, file = Absent <=> config = 0,
           jobDefs' = Append(jobDefs, [config |-> config, made |-> file]),
           UNCHANGED <<routing, file>>,
           snapshots' \in Seq([content : Configs, tagged : BOOLEAN]),
           Len(snapshots) <= Len(snapshots'), config <= Len(snapshots'),
           \A i \in DOMAIN snapshots : snapshots'[i].content = snapshots[i].content,
           \A i, k \in DOMAIN snapshots' : snapshots'[i].content = snapshots'[k].content => i = k,
           config # 0 => snapshots'[config].content = file
    PROVE  RoutingInv'
<1> DEFINE D == [config : Nat, made : Configs \cup {Absent}]
           new == [config |-> config, made |-> file]
<1>1. /\ routing \in RoutingSetups /\ file \in Configs \cup {Absent} /\ jobDefs \in Seq(D)
      /\ snapshots \in Seq([content : Configs, tagged : BOOLEAN])
      /\ \A d \in DOMAIN jobDefs : jobDefs[d].config \in 0..Len(snapshots)
      /\ \A d \in DOMAIN jobDefs :
            jobDefs[d].made = IF jobDefs[d].config = 0 THEN Absent
                              ELSE snapshots[jobDefs[d].config].content
  BY DEF RoutingInv, SnapshotsAreSharedAndKept
<1>2. new \in D /\ new.config = config /\ new.made = file
  BY <1>1
<1>3. Len(snapshots) \in Nat /\ Len(snapshots') \in Nat /\ DOMAIN snapshots = 1..Len(snapshots)
  BY <1>1
<1> HIDE DEF new, D
<1>4. /\ jobDefs' \in Seq(D) /\ DOMAIN jobDefs' = 1..Len(jobDefs) + 1
      /\ Len(jobDefs) \in Nat /\ DOMAIN jobDefs = 1..Len(jobDefs)
      /\ \A d \in 1..Len(jobDefs) : jobDefs'[d] = jobDefs[d]
      /\ jobDefs'[Len(jobDefs) + 1] = new
  BY <1>1, <1>2 DEF new
<1>5. ASSUME NEW d \in DOMAIN jobDefs'
      PROVE  /\ jobDefs'[d].config \in 0..Len(snapshots')
             /\ jobDefs'[d].made = IF jobDefs'[d].config = 0 THEN Absent
                                   ELSE snapshots'[jobDefs'[d].config].content
  <2>1. CASE d = Len(jobDefs) + 1
    BY <1>2, <1>3, <1>4, <2>1
  <2>2. CASE d \in DOMAIN jobDefs
    <3>1. PICK c \in 0..Len(snapshots) : c = jobDefs[d].config
      BY <1>1, <2>2
    <3>2. jobDefs'[d] = jobDefs[d]
      BY <1>4, <2>2
    <3>3. c # 0 => c \in DOMAIN snapshots
      BY <1>3
    <3>4. c \in 0..Len(snapshots')
      BY <1>3
    <3> QED
      BY <1>1, <2>2, <3>1, <3>2, <3>3, <3>4, SMTT(30)
  <2> QED
    BY <1>4, <2>1, <2>2
<1> QED
  BY <1>1, <1>4, <1>5 DEF RoutingInv, SnapshotsAreSharedAndKept, D

LEMMA RoutingStep == RoutingInv /\ [MrNext]_mrVars => RoutingInv'
<1> SUFFICES ASSUME RoutingInv, [MrNext]_mrVars PROVE RoutingInv'
  OBVIOUS
<1> DEFINE R == [content : Configs, tagged : BOOLEAN]
<1>1. /\ snapshots \in Seq(R) /\ file \in Configs \cup {Absent}
      /\ \A i, k \in DOMAIN snapshots : snapshots[i].content = snapshots[k].content => i = k
      /\ Len(snapshots) \in Nat /\ DOMAIN snapshots = 1..Len(snapshots)
  BY DEF RoutingInv, SnapshotsAreSharedAndKept
<1>2. CASE UNCHANGED mrVars \/ ChangeFile \/ SendModelRequest \/ SetPrice \/ SetCard
  <2>1. UNCHANGED <<routing, snapshots, jobDefs>> /\ file' \in Configs \cup {Absent}
    BY <1>1, <1>2 DEF mrVars, ChangeFile, SendModelRequest, SetPrice, SetCard
  <2> QED
    BY <2>1 DEF RoutingInv, SnapshotsAreSharedAndKept
<1>3. CASE CreateJobDef
  <2>1. UNCHANGED <<routing, file>>
    BY <1>3 DEF CreateJobDef
  <2>2. CASE file = Absent
    <3>1. jobDefs' = Append(jobDefs, [config |-> 0, made |-> file]) /\ snapshots' = snapshots
      BY <1>3, <2>2 DEF CreateJobDef
    <3> QED
      <4>1. PICK n \in Nat : n = 0
        OBVIOUS
      <4>2. /\ (file = Absent <=> n = 0) /\ n <= Len(snapshots')
            /\ snapshots' \in Seq([content : Configs, tagged : BOOLEAN])
            /\ Len(snapshots) <= Len(snapshots')
            /\ \A i \in DOMAIN snapshots : snapshots'[i].content = snapshots[i].content
            /\ \A m, k \in DOMAIN snapshots' : snapshots'[m].content = snapshots'[k].content => m = k
            /\ n # 0 => snapshots'[n].content = file
        BY <1>1, <2>2, <3>1, <4>1
      <4>3. jobDefs' = Append(jobDefs, [config |-> n, made |-> file])
        BY <3>1, <4>1
      <4> QED
        BY <2>1, <4>2, <4>3, DefIsAdded
  <2>3. ASSUME file # Absent, NEW i \in Reusable(file),
               jobDefs' = Append(jobDefs, [config |-> i, made |-> file]),
               snapshots' = [snapshots EXCEPT ![i].tagged = TRUE]
        PROVE  RoutingInv'
    <3>1. i \in DOMAIN snapshots /\ snapshots[i].content = file
      BY DEF Reusable, WithTag, SameContent
    <3>2. snapshots[i] \in R
      BY <1>1, <3>1, ElementOfSeq
    <3>3. [snapshots[i] EXCEPT !.tagged = TRUE] \in R
      BY <3>2
    <3>4. [snapshots[i] EXCEPT !.tagged = TRUE].content = file
      BY <3>1, <3>2
    <3>5. PICK r \in R : r = [snapshots[i] EXCEPT !.tagged = TRUE] /\ r.content = file
      BY <3>3, <3>4
    <3>6. snapshots' = [snapshots EXCEPT ![i] = r]
      BY <2>3, <3>5
    <3> HIDE DEF R
    <3>7. snapshots' \in Seq(R) /\ Len(snapshots') = Len(snapshots) /\ DOMAIN snapshots' = DOMAIN snapshots
      BY <1>1, <3>1, <3>6
    <3>8. /\ snapshots'[i] = r
          /\ \A k \in DOMAIN snapshots : k # i => snapshots'[k] = snapshots[k]
      BY <1>1, <3>1, <3>6
    <3>9. \A k \in DOMAIN snapshots : snapshots'[k].content = snapshots[k].content
      BY <3>1, <3>5, <3>8
    <3>10. i \in Nat /\ i # 0 /\ i <= Len(snapshots') /\ snapshots'[i].content = file
      BY <1>1, <3>1, <3>5, <3>7, <3>8
    <3> QED
      <4>1. /\ i \in Nat /\ (file = Absent <=> i = 0) /\ i <= Len(snapshots')
            /\ snapshots' \in Seq([content : Configs, tagged : BOOLEAN])
            /\ Len(snapshots) <= Len(snapshots')
            /\ \A m, k \in DOMAIN snapshots' : snapshots'[m].content = snapshots'[k].content => m = k
            /\ i # 0 => snapshots'[i].content = file
        BY <1>1, <2>3, <3>7, <3>9, <3>10 DEF R
      <4> QED
        BY <2>1, <2>3, <3>9, <4>1, DefIsAdded
  <2>4. ASSUME file # Absent, Reusable(file) = {},
               snapshots' = Append(snapshots, [content |-> file, tagged |-> TRUE]),
               jobDefs' = Append(jobDefs, [config |-> Len(snapshots) + 1, made |-> file])
        PROVE  RoutingInv'
    <3>1. \A i \in DOMAIN snapshots : snapshots[i].content # file
      BY <2>4 DEF Reusable, WithTag, SameContent
    <3>10. PICK r : r = [content |-> file, tagged |-> TRUE]
      OBVIOUS
    <3>2. r \in R /\ r.content = file
      BY <1>1, <2>4, <3>10
    <3>3. PICK n \in Nat : n = Len(snapshots)
      BY <1>1
    <3> HIDE DEF R
    <3>4. /\ snapshots' \in Seq(R) /\ Len(snapshots') = n + 1 /\ DOMAIN snapshots' = 1..n + 1
          /\ snapshots'[n + 1] = r /\ \A i \in 1..n : snapshots'[i] = snapshots[i]
      BY <1>1, <2>4, <3>2, <3>3, <3>10
    <3>5. \A i, k \in 1..n + 1 : snapshots'[i].content = snapshots'[k].content => i = k
      <4> SUFFICES ASSUME NEW i \in 1..n + 1, NEW k \in 1..n + 1,
                          snapshots'[i].content = snapshots'[k].content
                   PROVE  i = k
        OBVIOUS
      <4>1. CASE i \in 1..n /\ k \in 1..n
        BY <1>1, <3>3, <3>4, <4>1
      <4>2. CASE i = n + 1 /\ k \in 1..n
        BY <1>1, <3>1, <3>2, <3>3, <3>4, <4>2
      <4>3. CASE i \in 1..n /\ k = n + 1
        BY <1>1, <3>1, <3>2, <3>3, <3>4, <4>3
      <4> QED
        BY <4>1, <4>2, <4>3
    <3>6. \A i \in DOMAIN snapshots : snapshots'[i].content = snapshots[i].content
      BY <1>1, <3>3, <3>4
    <3>7. n + 1 \in Nat /\ n + 1 # 0 /\ snapshots'[n + 1].content = file
      BY <3>2, <3>4
    <3>8. jobDefs' = Append(jobDefs, [config |-> n + 1, made |-> file])
      BY <2>4, <3>3
    <3> QED
      <4>1. /\ n + 1 \in Nat /\ (file = Absent <=> n + 1 = 0) /\ n + 1 <= Len(snapshots')
            /\ snapshots' \in Seq([content : Configs, tagged : BOOLEAN])
            /\ Len(snapshots) <= Len(snapshots')
            /\ \A i, k \in DOMAIN snapshots' : snapshots'[i].content = snapshots'[k].content => i = k
            /\ n + 1 # 0 => snapshots'[n + 1].content = file
        BY <2>4, <3>3, <3>4, <3>5, <3>7 DEF R
      <4> QED
        BY <2>1, <3>6, <3>8, <4>1, DefIsAdded
  <2> QED
    BY <1>3, <2>2, <2>3, <2>4 DEF CreateJobDef
<1> QED
  BY <1>2, <1>3 DEF MrNext

LEMMA AskedStep == AskedInv /\ [MrNext]_mrVars => AskedInv'
<1> SUFFICES ASSUME AskedInv, [MrNext]_mrVars PROVE AskedInv'
  OBVIOUS
<1>1. CASE ChangeFile \/ CreateJobDef \/ SetPrice \/ SetCard
  BY <1>1 DEF ChangeFile, CreateJobDef, SetPrice, SetCard, AskedInv, NothingAsked
<1>2. ASSUME UNCHANGED <<routing, snapshots, jobDefs>>, NEW d, NEW name, NEW metadata, NEW loop
      PROVE  ModelRequest(d, name, metadata, loop)' = ModelRequest(d, name, metadata, loop)
  BY <1>2 DEF ModelRequest, ConfigOf
<1>3. CASE UNCHANGED mrVars
  <2>1. UNCHANGED <<routing, snapshots, jobDefs, asked>>
    BY <1>3 DEF mrVars
  <2>2. CASE asked = NothingAsked
    BY <2>1, <2>2 DEF AskedInv, NothingAsked
  <2>3. CASE asked # NothingAsked
    <3>1. PICK d \in DOMAIN jobDefs, name \in routing.names,
               metadata \in Providers \cup {Absent}, loop \in Providers \cup {Absent} :
            asked = ModelRequest(d, name, metadata, loop)
      BY <2>3 DEF AskedInv
    <3>2. asked' = ModelRequest(d, name, metadata, loop)'
      BY <1>2, <2>1, <3>1
    <3> QED
      BY <2>1, <3>1, <3>2 DEF AskedInv
  <2> QED
    BY <2>2, <2>3
<1>4. CASE SendModelRequest
  <2>1. UNCHANGED <<routing, snapshots, jobDefs>>
    BY <1>4 DEF SendModelRequest
  <2>2. PICK d \in DOMAIN jobDefs, name \in routing.names,
             metadata \in Providers \cup {Absent}, loop \in Providers \cup {Absent} :
          asked' = ModelRequest(d, name, metadata, loop)
    BY <1>4 DEF SendModelRequest
  <2>3. asked' = ModelRequest(d, name, metadata, loop)'
    BY <1>2, <2>1, <2>2
  <2> QED
    BY <2>1, <2>2, <2>3 DEF AskedInv
<1> QED
  BY <1>1, <1>3, <1>4 DEF MrNext

(* llm_api.py, provider_config.py, model_pricing.py: whatever the           *)
(* configurations and the names of models are, a request has the reasoning  *)
(* parameters of the most specific node for its degree, nothing that         *)
(* conflicts with them, and the price of its model; and a job keeps the     *)
(* configuration it was created with.                                       *)
THEOREM RequestsFit == MrSpec => []RequestsFitTheirModel
<1>1. RoutingInv /\ AskedInv => RequestsFitTheirModel
  BY LevelFits, ConflictsAreOut, PriceFits DEF RequestsFitTheirModel, RoutingInv
<1> QED
  BY <1>1, RoutingStart, RoutingStep, AskedStep, PTL DEF MrSpec

-----------------------------------------------------------------------------
(***************************************************************************)
(* Whatever levels, examples and reserves a job has: one request has one    *)
(* level, and levels are raised within their budget.                        *)
(***************************************************************************)

-----------------------------------------------------------------------------
(* Types.                                                                  *)
Change == [from: Levels, to: Levels, usage: Nat]
Difficulties == [last: 0..3, changes: Seq(Change)]
Roles == DOMAIN job.examples
DiffTypes ==
    /\ job \in DiffSetups
    /\ level \in Difficulties
    /\ shown \in [id: Int, role: Roles, local: Int]
    /\ usage \in Nat /\ completions \in Nat
    /\ progress \in {"running", "asking", "awaiting", "done", "failed"}

LEMMA SetupTypes ==
    ASSUME job \in DiffSetups
    PROVE  /\ job.static \in Levels /\ job.base \in Nat /\ job.extra \in Nat
           /\ job.declared \in Seq([role: Roles, levels: SUBSET Levels])
           /\ Receiver \in Roles
           /\ \A role \in Roles : job.examples[role] \in Seq(0..3)
    BY DifficultyAssumption DEF Roles

LEMMA ExampleLevelType ==
    ASSUME job \in DiffSetups, NEW role \in Roles, NEW id
    PROVE  ExampleLevel(role, id) \in 0..3
    BY SetupTypes DEF ExampleLevel

LEMMA BaseLevelType ==
    ASSUME job \in DiffSetups, NEW lv \in Difficulties
    PROVE  BaseLevel(lv) \in Levels
    BY SetupTypes DEF BaseLevel, Difficulties, Levels

(***************************************************************************)
(* The list of examples: the receiver's own come first, under their own    *)
(* numbers, and a donor's have numbers beyond them.                        *)
(***************************************************************************)
LEMMA RoleType == ASSUME job \in DiffSetups, NEW g \in DOMAIN job.declared PROVE Role(g) \in Roles
<1> DEFINE Groups == [role: Roles, levels: SUBSET Levels]
           declared == job.declared
<1>1. declared \in Seq(Groups)
    BY SetupTypes
<1>2. declared[g] \in Groups
  <2> HIDE DEF Groups, declared
  <2>1. g \in DOMAIN declared
    BY DEF declared
  <2>2. QED
    BY <1>1, <2>1
<1>3. QED
    BY <1>2 DEF Role

LEMMA AheadFinite ==
    ASSUME job \in DiffSetups, NEW lv, NEW g
    PROVE  Cardinality(ExamplesAhead(lv, g)) \in Nat
<1> DEFINE ahead == {d \in Donors(lv) : Before(d, g)}
           parts == {{h} \X DOMAIN job.examples[Role(h)] : h \in ahead}
<1>1. job.declared \in Seq([role: Roles, levels: SUBSET Levels])
    BY SetupTypes
<1>2. DOMAIN job.declared = 1..Len(job.declared) /\ Len(job.declared) \in Nat
    BY <1>1
<1>3. IsFiniteSet(DOMAIN job.declared)
    BY <1>2, FS_Interval
<1>4. ahead \subseteq DOMAIN job.declared
    BY DEF Donors, Active
<1>5. IsFiniteSet(ahead)
    BY <1>3, <1>4, FS_Subset
<1>6. IsFiniteSet(parts)
  <2> DEFINE part == [h \in ahead |-> {h} \X DOMAIN job.examples[Role(h)]]
  <2>1. part \in Surjection(ahead, parts)
    BY DEF Surjection
  <2>2. QED
    BY <1>5, <2>1, FS_Surjection
<1>7. ASSUME NEW h \in ahead PROVE IsFiniteSet({h} \X DOMAIN job.examples[Role(h)])
  <2>1. job.examples[Role(h)] \in Seq(0..3)
    BY <1>4, RoleType, SetupTypes
  <2>2. IsFiniteSet(DOMAIN job.examples[Role(h)])
    BY <2>1, FS_Interval
  <2>3. IsFiniteSet({h})
    BY FS_Singleton
  <2>4. QED
    BY <2>2, <2>3, FS_Product
<1>8. IsFiniteSet(UNION parts)
    BY <1>6, <1>7, FS_UNION
<1>9. QED
    BY <1>8, FS_CardinalityType DEF ExamplesAhead

LEMMA NumberedType ==
    ASSUME job \in DiffSetups, NEW first \in Nat, NEW role \in Roles,
           NEW example \in Numbered(first, role)
    PROVE  /\ example \in [id: Nat, role: Roles, local: Nat]
           /\ example.role = role /\ example.id = first + example.local
<1>1. job.examples[role] \in Seq(0..3)
    BY SetupTypes
<1>2. PICK n \in DOMAIN job.examples[role] :
          example = [id |-> first + n - 1, role |-> role, local |-> n - 1]
    BY DEF Numbered
<1>3. n \in Nat \ {0}
    BY <1>1
<1>4. QED
    BY <1>2, <1>3

(* What a shown example may be.                                            *)
Own(example) == example.role = Receiver /\ example.local = example.id
Donated(example) == example.role # Receiver /\ example.id >= Len(job.examples[Receiver])
LEMMA SourcedExamplesType ==
    ASSUME job \in DiffSetups, NEW lv, NEW example \in SourcedExamples(lv)
    PROVE  /\ example \in [id: Nat, role: Roles, local: Nat]
           /\ Own(example) \/ Donated(example)
<1>1. Receiver \in Roles /\ Len(job.examples[Receiver]) \in Nat
    BY SetupTypes
<1>2. CASE example \in Numbered(0, Receiver)
    BY <1>1, <1>2, NumberedType DEF Own
<1>3. ASSUME NEW g \in Donors(lv),
             example \in Numbered(Len(job.examples[Receiver]) + Cardinality(ExamplesAhead(lv, g)),
                                  Role(g))
      PROVE  /\ example \in [id: Nat, role: Roles, local: Nat]
             /\ Own(example) \/ Donated(example)
  <2> DEFINE first == Len(job.examples[Receiver]) + Cardinality(ExamplesAhead(lv, g))
  <2>1. first \in Nat /\ first >= Len(job.examples[Receiver])
    BY <1>1, AheadFinite
  <2>2. Role(g) \in Roles /\ Role(g) # Receiver
    BY RoleType DEF Donors, Active
  <2> HIDE DEF first
  <2>3. example \in Numbered(first, Role(g))
    BY <1>3 DEF first
  <2>4. /\ example \in [id: Nat, role: Roles, local: Nat]
        /\ example.role = Role(g) /\ example.id = first + example.local
    BY <2>1, <2>2, <2>3, NumberedType
  <2>5. QED
    BY <1>1, <2>1, <2>2, <2>4 DEF Donated
<1>4. QED
    BY <1>2, <1>3 DEF SourcedExamples

(***************************************************************************)
(* Resolution.  Whatever the level at which the source of the shown        *)
(* example is looked up, the answer is the level of that example or none:  *)
(* the fallback reads a donor's number, which is beyond the receiver's     *)
(* list.  So asking again changes nothing.                                 *)
(***************************************************************************)
ShownLevel ==
    IF shown.id = -1 THEN ExampleLevel(Receiver, job.default)
                     ELSE ExampleLevel(shown.role, shown.local)
ShownIsListed == shown.id = -1 \/ (shown.id \in Nat /\ (Own(shown) \/ Donated(shown)))

LEMMA WantedIsShown ==
    ASSUME DiffTypes, ShownIsListed, NEW lv \in Difficulties
    PROVE  Wanted(lv) \in {ShownLevel, 0} /\ Wanted(lv) \in 0..3
<1>1. job \in DiffSetups /\ Receiver \in Roles /\ shown.role \in Roles
    BY SetupTypes DEF DiffTypes
<1>2. job.examples[Receiver] \in Seq(0..3)
    BY <1>1, SetupTypes
<1>3. CASE shown.id = -1
  <2>1. Wanted(lv) = ShownLevel
    BY <1>3 DEF Wanted, SourceFor, ShownLevel
  <2>2. QED
    BY <1>1, <1>3, <2>1, ExampleLevelType DEF ShownLevel
<1>4. CASE shown.id # -1 /\ shown.role \in ActiveRoles(BaseLevel(lv)) /\ shown.role \in job.configured
  <2>1. Wanted(lv) = ShownLevel
    BY <1>4 DEF Wanted, SourceFor, ShownLevel
  <2>2. QED
    BY <1>1, <1>4, <2>1, ExampleLevelType DEF ShownLevel
<1>5. CASE shown.id # -1 /\ ~(shown.role \in ActiveRoles(BaseLevel(lv)) /\ shown.role \in job.configured)
  <2>1. Wanted(lv) = ExampleLevel(Receiver, shown.id)
    BY <1>5 DEF Wanted, SourceFor
  <2>2. CASE Own(shown)
    BY <1>1, <1>5, <2>1, <2>2, ExampleLevelType DEF Own, ShownLevel
  <2>3. CASE Donated(shown) /\ shown.id \in Nat
    <3>1. shown.id + 1 \notin DOMAIN job.examples[Receiver]
      BY <1>2, <2>3 DEF Donated
    <3>2. QED
      BY <2>1, <3>1 DEF ExampleLevel
  <2>4. QED
    BY <1>5, <2>2, <2>3 DEF ShownIsListed
<1>6. QED
    BY <1>3, <1>4, <1>5

(* How a level can move: not at all, to the level first asked for if that  *)
(* is no increase, or up, with a change item.                              *)
Moves(lv, new, to) ==
    \/ new = lv
    \/ /\ lv.last = 0 /\ to \in Levels /\ to <= BaseLevel(lv)
       /\ new = [last |-> to, changes |-> lv.changes]
    \/ /\ to \in Levels /\ to > BaseLevel(lv)
       /\ new = [last |-> to, changes |->
                    Append(lv.changes, [from |-> BaseLevel(lv), to |-> to, usage |-> usage])]

LEMMA MovesType ==
    ASSUME DiffTypes, NEW lv \in Difficulties, NEW to, NEW new, Moves(lv, new, to)
    PROVE  new \in Difficulties
<1>1. BaseLevel(lv) \in Levels
    BY BaseLevelType DEF DiffTypes
<1>2. CASE to \in Levels /\ new = [last |-> to, changes |->
                    Append(lv.changes, [from |-> BaseLevel(lv), to |-> to, usage |-> usage])]
  <2>1. [from |-> BaseLevel(lv), to |-> to, usage |-> usage] \in Change
    BY <1>1, <1>2 DEF Change, DiffTypes
  <2>2. lv.changes \in Seq(Change)
    BY DEF Difficulties
  <2>3. Append(lv.changes, [from |-> BaseLevel(lv), to |-> to, usage |-> usage]) \in Seq(Change)
    BY <2>1, <2>2
  <2>4. QED
    BY <1>2, <2>3 DEF Difficulties, Levels
<1>3. CASE to \in Levels /\ new = [last |-> to, changes |-> lv.changes]
    BY <1>3 DEF Difficulties, Levels
<1>4. QED
    BY <1>2, <1>3 DEF Moves

LEMMA ResolvedMoves ==
    ASSUME DiffTypes, ShownIsListed, NEW lv \in Difficulties
    PROVE  /\ Moves(lv, Resolved(lv), ShownLevel)
           /\ Resolved(lv) \in Difficulties
           /\ Resolved(Resolved(lv)) = Resolved(lv)
<1>1. BaseLevel(lv) \in Levels /\ lv.last \in 0..3
    BY BaseLevelType DEF DiffTypes, Difficulties
<1>2. Wanted(lv) \in {ShownLevel, 0} /\ Wanted(lv) \in 0..3
    BY WantedIsShown
<1>3. CASE Wanted(lv) = 0 \/ (lv.last # 0 /\ lv.last >= Wanted(lv))
    BY <1>3 DEF Resolved, Moves
<1>4. CASE ~(Wanted(lv) = 0 \/ (lv.last # 0 /\ lv.last >= Wanted(lv)))
  <2>1. Resolved(lv) = SetDynamic(lv, ShownLevel) /\ ShownLevel \in Levels
    BY <1>2, <1>4 DEF Resolved, Levels
  <2>2. Moves(lv, Resolved(lv), ShownLevel)
    <3>1. CASE ShownLevel > BaseLevel(lv)
      BY <2>1, <3>1 DEF SetDynamic, Moves
    <3>2. CASE ~(ShownLevel > BaseLevel(lv))
      <4>1. Wanted(lv) = ShownLevel /\ (lv.last = 0 \/ ~(lv.last >= ShownLevel))
        BY <1>2, <1>4
      <4>2. lv.last = 0 /\ ShownLevel <= BaseLevel(lv)
        BY <1>1, <2>1, <3>2, <4>1 DEF BaseLevel, Levels
      <4>3. SetDynamic(lv, ShownLevel) = [last |-> ShownLevel, changes |-> lv.changes]
        BY <3>2 DEF SetDynamic
      <4>4. QED
        BY <2>1, <4>2, <4>3 DEF Moves
    <3>3. QED
      BY <3>1, <3>2
  <2>3. Resolved(lv) \in Difficulties
    BY <2>2, MovesType
  <2>4. Wanted(Resolved(lv)) \in {ShownLevel, 0}
    BY <2>3, WantedIsShown
  <2>5. Resolved(lv).last = ShownLevel /\ ShownLevel # 0 /\ ShownLevel >= ShownLevel
    BY <2>1 DEF SetDynamic, Levels
  <2>6. Resolved(Resolved(lv)) = Resolved(lv)
    BY <2>4, <2>5 DEF Resolved
  <2>7. QED
    BY <2>2, <2>3, <2>6
<1>5. QED
    BY <1>3, <1>4

(***************************************************************************)
(* The level of a request.                                                 *)
(***************************************************************************)
LevelInv ==
    /\ ShownIsListed
    /\ ShownLevel \in raisers
    /\ progress = "awaiting" => request.difficulty \in Levels
    /\ RequestsHaveOneLevel

LEMMA CurrentType ==
    ASSUME DiffTypes, ShownIsListed
    PROVE  /\ Resolved(level) \in Difficulties /\ Current \in Levels
           /\ Resolved(Resolved(level)) = Resolved(level)
           /\ Resolved(level).last # 0 => Resolved(level).last \in {level.last, ShownLevel}
<1>1. level \in Difficulties /\ job \in DiffSetups
    BY DEF DiffTypes
<1>2. /\ Moves(level, Resolved(level), ShownLevel)
      /\ Resolved(level) \in Difficulties
      /\ Resolved(Resolved(level)) = Resolved(level)
    BY <1>1, ResolvedMoves
<1>3. Current \in Levels
    BY <1>1, <1>2, BaseLevelType DEF Current
<1>4. QED
    BY <1>2, <1>3 DEF Moves

(* show_example, panic, LookUp and SendLeveled move the stored level.      *)
LEMMA PanicMoves ==
    ASSUME DiffTypes, ShownIsListed, Panic
    PROVE  \/ level' = Resolved(level)
           \/ Moves(Resolved(level), level', Current + 1) /\ level'.last = Current + 1
<1>1. Current \in Levels
    BY CurrentType
<1>2. CASE Highest(Current)
    BY <1>2 DEF Panic
<1>3. CASE ~Highest(Current)
  <2>1. level' = SetDynamic(Resolved(level), Current + 1)
    BY <1>3 DEF Panic
  <2>2. Current + 1 \in Levels /\ Current + 1 > BaseLevel(Resolved(level))
    BY <1>1, <1>3 DEF Highest, Levels, Current
  <2>3. QED
    BY <2>1, <2>2 DEF SetDynamic, Moves
<1>4. QED
    BY <1>2, <1>3

LEMMA SendMoves ==
    ASSUME DiffTypes, ShownIsListed, SendLeveled
    PROVE  /\ level' = Resolved(level)
           /\ request' \in {request, [difficulty |-> Current, provider |-> Current]}
    BY CurrentType DEF SendLeveled, PricingSynced, CurrentModel, Current

LEMMA TypesNext ==
    ASSUME DiffTypes, ShownIsListed, [DiffNext]_diffVars
    PROVE  DiffTypes'
<1>1. Resolved(level) \in Difficulties
    BY CurrentType
<1> USE DEF DiffTypes
<1>2. CASE ShowExample
  <2>1. shown' \in [id: Int, role: Roles, local: Int]
    BY <1>2, SourcedExamplesType DEF ShowExample
  <2>2. QED
    BY <1>1, <1>2, <2>1 DEF ShowExample, Roles
<1>3. CASE Panic
  <2>1. level' \in Difficulties
    BY <1>1, <1>3, PanicMoves, MovesType
  <2>2. QED
    BY <1>3, <2>1 DEF Panic, Roles
<1>4. CASE LookUp
    BY <1>1, <1>4 DEF LookUp, Roles
<1>5. CASE SendLeveled
  <2>1. level' = Resolved(level)
    BY <1>5, SendMoves
  <2>2. UNCHANGED <<job, shown, usage, completions>> /\ progress' \in {"awaiting", "failed"}
    BY <1>5 DEF SendLeveled
  <2>3. QED
    BY <1>1, <2>1, <2>2 DEF Roles
<1>6. CASE Reply
  <2>1. usage' \in Nat
    BY <1>6, DifficultyAssumption DEF Reply
  <2>2. progress' \in {"failed", "asking", "running", "done"}
    BY <1>6 DEF Reply, Checked
  <2>3. QED
    BY <1>6, <2>1, <2>2 DEF Reply, Roles
<1>7. CASE CodeExits
    BY <1>7 DEF CodeExits, Checked, Roles
<1>8. CASE StepRaises
    BY <1>8 DEF StepRaises, Roles
<1>9. CASE UserMessage
    BY <1>9 DEF UserMessage, Reopened, Roles
<1>10. CASE Notification
    BY <1>10 DEF Notification, Reopened, Roles
<1>11. CASE UNCHANGED diffVars
    BY <1>11 DEF diffVars, Roles
<1>12. QED
    BY <1>2, <1>3, <1>4, <1>5, <1>6, <1>7, <1>8, <1>9, <1>10, <1>11 DEF DiffNext

LEMMA StoredIsRebuilt ==
    ASSUME job.static \in Levels, NEW d \in Levels
    PROVE  RebuiltDifficulty([asked |-> StoredDifficulty(d), sent |-> d]) = d
    BY DEF RebuiltDifficulty, StoredDifficulty, Levels

LEMMA LevelNext ==
    ASSUME DiffTypes, LevelInv, [DiffNext]_diffVars
    PROVE  LevelInv'
<1> USE DEF LevelInv, RequestsHaveOneLevel
<1>1. Resolved(level).last # 0 => Resolved(level).last \in raisers
    BY CurrentType DEF LevelComesFromShownExamples
<1>2. job \in DiffSetups /\ job.static \in Levels
    BY SetupTypes DEF DiffTypes
<1>3. ASSUME UNCHANGED <<job, shown>>, raisers \subseteq raisers'
      PROVE  ShownIsListed' /\ (ShownLevel \in raisers)'
    BY <1>3 DEF ShownIsListed, Own, Donated, ShownLevel, ExampleLevel
<1>4. ASSUME UNCHANGED <<job, request, replies>>
      PROVE  ProviderFitsRequest' /\ RebuiltAsSent'
    BY <1>4 DEF ProviderFitsRequest, RebuiltAsSent, RebuiltDifficulty
<1>5. ASSUME level' = Resolved(level) \/ UNCHANGED level, raisers \subseteq raisers'
      PROVE  LevelComesFromShownExamples'
    BY <1>1, <1>5 DEF LevelComesFromShownExamples
<1>6. CASE ShowExample
  <2>1. PICK example \in SourcedExamples(Current) :
            shown' = example /\ raisers' = raisers \cup {ExampleLevel(example.role, example.local)}
    BY <1>6 DEF ShowExample
  <2>2. example \in [id: Nat, role: Roles, local: Nat] /\ (Own(example) \/ Donated(example))
    BY <1>2, SourcedExamplesType
  <2>3. UNCHANGED <<job, request, replies, progress>> /\ level' = Resolved(level)
    BY <1>6 DEF ShowExample
  <2>4. ShownIsListed'
    BY <2>1, <2>2, <2>3 DEF ShownIsListed, Own, Donated
  <2>5. ShownLevel' = ExampleLevel(example.role, example.local)
    BY <2>1, <2>2, <2>3 DEF ShownLevel, ExampleLevel
  <2>6. QED
    BY <1>4, <1>5, <2>1, <2>3, <2>4, <2>5
<1>7. CASE Panic
  <2>1. UNCHANGED <<job, shown, request, replies, progress>>
    BY <1>7 DEF Panic
  <2>2. raisers' = raisers \cup {BaseLevel(level')}
    BY <1>7 DEF Panic
  <2>3. LevelComesFromShownExamples'
    BY <2>2 DEF LevelComesFromShownExamples, BaseLevel
  <2>4. QED
    BY <1>3, <1>4, <2>1, <2>2, <2>3
<1>8. CASE LookUp
  <2>1. UNCHANGED <<job, shown, request, replies, progress, raisers>> /\ level' = Resolved(level)
    BY <1>8 DEF LookUp
  <2>2. QED
    BY <1>3, <1>4, <1>5, <2>1
<1>9. CASE SendLeveled
  <2>1. /\ level' = Resolved(level)
        /\ request' \in {request, [difficulty |-> Current, provider |-> Current]}
    BY <1>9, SendMoves
  <2>2. UNCHANGED <<job, shown, replies, raisers>>
    BY <1>9 DEF SendLeveled
  <2>3. ProviderFitsRequest' /\ RebuiltAsSent'
    BY <2>1, <2>2 DEF ProviderFitsRequest, RebuiltAsSent, RebuiltDifficulty
  <2>4. progress' = "awaiting" => request'.difficulty \in Levels
    <3>1. CASE progress' = "awaiting"
      <4>1. request' = [difficulty |-> BaseLevel(Resolved(PricingSynced(CurrentModel(level)))),
                        provider |-> Current]
        BY <1>9, <3>1 DEF SendLeveled
      <4>2. PricingSynced(CurrentModel(level)) = Resolved(level)
        BY CurrentType DEF PricingSynced, CurrentModel
      <4>3. request'.difficulty = Current
        BY <4>1, <4>2, CurrentType DEF Current
      <4>4. QED
        BY <4>3, CurrentType
    <3>2. QED
      BY <3>1
  <2>5. QED
    BY <1>3, <1>5, <2>1, <2>2, <2>3, <2>4
<1>10. CASE Reply
  <2>1. request' = NoRequest /\ UNCHANGED <<job, level, shown, raisers>> /\ progress' # "awaiting"
    BY <1>10 DEF Reply, Checked
  <2>2. request.difficulty \in Levels
    BY <1>10 DEF Reply
  <2>3. replies' \subseteq replies \cup {[asked |-> StoredDifficulty(request.difficulty),
                                           sent |-> request.difficulty]}
    BY <1>10 DEF Reply
  <2>4. ASSUME NEW r \in replies' PROVE RebuiltDifficulty(r) = r.sent
    <3>1. CASE r \in replies
      BY <3>1 DEF RebuiltAsSent
    <3>2. CASE r = [asked |-> StoredDifficulty(request.difficulty), sent |-> request.difficulty]
      BY <1>2, <2>2, <3>2, StoredIsRebuilt
    <3>3. QED
      BY <2>3, <3>1, <3>2
  <2>5. RebuiltAsSent'
    BY <2>1, <2>4 DEF RebuiltAsSent, RebuiltDifficulty
  <2>6. ProviderFitsRequest'
    BY <2>1 DEF ProviderFitsRequest, NoRequest
  <2>7. QED
    BY <1>3, <1>5, <2>1, <2>5, <2>6
<1>11. CASE CodeExits \/ UserMessage \/ Notification
  <2>1. UNCHANGED <<job, level, shown, replies, request, raisers>> /\ progress' # "awaiting"
    BY <1>11 DEF CodeExits, Checked, UserMessage, Notification, Reopened
  <2>2. QED
    BY <1>3, <1>4, <1>5, <2>1
<1>12. CASE StepRaises
  <2>1. /\ UNCHANGED <<job, level, shown, replies, raisers>>
        /\ request' = NoRequest /\ progress' # "awaiting"
    BY <1>12 DEF StepRaises
  <2>2. RebuiltAsSent' /\ ProviderFitsRequest'
    BY <2>1 DEF RebuiltAsSent, RebuiltDifficulty, ProviderFitsRequest, NoRequest
  <2>3. QED
    BY <1>3, <1>5, <2>1, <2>2
<1>13. CASE UNCHANGED diffVars
    BY <1>3, <1>4, <1>5, <1>13 DEF diffVars
<1>14. QED
    BY <1>6, <1>7, <1>8, <1>9, <1>10, <1>11, <1>12, <1>13 DEF DiffNext

LEMMA TypesInit == DiffInit => DiffTypes /\ LevelInv
<1> SUFFICES ASSUME DiffInit PROVE DiffTypes /\ LevelInv
    OBVIOUS
<1>1. job \in DiffSetups /\ Receiver \in Roles
    BY SetupTypes DEF DiffInit
<1>2. DiffTypes
    BY <1>1 DEF DiffInit, DiffTypes, Difficulties, NoExample
<1>3. LevelInv
    BY DEF DiffInit, LevelInv, ShownIsListed, ShownLevel, NoExample, NoRequest,
       RequestsHaveOneLevel, ProviderFitsRequest, LevelComesFromShownExamples, RebuiltAsSent
<1>4. QED
    BY <1>2, <1>3

LEMMA LevelInvariant == DiffSpec => [](DiffTypes /\ LevelInv)
<1>1. DiffTypes /\ LevelInv /\ [DiffNext]_diffVars => (DiffTypes /\ LevelInv)'
    BY TypesNext, LevelNext DEF LevelInv
<1>2. QED
    BY <1>1, TypesInit, PTL DEF DiffSpec

(* However examples of any active agent are shown and panics raise it, the *)
(* lookups for one request agree on its difficulty, the difficulty is the  *)
(* static one or was asked for, and the chat log remembers it.             *)
THEOREM OneLevelPerRequest == DiffSpec => []RequestsHaveOneLevel
<1>1. LevelInv => RequestsHaveOneLevel
    BY DEF LevelInv
<1>2. QED
    BY <1>1, LevelInvariant, PTL

(***************************************************************************)
(* The budget.  The change items are a chain of strict increases among     *)
(* three levels, hence at most two, and each is worth no more than the     *)
(* budget there was when it was made.                                      *)
(***************************************************************************)
Chained(lv) ==
    /\ \A i \in DOMAIN lv.changes : lv.changes[i].from < lv.changes[i].to
    /\ \A i \in DOMAIN lv.changes :
          i > 1 => /\ lv.changes[i].from = lv.changes[i - 1].to
                   /\ lv.changes[i].usage >= lv.changes[i - 1].usage
    /\ lv.changes # <<>> => lv.last = lv.changes[Len(lv.changes)].to
    /\ \A i \in DOMAIN lv.changes : lv.changes[i].usage <= usage
Afforded(lv) ==
    /\ Len(lv.changes) >= 1 => lv.changes[1].usage <= BaseLimit
    /\ Len(lv.changes) >= 2 => lv.changes[2].usage <= BaseLimit + lv.changes[1].usage
NotExceeded(lv) == usage <= BaseLimit + Extension(lv.changes)

LEMMA ChangeTypes ==
    ASSUME NEW cs \in Seq(Change)
    PROVE  /\ Len(cs) \in Nat /\ DOMAIN cs = 1..Len(cs)
           /\ \A i \in 1..Len(cs) :
                 cs[i].from \in Levels /\ cs[i].to \in Levels /\ cs[i].usage \in Nat
<1>1. \A i \in 1..Len(cs) : cs[i] \in Change
    OBVIOUS
<1>2. QED
    BY <1>1 DEF Change

LEMMA ChainShort ==
    ASSUME NEW lv \in Difficulties, Chained(lv)
    PROVE  Len(lv.changes) \in 0..2
<1> DEFINE cs == lv.changes
<1>1. cs \in Seq(Change)
    BY DEF Difficulties
<1>2. DOMAIN cs = 1..Len(cs) /\ Len(cs) \in Nat
    BY <1>1, ChangeTypes
<1>3. /\ \A i \in DOMAIN cs : cs[i].from < cs[i].to
      /\ \A i \in DOMAIN cs : i > 1 => cs[i].from = cs[i - 1].to
    BY DEF Chained
<1> HIDE DEF cs
<1>4. ASSUME Len(cs) >= 3 PROVE FALSE
  <2>1. 1 \in DOMAIN cs /\ 2 \in DOMAIN cs /\ 3 \in DOMAIN cs
    BY <1>2, <1>4
  <2>2. cs[2].from = cs[2 - 1].to /\ cs[3].from = cs[3 - 1].to
    BY <1>3, <2>1
  <2>3. cs[1].from < cs[1].to /\ cs[2].from < cs[2].to /\ cs[3].from < cs[3].to
    BY <1>3, <2>1
  <2>4. /\ cs[1].from \in 1..3 /\ cs[2].from \in 1..3 /\ cs[3].from \in 1..3
        /\ cs[1].to \in 1..3 /\ cs[2].to \in 1..3 /\ cs[3].to \in 1..3
    BY <1>1, <1>2, <2>1, ChangeTypes DEF Levels
  <2>5. 2 - 1 = 1 /\ 3 - 1 = 2
    OBVIOUS
  <2>6. cs[2].from = cs[1].to /\ cs[3].from = cs[2].to
    BY <2>2, <2>5
  <2>7. QED
    BY <2>3, <2>4, <2>6
<1>5. Len(cs) \in 0..2
    BY <1>2, <1>4
<1>6. QED
    BY <1>5 DEF cs

(* The sum of difficulty_token_extension, for the lengths there can be.    *)
LEMMA ExtensionIs ==
    ASSUME NEW cs \in Seq(Change), Len(cs) \in 0..2
    PROVE  /\ Len(cs) = 0 => Extension(cs) = 0
           /\ Len(cs) = 1 => Extension(cs) = cs[1].usage
           /\ Len(cs) = 2 => Extension(cs) = cs[1].usage + cs[2].usage
<1> DEFINE Sums(f) == f = [n \in 0..Len(cs) |-> IF n = 0 THEN 0 ELSE f[n - 1] + cs[n].usage]
           sum == CHOOSE f : Sums(f)
           given == [n \in 0..Len(cs) |->
                        CASE n = 0 -> 0
                          [] n = 1 -> 0 + cs[1].usage
                          [] OTHER -> 0 + cs[1].usage + cs[2].usage]
<1>1. Sums(given)
    OBVIOUS
<1>2. Sums(sum)
    BY <1>1
<1>3. Extension(cs) = sum[Len(cs)]
    BY DEF Extension
<1> HIDE DEF sum
<1>4. \A n \in 0..Len(cs) : sum[n] = IF n = 0 THEN 0 ELSE sum[n - 1] + cs[n].usage
    BY <1>2
<1>5. sum[0] = 0
    BY <1>4
<1>6. Len(cs) >= 1 => sum[1] = 0 + cs[1].usage
    BY <1>4, <1>5
<1>7. Len(cs) = 2 => sum[2] = 0 + cs[1].usage + cs[2].usage
    BY <1>4, <1>6
<1>8. Len(cs) >= 1 => cs[1].usage \in Nat
    BY ChangeTypes
<1>9. CASE Len(cs) = 0
    BY <1>3, <1>5, <1>9
<1>10. CASE Len(cs) = 1
    BY <1>3, <1>6, <1>8, <1>10
<1>11. CASE Len(cs) = 2
    BY <1>3, <1>7, <1>8, <1>11
<1>12. QED
    BY <1>9, <1>10, <1>11

LEMMA LimitGrows ==
    ASSUME NEW base \in Nat, NEW extra \in Nat, NEW n \in Nat
    PROVE  /\ base * (1 + extra * n) \in Nat
           /\ base * (1 + extra * (n + 1)) \in Nat
           /\ base * (1 + extra * (n + 1)) >= base * (1 + extra * n)
<1>1. extra * n \in Nat /\ extra * (n + 1) = extra * n + extra
    OBVIOUS
<1>2. \A m \in Nat : base * m \in Nat
    OBVIOUS
<1>3. \A m, k \in Nat : base * (m + k) = base * m + base * k
    OBVIOUS
<1> DEFINE m == extra * n
<1>4. m \in Nat /\ 1 + m \in Nat /\ 1 + (m + extra) = (1 + m) + extra
    BY <1>1
<1> HIDE DEF m
<1>5. base * (1 + m) \in Nat /\ base * extra \in Nat
    BY <1>2, <1>4
<1>6. base * (1 + (m + extra)) = base * (1 + m) + base * extra
    BY <1>3, <1>4
<1>7. base * (1 + (m + extra)) \in Nat /\ base * (1 + (m + extra)) >= base * (1 + m)
    BY <1>5, <1>6
<1>8. QED
    BY <1>1, <1>5, <1>7 DEF m

LEMMA LimitType == ASSUME DiffTypes PROVE BaseLimit \in Nat
    BY SetupTypes, LimitGrows DEF DiffTypes, BaseLimit

(* One increase: the item it adds joins the chain and is within the limit. *)
LEMMA IncreaseBudget ==
    ASSUME DiffTypes, NEW lv \in Difficulties, Chained(lv), Afforded(lv), NotExceeded(lv),
           NEW to \in Levels, to > BaseLevel(lv), NEW new,
           new = [last |-> to, changes |->
                     Append(lv.changes, [from |-> BaseLevel(lv), to |-> to, usage |-> usage])]
    PROVE  Chained(new) /\ Afforded(new) /\ NotExceeded(new)
<1> DEFINE cs == lv.changes
           item == [from |-> BaseLevel(lv), to |-> to, usage |-> usage]
           added == Append(cs, item)
           n == Len(cs)
<1>1. cs \in Seq(Change)
    BY DEF Difficulties
<1>2. BaseLevel(lv) \in Levels /\ usage \in Nat
    BY BaseLevelType DEF DiffTypes
<1>3. item \in Change
    BY <1>2 DEF Change
<1>4. /\ added \in Seq(Change) /\ Len(added) = n + 1 /\ added[n + 1] = item
      /\ \A i \in 1..n : added[i] = cs[i]
      /\ n \in Nat
    BY <1>1, <1>3
<1>5. new \in Difficulties /\ new.last = to /\ new.changes = added
    BY <1>4 DEF Difficulties, Levels
<1>6. /\ \A i \in 1..n : cs[i].from < cs[i].to /\ cs[i].usage <= usage
      /\ \A i \in 1..n : i > 1 => cs[i].from = cs[i - 1].to /\ cs[i].usage >= cs[i - 1].usage
      /\ n > 0 => lv.last = cs[n].to
  <2>1. DOMAIN cs = 1..n
    BY <1>1
  <2>2. n > 0 => cs # <<>>
    BY <1>1
  <2>3. QED
    BY <2>1, <2>2 DEF Chained
<1>7. item.from = BaseLevel(lv) /\ item.to = to /\ item.usage = usage
    OBVIOUS
<1>8. n > 0 => cs[n].to = BaseLevel(lv) /\ cs[n].usage <= usage
  <2>1. n > 0 => n \in 1..n
    BY <1>4
  <2>2. n > 0 => cs[n].to \in Levels
    BY <1>1, <2>1, ChangeTypes
  <2>3. QED
    BY <1>6, <2>1, <2>2 DEF BaseLevel, Levels
<1> HIDE DEF cs, item, added, n
<1>9. ASSUME NEW i \in 1..(n + 1)
      PROVE  added[i].from < added[i].to /\ added[i].usage <= usage
  <2>1. CASE i = n + 1
    BY <1>2, <1>4, <1>7, <2>1
  <2>2. CASE i \in 1..n
    BY <1>4, <1>6, <2>2
  <2>3. QED
    BY <1>4, <2>1, <2>2
<1>10. ASSUME NEW i \in 1..(n + 1), i > 1
       PROVE  added[i].from = added[i - 1].to /\ added[i].usage >= added[i - 1].usage
  <2>1. CASE i = n + 1
    <3>1. i - 1 = n /\ n \in 1..n /\ n > 0
      BY <1>4, <1>10, <2>1
    <3>2. added[i - 1] = cs[n] /\ added[i] = item
      BY <1>4, <2>1, <3>1
    <3>3. QED
      BY <1>7, <1>8, <3>1, <3>2
  <2>2. CASE i \in 1..n
    <3>1. i - 1 \in 1..n
      BY <1>4, <1>10, <2>2
    <3>2. added[i - 1] = cs[i - 1] /\ added[i] = cs[i]
      BY <1>4, <2>2, <3>1
    <3>3. QED
      BY <1>6, <1>10, <2>2, <3>2
  <2>3. QED
    BY <1>4, <2>1, <2>2
<1>11. Chained(new)
  <2>1. DOMAIN added = 1..(n + 1)
    BY <1>4
  <2>2. added[Len(added)].to = to
    BY <1>4, <1>7
  <2>3. QED
    BY <1>5, <1>9, <1>10, <2>1, <2>2 DEF Chained
<1>12. Len(added) \in 0..2
    BY <1>5, <1>11, ChainShort
<1>13. BaseLimit \in Nat /\ n \in 0..1
    BY <1>4, <1>12, LimitType
<1>14. CASE n = 0
  <2>1. Len(cs) = 0 /\ Len(added) = 1 /\ n + 1 = 1
    BY <1>4, <1>14 DEF n
  <2>2. added[1].usage = usage
    BY <1>4, <1>7, <2>1
  <2>3. Extension(cs) = 0 /\ Extension(added) = usage
    <3>1. Extension(cs) = 0
      <4>1. Len(cs) \in 0..2
        BY <2>1
      <4>2. Len(cs) = 0 => Extension(cs) = 0
        BY <1>1, <4>1, ExtensionIs
      <4>3. QED
        BY <2>1, <4>2
    <3>2. Extension(added) = added[1].usage
      BY <1>4, <2>1, ExtensionIs
    <3>3. QED
      BY <2>2, <3>1, <3>2
  <2>4. usage <= BaseLimit
    BY <1>13, <2>3 DEF NotExceeded, cs
  <2>5. Afforded(new)
    BY <1>5, <2>1, <2>2, <2>4 DEF Afforded
  <2>6. NotExceeded(new)
    <3>1. Extension(new.changes) = usage
      BY <1>5, <2>3
    <3>2. QED
      BY <1>2, <1>13, <3>1 DEF NotExceeded
  <2>7. QED
    BY <1>11, <2>5, <2>6
<1>15. CASE n = 1
  <2>1. Len(cs) = 1 /\ Len(added) = 2 /\ n + 1 = 2
    BY <1>4, <1>15 DEF n
  <2>2. 1 \in 1..n /\ 1 \in 1..Len(cs)
    BY <1>15, <2>1
  <2>3. cs[1].usage \in Nat
    BY <1>1, <2>2, ChangeTypes
  <2>4. added[1] = cs[1] /\ added[2].usage = usage
    BY <1>4, <1>7, <2>1, <2>2
  <2>5. Extension(cs) = cs[1].usage /\ Extension(added) = cs[1].usage + usage
    BY <1>1, <1>4, <2>1, <2>4, ExtensionIs
  <2>6. cs[1].usage <= BaseLimit /\ usage <= BaseLimit + cs[1].usage
    BY <2>1, <2>5 DEF Afforded, NotExceeded, cs
  <2>7. Afforded(new)
    BY <1>5, <2>1, <2>4, <2>6 DEF Afforded
  <2>8. NotExceeded(new)
    <3>1. Extension(new.changes) = cs[1].usage + usage
      BY <1>5, <2>5
    <3>2. QED
      BY <1>2, <1>13, <2>3, <3>1 DEF NotExceeded
  <2>9. QED
    BY <1>11, <2>7, <2>8
<1>16. QED
    BY <1>13, <1>14, <1>15

Budgeted(lv) == Chained(lv) /\ Afforded(lv) /\ NotExceeded(lv)
LEMMA MovesBudget ==
    ASSUME DiffTypes, NEW lv \in Difficulties, Budgeted(lv), NEW to, NEW new, Moves(lv, new, to)
    PROVE  Budgeted(new)
<1>1. CASE new = lv
    BY <1>1
<1>2. CASE lv.last = 0 /\ new = [last |-> to, changes |-> lv.changes]
  <2>1. lv.changes = <<>>
    <3>1. SUFFICES ASSUME lv.changes # <<>> PROVE FALSE
      OBVIOUS
    <3>2. lv.changes \in Seq(Change)
      BY DEF Difficulties
    <3>3. Len(lv.changes) \in 1..Len(lv.changes)
      BY <3>1, <3>2
    <3>4. lv.changes[Len(lv.changes)].to \in Levels
      BY <3>2, <3>3, ChangeTypes
    <3>5. QED
      BY <1>2, <3>1, <3>4 DEF Budgeted, Chained, Levels
  <2>2. QED
    BY <1>2, <2>1 DEF Budgeted, Chained, Afforded, NotExceeded
<1>3. CASE /\ to \in Levels /\ to > BaseLevel(lv)
           /\ new = [last |-> to, changes |->
                        Append(lv.changes, [from |-> BaseLevel(lv), to |-> to, usage |-> usage])]
    BY <1>3, IncreaseBudget DEF Budgeted
<1>4. QED
    BY <1>1, <1>2, <1>3 DEF Moves

(* A job that was stopped over its limit may ask again, but what its lookups *)
(* could still raise is then raised already, and it runs no code before the  *)
(* limit is looked at: every increase was made within the limit.             *)
Settled == Wanted(level) = 0 \/ (level.last # 0 /\ level.last >= Wanted(level))
BudgetInv ==
    /\ Chained(level) /\ Afforded(level)
    /\ progress \in {"running", "done"} => NotExceeded(level)
    /\ NotExceeded(level) \/ Settled
    /\ progress = "awaiting" => Settled

LEMMA SettledKept ==
    ASSUME UNCHANGED <<job, shown, level>> PROVE Settled' = Settled
    BY DEF Settled, Wanted, SourceFor, BaseLevel, ActiveRoles, Active, Bucket, Role, ExampleLevel

LEMMA SettledStays == ASSUME Settled PROVE Resolved(level) = level
    BY DEF Settled, Resolved

LEMMA SettlesNow ==
    ASSUME DiffTypes, ShownIsListed, level' = Resolved(level), UNCHANGED <<job, shown, usage>>
    PROVE  Settled'
<1>1. Resolved(Resolved(level)) = Resolved(level) /\ Resolved(level) \in Difficulties
    BY CurrentType, ResolvedMoves DEF DiffTypes
<1>2. PICK lv : lv = Resolved(level)
    OBVIOUS
<1>3. Resolved(lv) = lv
    BY <1>1, <1>2
<1>4. Wanted(lv) = 0 \/ (lv.last # 0 /\ lv.last >= Wanted(lv))
  <2>1. CASE Resolved(lv) = SetDynamic(lv, Wanted(lv))
    <3>1. lv.last = Wanted(lv)
      BY <1>3, <2>1 DEF SetDynamic
    <3>2. lv.last \in 0..3
      BY <1>1, <1>2 DEF Difficulties
    <3>3. QED
      BY <3>1, <3>2
  <2>2. QED
    BY <2>1 DEF Resolved
<1>5. Settled' = (Wanted(lv) = 0 \/ (lv.last # 0 /\ lv.last >= Wanted(lv)))
    BY <1>2 DEF Settled, Wanted, SourceFor, BaseLevel, ActiveRoles, Active, Bucket, Role, ExampleLevel
<1>6. QED
    BY <1>4, <1>5

LEMMA LimitKept ==   \* while the usage and the limit stay
    ASSUME UNCHANGED <<job, usage, completions>>, NEW new, new = level', Budgeted(new)
    PROVE  Chained(level)' /\ Afforded(level)' /\ NotExceeded(level)'
    BY DEF Budgeted, Chained, Afforded, NotExceeded, BaseLimit, Extension

LEMMA BudgetKept ==   \* code runs or the next request is prepared
    ASSUME UNCHANGED <<job, usage, completions>>, NEW new, new = level', Budgeted(new),
           progress' = "awaiting" => Settled'
    PROVE  BudgetInv'
    BY LimitKept DEF BudgetInv

LEMMA Stays ==   \* nothing that the budget is about changes
    ASSUME BudgetInv, UNCHANGED <<job, level, shown, usage, completions>>,
           progress' \in {"running", "done"} => NotExceeded(level), progress' # "awaiting"
    PROVE  BudgetInv'
<1>1. Settled' = Settled
    BY SettledKept
<1>2. NotExceeded(level)' = NotExceeded(level) /\ (Chained(level) => Chained(level)')
      /\ (Afforded(level) => Afforded(level)')
    BY DEF NotExceeded, BaseLimit, Extension, Chained, Afforded
<1>3. QED
    BY <1>1, <1>2 DEF BudgetInv

LEMMA SendBudget == ASSUME DiffTypes, ShownIsListed, BudgetInv, SendLeveled PROVE BudgetInv'
<1>1. level \in Difficulties /\ level' = Resolved(level)
    BY SendMoves DEF DiffTypes
<1>2. UNCHANGED <<job, shown, usage, completions>> /\ progress' \in {"awaiting", "failed"}
    BY DEF SendLeveled
<1>3. Settled'
    BY <1>1, <1>2, SettlesNow
<1>4. CASE NotExceeded(level)
  <2>1. Budgeted(level)
    BY <1>4 DEF Budgeted, BudgetInv
  <2>2. Budgeted(Resolved(level))
    BY <1>1, <2>1, ResolvedMoves, MovesBudget
  <2>3. PICK new : new = Resolved(level)
    OBVIOUS
  <2>4. QED
    BY <1>1, <1>2, <1>3, <2>2, <2>3, BudgetKept
<1>5. CASE Settled
  <2>1. level' = level
    BY <1>1, <1>5, SettledStays
  <2>2. Chained(level)' /\ Afforded(level)'
    BY <1>2, <2>1 DEF BudgetInv, Chained, Afforded, BaseLimit
  <2>3. QED
    BY <1>2, <1>3, <2>2 DEF BudgetInv
<1>6. QED
    BY <1>4, <1>5 DEF BudgetInv

LEMMA ExtensionType == ASSUME DiffTypes, BudgetInv PROVE Extension(level.changes) \in Nat
<1>1. level.changes \in Seq(Change) /\ Len(level.changes) \in 0..2
    BY ChainShort DEF DiffTypes, Difficulties, BudgetInv
<1>2. QED
    BY <1>1, ExtensionIs, ChangeTypes

(* A reply is added to the usage, and the limit is looked at.               *)
LEMMA ReplyBudget == ASSUME DiffTypes, BudgetInv, Reply PROVE BudgetInv'
<1>1. PICK size \in ReplySizes :
          /\ usage' = usage + size
          /\ progress' \in {"failed", "asking", "running", "done"}
          /\ progress' # "failed" => ~Exceeded(usage')
    BY DEF Reply, Checked
<1>2. UNCHANGED <<job, level, shown, completions>> /\ usage \in Nat /\ size \in Nat
    BY <1>1, DifficultyAssumption DEF Reply, DiffTypes
<1>3. usage' >= usage /\ usage' \in Nat
    BY <1>1, <1>2
<1>4. BaseLimit' = BaseLimit /\ level.changes \in Seq(Change)
    BY <1>2 DEF BaseLimit, Difficulties, DiffTypes
<1>5. \A i \in DOMAIN level.changes : level.changes[i].usage \in Nat
    BY <1>4, ChangeTypes
<1>6. \A i \in DOMAIN level.changes : level.changes[i].usage <= usage'
    BY <1>2, <1>3, <1>5 DEF BudgetInv, Chained
<1>7. Chained(level)' /\ Afforded(level)'
    BY <1>2, <1>4, <1>6 DEF BudgetInv, Chained, Afforded
<1>8. Settled'
    BY <1>2, SettledKept DEF BudgetInv, Reply
<1>9. ASSUME progress' # "failed" PROVE NotExceeded(level)'
  <2>1. ~(usage' > BaseLimit + Extension(level.changes))
    BY <1>1, <1>9 DEF Exceeded
  <2>2. Extension(level.changes) \in Nat /\ BaseLimit \in Nat
    BY ExtensionType, LimitType
  <2>3. usage' <= BaseLimit + Extension(level.changes)
    BY <1>3, <2>1, <2>2
  <2>4. QED
    BY <1>2, <1>4, <2>3 DEF NotExceeded
<1>10. QED
    BY <1>7, <1>8, <1>9 DEF BudgetInv

(* A message extends the base limit, whether or not it was exceeded.        *)
LEMMA MessageBudget == ASSUME DiffTypes, BudgetInv, UserMessage PROVE BudgetInv'
<1>1. /\ UNCHANGED <<job, level, shown, usage>> /\ completions' = completions + 1
      /\ progress' = "asking"
    BY DEF UserMessage, Reopened
<1>2. BaseLimit \in Nat /\ BaseLimit' \in Nat /\ BaseLimit' >= BaseLimit
    BY <1>1, SetupTypes, LimitGrows DEF BaseLimit, DiffTypes
<1>3. level.changes \in Seq(Change) /\ Len(level.changes) \in 0..2
    BY ChainShort DEF BudgetInv, Difficulties, DiffTypes
<1>4. Chained(level)'
    BY <1>1 DEF BudgetInv, Chained
<1>5. Afforded(level)'
  <2>1. /\ Len(level.changes) >= 1 => level.changes[1].usage \in Nat
        /\ Len(level.changes) >= 2 => level.changes[2].usage \in Nat
    BY <1>3, ChangeTypes
  <2>2. Len(level.changes) >= 1 => level.changes[1].usage <= BaseLimit'
    BY <1>2, <2>1, SMTT(30) DEF BudgetInv, Afforded
  <2>3. Len(level.changes) >= 2 => level.changes[2].usage <= BaseLimit' + level.changes[1].usage
    BY <1>2, <1>3, <2>1, SMTT(30) DEF BudgetInv, Afforded
  <2>4. QED
    BY <1>1, <2>2, <2>3 DEF Afforded
<1>6. ASSUME NotExceeded(level) PROVE NotExceeded(level)'
  <2>1. usage <= BaseLimit + Extension(level.changes) /\ usage \in Nat
    BY <1>6 DEF NotExceeded, DiffTypes
  <2>2. usage <= BaseLimit' + Extension(level.changes)
    BY <1>2, <2>1, ExtensionType
  <2>3. QED
    BY <1>1, <2>2 DEF NotExceeded
<1>7. Settled' = Settled
    BY <1>1, SettledKept
<1>8. QED
    BY <1>1, <1>4, <1>5, <1>6, <1>7 DEF BudgetInv

LEMMA BudgetNext ==
    ASSUME DiffTypes, ShownIsListed, BudgetInv, [DiffNext]_diffVars
    PROVE  BudgetInv'
<1>1. level \in Difficulties
    BY DEF DiffTypes
<1>2. ASSUME progress = "running" PROVE Budgeted(level) /\ Budgeted(Resolved(level))
  <2>1. Budgeted(level)
    BY <1>2 DEF Budgeted, BudgetInv
  <2>2. QED
    BY <1>1, <2>1, ResolvedMoves, MovesBudget
<1>3. ASSUME progress = "running", level' = Resolved(level),
             UNCHANGED <<job, usage, completions, progress>>
      PROVE  BudgetInv'
  <2>1. PICK new : new = Resolved(level)
    OBVIOUS
  <2>2. QED
    BY <1>2, <1>3, <2>1, BudgetKept
<1>4. CASE ShowExample
    BY <1>3, <1>4 DEF ShowExample
<1>5. CASE Panic
  <2>1. progress = "running" /\ UNCHANGED <<job, usage, completions, progress>>
    BY <1>5 DEF Panic
  <2>2. PICK new : new = level'
    OBVIOUS
  <2>3. new = Resolved(level) \/ Moves(Resolved(level), new, Current + 1)
    BY <1>5, <2>2, PanicMoves
  <2>4. Resolved(level) \in Difficulties
    BY <1>1, CurrentType
  <2>5. CASE new = Resolved(level)
    BY <1>2, <2>1, <2>2, <2>5, BudgetKept
  <2>6. CASE Moves(Resolved(level), new, Current + 1)
    <3>1. Budgeted(new)
      BY <1>2, <2>1, <2>4, <2>6, MovesBudget
    <3>2. QED
      BY <2>1, <2>2, <3>1, BudgetKept
  <2>7. QED
    BY <2>3, <2>5, <2>6
<1>6. CASE LookUp
    BY <1>3, <1>6 DEF LookUp
<1>7. CASE SendLeveled
    BY <1>7, SendBudget
<1>8. CASE Reply
    BY <1>8, ReplyBudget
<1>9. CASE CodeExits
  <2>1. NotExceeded(level) /\ progress' # "awaiting"
    BY <1>9 DEF CodeExits, Checked, BudgetInv
  <2>2. QED
    BY <1>9, <2>1, Stays DEF CodeExits
<1>10. CASE StepRaises
    BY <1>10, Stays DEF StepRaises
<1>11. CASE UserMessage
    BY <1>11, MessageBudget
<1>12. CASE Notification
    BY <1>12, Stays DEF Notification, Reopened
<1>13. CASE UNCHANGED diffVars
  <2>1. Settled' = Settled
    BY <1>13, SettledKept DEF diffVars
  <2>2. QED
    BY <1>13, <2>1 DEF diffVars, BudgetInv, Chained, Afforded, NotExceeded, BaseLimit
<1>14. QED
    BY <1>4, <1>5, <1>6, <1>7, <1>8, <1>9, <1>10, <1>11, <1>12, <1>13 DEF DiffNext

LEMMA BudgetInit == ASSUME DiffInit PROVE BudgetInv
<1>1. BaseLimit \in Nat
    BY TypesInit, LimitType
<1>2. Extension(<<>>) = 0
  <2>1. <<>> \in Seq(Change) /\ Len(<<>>) = 0 /\ Len(<<>>) \in 0..2
    OBVIOUS
  <2>2. QED
    BY <2>1, ExtensionIs
<1>3. NotExceeded(level)
    BY <1>1, <1>2 DEF DiffInit, NotExceeded
<1>4. QED
    BY <1>1, <1>3 DEF DiffInit, BudgetInv, Chained, Afforded

LEMMA BudgetBounds ==
    ASSUME DiffTypes, BudgetInv
    PROVE  EscalationIsBounded
<1> DEFINE cs == level.changes
<1>1. level \in Difficulties /\ cs \in Seq(Change) /\ Len(cs) \in 0..2
    BY ChainShort DEF DiffTypes, Difficulties, BudgetInv
<1>2. EachIncreaseCountsOnce
    BY DEF BudgetInv, Chained, EachIncreaseCountsOnce, Last
<1>3. BaseLimit \in Nat /\ usage \in Nat
    BY LimitType DEF DiffTypes
<1>4. ASSUME progress \in {"running", "done"} PROVE usage <= 4 * BaseLimit
  <2>1. usage <= BaseLimit + Extension(cs)
    BY <1>4 DEF BudgetInv, NotExceeded
  <2>2. CASE Len(cs) = 0
    BY <1>1, <1>3, <2>1, <2>2, ExtensionIs
  <2>3. CASE Len(cs) = 1
    BY <1>1, <1>3, <2>1, <2>3, ExtensionIs, ChangeTypes DEF BudgetInv, Afforded
  <2>4. CASE Len(cs) = 2
    BY <1>1, <1>3, <2>1, <2>4, ExtensionIs, ChangeTypes, SMTT(30) DEF BudgetInv, Afforded
  <2>5. QED
    BY <1>1, <2>2, <2>3, <2>4
<1>5. QED
    BY <1>2, <1>4 DEF EscalationIsBounded

(* Each increase of the level is one change item and extends the budget by *)
(* the usage it had then, no lookup adds another, and also after restarts  *)
(* of a job that was stopped, code of the job runs, and the job completes,  *)
(* only while its usage is at most four times its base limit.               *)
THEOREM EscalationBounded == DiffSpec => []EscalationIsBounded
<1>1. DiffInit => BudgetInv
    BY BudgetInit
<1>2. DiffTypes /\ LevelInv /\ BudgetInv /\ [DiffNext]_diffVars => BudgetInv'
    BY BudgetNext DEF LevelInv
<1>3. DiffTypes /\ BudgetInv => EscalationIsBounded
    BY BudgetBounds
<1>4. QED
    BY <1>1, <1>2, <1>3, LevelInvariant, PTL DEF DiffSpec

-----------------------------------------------------------------------------
(***************************************************************************)
(* Wire.  Every provider is sent the same words: each format makes of an    *)
(* item of the talk, or of a batch of tool results, messages with its words.*)
(***************************************************************************)
Names == {"none", "notice"} \cup UNION {{tools[i] : i \in DOMAIN tools} : tools \in CalledTools}
IdT == [number : Nat, name : Names]
BlockT == [type : {"use", "text", "think", "result"}, id : IdT, tool : Names, text : Nat]
CallT == [id : IdT, tool : Names]
PayloadT == [provider : WireProviders \cup {"none"}, format : {"openai", "vertex", "claude", "none"},
             blocks : Seq(BlockT)]
TalkRoles == {"system", "user", "assistant", "tool"}
ItemT == [role : TalkRoles, text : Nat, calls : Seq(CallT), payload : PayloadT]
MessageT == [role : TalkRoles \cup {"function", "model"}, blocks : Seq(BlockT)]
Voices == {"llm", "user", "system"}
WordT == {<<by, b.type, b.tool, b.text>> : by \in Voices, b \in BlockT}
WordMap(by) == [b \in BlockT |-> Word(by, b)]
MessageWords == [m \in MessageT |-> Words(Speaker(m.role), m.blocks)]
SameTools(uses, calls) == Len(uses) = Len(calls) /\ \A k \in 1..Len(calls) : uses[k].tool = calls[k].tool
(* A payload says and calls what its item does.                             *)
Replays(x) ==
    /\ x.payload.provider \in WireProviders /\ x.payload.format = FormatOf[x.payload.provider]
    /\ Words("llm", x.payload.blocks) = Words("llm", Texts(x) \o Uses(x))
    /\ SameTools(UsesOf(x.payload.blocks), x.calls)
Talks ==
    {x \in ItemT : /\ x.role = "tool" => Len(x.calls) = 1
                   /\ x.role # "assistant" => x.payload = NoPayload
                   /\ x.role \in {"system", "user"} => x.calls = <<>>
                   /\ x.role = "assistant" => x.text # 0 \/ x.calls # <<>> \/ x.payload # NoPayload
                   /\ x.payload # NoPayload => Replays(x)}
ItemWords == [x \in Talks |-> Words(Speaker(x.role), BlocksOf(x))]

LEMMA WordMaps ==
    ASSUME NEW by \in Voices
    PROVE  /\ WordMap(by) \in Maps(BlockT, Seq(WordT)) /\ \A b \in BlockT : WordMap(by)[b] = Word(by, b)
           /\ \A q \in Seq(BlockT) : Words(by, q) = Spread(WordMap(by), q)
<1>1. ASSUME NEW b \in BlockT PROVE Word(by, b) \in Seq(WordT)
  <2>1. <<by, b.type, b.tool, b.text>> \in WordT
    BY DEF WordT
  <2> HIDE DEF WordT
  <2> QED
    BY <2>1 DEF Word
<1>2. WordMap(by) \in Maps(BlockT, Seq(WordT)) /\ \A b \in BlockT : WordMap(by)[b] = Word(by, b)
  <2> HIDE DEF WordT, BlockT, Word
  <2> QED
    BY <1>1 DEF WordMap, Maps
<1>3. ASSUME NEW q \in Seq(BlockT) PROVE Words(by, q) = Spread(WordMap(by), q)
  <2> HIDE DEF BlockT, Word
  <2>1. \A k \in DOMAIN q : Word(by, q[k]) = WordMap(by)[q[k]]
    <3>1. \A k \in DOMAIN q : q[k] \in BlockT
      OBVIOUS
    <3> QED
      BY <1>2, <3>1
  <2>2. [k \in DOMAIN q |-> Word(by, q[k])] = [k \in DOMAIN q |-> WordMap(by)[q[k]]]
    BY <2>1
  <2> QED
    BY <2>2 DEF Words, Spread, Each
<1> QED
  BY <1>2, <1>3

LEMMA WordsJoined ==
    ASSUME NEW by \in Voices, NEW p \in Seq(BlockT), NEW q \in Seq(BlockT)
    PROVE  /\ Words(by, p) \in Seq(WordT)
           /\ Words(by, p \o q) = Words(by, p) \o Words(by, q)
<1> HIDE DEF BlockT, WordT
<1>1. PICK f \in Maps(BlockT, Seq(WordT)) : f = WordMap(by)
  BY WordMaps
<1>2. p \o q \in Seq(BlockT)
  OBVIOUS
<1>3. Spread(f, p) \in Seq(WordT) /\ Spread(f, p \o q) = Spread(f, p) \o Spread(f, q)
  BY SpreadJoined
<1>4. Words(by, p) = Spread(f, p) /\ Words(by, q) = Spread(f, q) /\ Words(by, p \o q) = Spread(f, p \o q)
  BY <1>1, <1>2, WordMaps
<1> QED
  BY <1>3, <1>4

LEMMA WordsNone ==
    ASSUME NEW by \in Voices, NEW q \in Seq(BlockT),
           by = "system" \/ \A k \in 1..Len(q) : q[k].type = "think"
    PROVE  Words(by, q) = <<>>
<1>1. PICK f \in Maps(BlockT, Seq(WordT)) : f = WordMap(by)
  BY WordMaps
<1>2. ASSUME NEW k \in 1..Len(q) PROVE f[q[k]] = <<>>
  <2>1. q[k] \in BlockT
    BY ElementOfSeq
  <2>2. f[q[k]] = Word(by, q[k])
    <3> HIDE DEF BlockT, WordT
    <3> QED
      BY <1>1, <2>1, WordMaps
  <2> QED
    BY <2>2 DEF Word
<1> HIDE DEF BlockT, WordT
<1>3. Spread(f, q) = <<>>
  BY <1>2, SpreadDrops
<1> QED
  BY <1>1, <1>3, WordMaps

LEMMA WordsOne ==
    ASSUME NEW by \in Voices, NEW b \in BlockT
    PROVE  Words(by, <<>>) = <<>> /\ Words(by, <<b>>) = Word(by, b) /\ <<b>> \in Seq(BlockT)
<1> HIDE DEF BlockT, WordT
<1>1. PICK f \in Maps(BlockT, Seq(WordT)) : f = WordMap(by)
  BY WordMaps
<1>2. Spread(f, <<>>) = <<>> /\ Spread(f, <<b>>) = f[b]
  BY SpreadOne
<1>3. <<>> \in Seq(BlockT) /\ <<b>> \in Seq(BlockT)
  OBVIOUS
<1> QED
  BY <1>1, <1>2, <1>3, WordMaps

LEMMA SpeakerIs ==
    /\ \A role \in TalkRoles \cup {"function", "model"} : Speaker(role) \in Voices
    /\ Speaker("system") = "system" /\ Speaker("user") = "user" /\ Speaker("tool") = "user"
    /\ Speaker("function") = "user" /\ Speaker("model") = "llm" /\ Speaker("assistant") = "llm"
  BY DEF Speaker, Voices, TalkRoles

LEMMA MessageMaps ==
    /\ MessageWords \in Maps(MessageT, Seq(WordT))
    /\ \A m \in MessageT : MessageWords[m] = Words(Speaker(m.role), m.blocks)
    /\ \A q \in Seq(MessageT) : Content(q) = Spread(MessageWords, q)
<1>1. ASSUME NEW m \in MessageT PROVE Words(Speaker(m.role), m.blocks) \in Seq(WordT)
  <2>1. m.blocks \in Seq(BlockT) /\ Speaker(m.role) \in Voices
    <3> HIDE DEF BlockT
    <3> QED
      BY SpeakerIs DEF MessageT
  <2> HIDE DEF BlockT, WordT
  <2> QED
    BY <2>1, WordsJoined
<1>2. MessageWords \in Maps(MessageT, Seq(WordT)) /\ \A m \in MessageT : MessageWords[m] = Words(Speaker(m.role), m.blocks)
  <2> HIDE DEF MessageT, WordT, Words
  <2> QED
    BY <1>1 DEF MessageWords, Maps
<1>3. ASSUME NEW q \in Seq(MessageT) PROVE Content(q) = Spread(MessageWords, q)
  <2> HIDE DEF MessageT, Words, MessageWords, Speaker
  <2>1. \A k \in DOMAIN q : Words(Speaker(q[k].role), q[k].blocks) = MessageWords[q[k]]
    <3>1. \A k \in DOMAIN q : q[k] \in MessageT
      OBVIOUS
    <3> QED
      BY <1>2, <3>1
  <2>2. [k \in DOMAIN q |-> Words(Speaker(q[k].role), q[k].blocks)] = [k \in DOMAIN q |-> MessageWords[q[k]]]
    BY <2>1
  <2> QED
    BY <2>2 DEF Content, Spread, Each
<1> QED
  BY <1>2, <1>3

LEMMA ContentOne ==
    ASSUME NEW role \in TalkRoles \cup {"function", "model"}, NEW blocks \in Seq(BlockT)
    PROVE  /\ Content(<<>>) = <<>> /\ Content(<<Message(role, blocks)>>) = Words(Speaker(role), blocks)
           /\ <<Message(role, blocks)>> \in Seq(MessageT)
<1> HIDE DEF BlockT, WordT
<1>1. PICK m \in MessageT : m = Message(role, blocks)
  BY DEF Message, MessageT
<1>2. m.role = role /\ m.blocks = blocks
  BY <1>1 DEF Message
<1> HIDE DEF MessageT
<1>3. PICK f \in Maps(MessageT, Seq(WordT)) : f = MessageWords
  BY MessageMaps
<1>4. Spread(f, <<>>) = <<>> /\ Spread(f, <<m>>) = f[m]
  BY SpreadOne
<1>5. <<>> \in Seq(MessageT) /\ <<m>> \in Seq(MessageT)
  OBVIOUS
<1> QED
  BY <1>1, <1>2, <1>3, <1>4, <1>5, MessageMaps

LEMMA ItemBlocks ==
    ASSUME NEW x \in ItemT
    PROVE  /\ Texts(x) \in Seq(BlockT) /\ \A k \in 1..Len(Texts(x)) : Texts(x)[k].type = "text"
           /\ Uses(x) \in Seq(BlockT) /\ Len(Uses(x)) = Len(x.calls)
           /\ \A k \in 1..Len(Uses(x)) :
                 Uses(x)[k].type = "use" /\ Uses(x)[k].tool = x.calls[k].tool /\ Uses(x)[k].text = 0
           /\ Texts(x) \o Uses(x) \in Seq(BlockT) /\ x.payload.blocks \in Seq(BlockT)
           /\ x.text \in Nat /\ x.calls \in Seq(CallT) /\ x.payload \in PayloadT /\ x.role \in TalkRoles
<1>1. x.text \in Nat /\ x.calls \in Seq(CallT) /\ x.payload \in PayloadT /\ x.role \in TalkRoles
  <2> HIDE DEF CallT, PayloadT
  <2> QED
    BY DEF ItemT
<1>2. PICK n \in Nat : n = Len(x.calls)
  <2> HIDE DEF CallT
  <2> QED
    BY <1>1
<1>3. \A k \in 1..n : x.calls[k] \in CallT
  <2> HIDE DEF CallT
  <2> QED
    BY <1>1, <1>2, ElementOfSeq
<1>4. DOMAIN x.calls = 1..n
  <2> HIDE DEF CallT
  <2> QED
    BY <1>1, <1>2
<1>5. Texts(x) \in Seq(BlockT) /\ \A k \in 1..Len(Texts(x)) : Texts(x)[k].type = "text"
  <2>1. TextBlock(x.text) \in BlockT /\ TextBlock(x.text).type = "text"
    <3>1. Id(0) \in IdT
      BY DEF Id, IdT, Names
    <3>2. "none" \in Names
      BY DEF Names
    <3> HIDE DEF IdT, Names
    <3> QED
      BY <1>1, <3>1, <3>2 DEF TextBlock, BlockT
  <2>2. PICK b \in BlockT : b = TextBlock(x.text) /\ b.type = "text"
    BY <2>1
  <2> HIDE DEF BlockT
  <2>3. CASE x.text = 0
    BY <2>3 DEF Texts
  <2>4. CASE x.text # 0
    <3>1. Texts(x) = <<b>>
      BY <2>2, <2>4 DEF Texts
    <3> QED
      BY <2>2, <3>1
  <2> QED
    BY <2>3, <2>4
<1>6. \A k \in 1..n : /\ Use(x.calls[k].id, x.calls[k].tool) \in BlockT
                      /\ Use(x.calls[k].id, x.calls[k].tool).type = "use"
                      /\ Use(x.calls[k].id, x.calls[k].tool).tool = x.calls[k].tool
                      /\ Use(x.calls[k].id, x.calls[k].tool).text = 0
  BY <1>3 DEF Use, BlockT, CallT
<1>7. PICK uses \in Seq(BlockT) :
         /\ uses = Uses(x) /\ Len(uses) = n
         /\ \A k \in 1..n : uses[k].type = "use" /\ uses[k].tool = x.calls[k].tool /\ uses[k].text = 0
  <2>1. Uses(x) = [k \in 1..n |-> Use(x.calls[k].id, x.calls[k].tool)]
    BY <1>4 DEF Uses
  <2> HIDE DEF BlockT, Use
  <2>2. Uses(x) \in Seq(BlockT) /\ Len(Uses(x)) = n
    BY <1>2, <1>6, <2>1
  <2>3. \A k \in 1..n : Uses(x)[k] = Use(x.calls[k].id, x.calls[k].tool)
    BY <2>1
  <2> QED
    BY <1>6, <2>2, <2>3
<1>8. x.payload.blocks \in Seq(BlockT)
  <2> HIDE DEF BlockT
  <2> QED
    BY <1>1 DEF PayloadT
<1>9. Texts(x) \o Uses(x) \in Seq(BlockT)
  <2> HIDE DEF BlockT
  <2> QED
    BY <1>5, <1>7
<1> QED
  BY <1>1, <1>2, <1>5, <1>7, <1>8, <1>9

LEMMA BlocksAre ==
    ASSUME NEW x \in Talks
    PROVE  /\ Texts(x) \in Seq(BlockT) /\ \A k \in 1..Len(Texts(x)) : Texts(x)[k].type = "text"
           /\ Uses(x) \in Seq(BlockT) /\ Len(Uses(x)) = Len(x.calls)
           /\ \A k \in 1..Len(Uses(x)) : Uses(x)[k].type = "use" /\ Uses(x)[k].tool = x.calls[k].tool
           /\ x.role = "tool" =>
                 /\ Result(x) \in BlockT /\ Result(x).type = "result" /\ Result(x).tool = x.calls[1].tool
           /\ BlocksOf(x) \in Seq(BlockT) /\ Texts(x) \o Uses(x) \in Seq(BlockT)
           /\ x.payload.blocks \in Seq(BlockT) /\ x.role \in TalkRoles
<1>1. x \in ItemT
  BY DEF Talks
<1>2. /\ Texts(x) \in Seq(BlockT) /\ \A k \in 1..Len(Texts(x)) : Texts(x)[k].type = "text"
      /\ Uses(x) \in Seq(BlockT) /\ Len(Uses(x)) = Len(x.calls)
      /\ \A k \in 1..Len(Uses(x)) :
            Uses(x)[k].type = "use" /\ Uses(x)[k].tool = x.calls[k].tool /\ Uses(x)[k].text = 0
      /\ Texts(x) \o Uses(x) \in Seq(BlockT) /\ x.payload.blocks \in Seq(BlockT)
      /\ x.text \in Nat /\ x.calls \in Seq(CallT) /\ x.payload \in PayloadT /\ x.role \in TalkRoles
  <2> HIDE DEF BlockT, CallT, PayloadT, ItemT, Talks
  <2> QED
    BY <1>1, ItemBlocks
<1>3. ASSUME x.role = "tool"
      PROVE  Result(x) \in BlockT /\ Result(x).type = "result" /\ Result(x).tool = x.calls[1].tool
  <2>1. x.role = "tool" => Len(x.calls) = 1
    <3> HIDE DEF ItemT
    <3> QED
      BY DEF Talks
  <2>2. x.calls[1] \in CallT
    <3>1. Len(x.calls) = 1 /\ x.calls \in Seq(CallT)
      BY <1>2, <1>3, <2>1
    <3>2. 1 \in 1..Len(x.calls)
      BY <3>1
    <3> HIDE DEF CallT
    <3> QED
      BY <3>1, <3>2, ElementOfSeq
  <2>3. x.text \in Nat
    BY <1>2
  <2> QED
    BY <2>2, <2>3 DEF Result, BlockT, CallT
<1>4. BlocksOf(x) \in Seq(BlockT)
  <2>1. CASE x.role = "tool"
    <3>1. PICK b \in BlockT : b = Result(x)
      BY <1>3, <2>1
    <3> HIDE DEF BlockT
    <3>2. <<b>> \in Seq(BlockT)
      OBVIOUS
    <3> QED
      BY <2>1, <3>1, <3>2 DEF BlocksOf
  <2>2. CASE x.role # "tool"
    BY <1>2, <2>2 DEF BlocksOf
  <2> QED
    BY <2>1, <2>2
<1> QED
  BY <1>2, <1>3, <1>4

LEMMA ItemWordMaps ==
    /\ ItemWords \in Maps(Talks, Seq(WordT))
    /\ \A x \in Talks : ItemWords[x] = Words(Speaker(x.role), BlocksOf(x))
    /\ talk \in Seq(Talks) => ContentOfTalk = Spread(ItemWords, talk)
<1>1. ASSUME NEW x \in Talks PROVE Words(Speaker(x.role), BlocksOf(x)) \in Seq(WordT)
  <2>1. BlocksOf(x) \in Seq(BlockT) /\ Speaker(x.role) \in Voices
    BY BlocksAre, SpeakerIs
  <2> HIDE DEF BlockT, WordT
  <2> QED
    BY <2>1, WordsJoined
<1>2. ItemWords \in Maps(Talks, Seq(WordT)) /\ \A x \in Talks : ItemWords[x] = Words(Speaker(x.role), BlocksOf(x))
  <2> HIDE DEF Talks, WordT, Words
  <2> QED
    BY <1>1 DEF ItemWords, Maps
<1>3. ASSUME talk \in Seq(Talks) PROVE ContentOfTalk = Spread(ItemWords, talk)
  <2> HIDE DEF Talks, Words, ItemWords, Speaker, BlocksOf
  <2>1. \A k \in DOMAIN talk : Words(Speaker(talk[k].role), BlocksOf(talk[k])) = ItemWords[talk[k]]
    <3>1. \A k \in DOMAIN talk : talk[k] \in Talks
      BY <1>3
    <3> QED
      BY <1>2, <3>1
  <2>2. [k \in DOMAIN talk |-> Words(Speaker(talk[k].role), BlocksOf(talk[k]))] = [k \in DOMAIN talk |-> ItemWords[talk[k]]]
    BY <2>1
  <2> QED
    BY <2>2 DEF ContentOfTalk, Spread, Each
<1> QED
  BY <1>2, <1>3

(* What is sent of an item, for itself.                                     *)
SameWords(f) == \A x \in Talks : Content(f[x]) = ItemWords[x]

LEMMA SpreadContent ==
    ASSUME NEW f \in Maps(Talks, Seq(MessageT)), NEW q \in Seq(Talks), SameWords(f)
    PROVE  Content(Spread(f, q)) = Spread(ItemWords, q)
<1> HIDE DEF Talks, MessageT, WordT, MessageWords, ItemWords
<1>1. PICK n \in Nat : n = Len(q) /\ DOMAIN q = 1..n
  OBVIOUS
<1>2. PICK ss \in Seq(Seq(MessageT)) : /\ ss = Each(f, q) /\ Len(ss) = n
                                       /\ \A k \in 1..n : ss[k] = f[q[k]]
  BY <1>1, EachIs
<1>3. PICK g \in Maps(MessageT, Seq(WordT)) : g = MessageWords
  BY MessageMaps
<1>4. Spread(g, FlattenSeq(ss)) = FlattenSeq(SpreadParts(g, ss))
  BY SpreadFlat
<1>5. FlattenSeq(ss) \in Seq(MessageT)
  BY FlattenType
<1>6. Content(FlattenSeq(ss)) = FlattenSeq(SpreadParts(g, ss))
  BY <1>3, <1>4, <1>5, MessageMaps
<1>7. SpreadParts(g, ss) = Each(ItemWords, q)
  <2>1. ASSUME NEW k \in 1..n PROVE Spread(g, ss[k]) = ItemWords[q[k]]
    <3>1. q[k] \in Talks
      BY <1>1, ElementOfSeq
    <3>2. ss[k] = f[q[k]] /\ Content(f[q[k]]) = ItemWords[q[k]]
      BY <1>2, <3>1 DEF SameWords
    <3>3. ss[k] \in Seq(MessageT)
      BY <1>2
    <3>4. Content(ss[k]) = Spread(g, ss[k])
      BY <1>3, <3>3, MessageMaps
    <3> QED
      BY <3>2, <3>4
  <2>2. SpreadParts(g, ss) = [k \in 1..n |-> Spread(g, ss[k])] /\ Each(ItemWords, q) = [k \in 1..n |-> ItemWords[q[k]]]
    BY <1>1, <1>2 DEF SpreadParts, Each
  <2> QED
    BY <2>1, <2>2
<1> QED
  BY <1>2, <1>6, <1>7 DEF Spread

LEMMA ReplayWords ==
    ASSUME NEW x \in Talks, NEW p
    PROVE  /\ AssistantBlocks(x, p) \in Seq(BlockT)
           /\ Words("llm", AssistantBlocks(x, p)) = Words("llm", Texts(x) \o Uses(x))
<1>1. Texts(x) \o Uses(x) \in Seq(BlockT) /\ x.payload.blocks \in Seq(BlockT)
  BY BlocksAre
<1>2. CASE Matches(x, p)
  <2>1. x.payload # NoPayload
    BY <1>2 DEF Matches
  <2>2. Words("llm", x.payload.blocks) = Words("llm", Texts(x) \o Uses(x))
    BY <2>1 DEF Talks, Replays
  <2> QED
    BY <1>1, <1>2, <2>2 DEF AssistantBlocks
<1>3. CASE ~Matches(x, p)
  BY <1>1, <1>3 DEF AssistantBlocks
<1> QED
  BY <1>2, <1>3

LEMMA UnlessEmpty ==
    ASSUME NEW role \in TalkRoles \cup {"function", "model"}, NEW blocks \in Seq(BlockT)
    PROVE  /\ MessageUnlessEmpty(role, blocks) \in Seq(MessageT)
           /\ Content(MessageUnlessEmpty(role, blocks)) = Words(Speaker(role), blocks)
<1>1. /\ Content(<<>>) = <<>> /\ Content(<<Message(role, blocks)>>) = Words(Speaker(role), blocks)
      /\ <<Message(role, blocks)>> \in Seq(MessageT)
  BY ContentOne
<1>2. PICK by \in Voices : by = Speaker(role)
  BY SpeakerIs
<1>3. Words(by, <<>>) = <<>> /\ <<>> \in Seq(MessageT)
  <2>1. \A k \in 1..Len(<<>>) : <<>>[k].type = "think"
    OBVIOUS
  <2>2. <<>> \in Seq(BlockT) /\ <<>> \in Seq(MessageT)
    OBVIOUS
  <2> HIDE DEF BlockT
  <2> QED
    BY <2>1, <2>2, WordsNone
<1>4. CASE blocks = <<>>
  BY <1>1, <1>2, <1>3, <1>4 DEF MessageUnlessEmpty
<1>5. CASE blocks # <<>>
  BY <1>1, <1>5 DEF MessageUnlessEmpty
<1> QED
  BY <1>4, <1>5

TypedBlocks(type) == {b \in BlockT : b.type = type}

LEMMA TypedAre ==
    ASSUME NEW q \in Seq(BlockT), NEW type
    PROVE  /\ Picked(q, OfType(q, type)) = Filtered(q, TypedBlocks(type))
           /\ Picked(q, OfType(q, type)) \in Seq(BlockT)
           /\ \A k \in 1..Len(Picked(q, OfType(q, type))) : Picked(q, OfType(q, type))[k].type = type
<1>1. OfType(q, type) = {k \in DOMAIN q : q[k] \in TypedBlocks(type)}
  <2>1. \A k \in DOMAIN q : q[k] \in BlockT
    <3> HIDE DEF BlockT
    <3> QED
      OBVIOUS
  <2> HIDE DEF BlockT
  <2> QED
    BY <2>1 DEF OfType, TypedBlocks
<1>2. PICK at : at = OfType(q, type) /\ at \subseteq DOMAIN q /\ \A i \in at : q[i].type = type
  <2>1. OfType(q, type) \subseteq DOMAIN q /\ \A i \in OfType(q, type) : q[i].type = type
    BY DEF OfType
  <2> QED
    BY <2>1
<1> HIDE DEF BlockT
<1>3. PICK s \in Seq(BlockT) : s = Picked(q, at) /\ ToSet(s) = {q[i] : i \in at}
  BY <1>2, PickedIs
<1>4. ASSUME NEW k \in 1..Len(s) PROVE s[k].type = type
  <2>1. s[k] \in ToSet(s)
    BY DEF ToSet
  <2> QED
    BY <1>2, <1>3, <2>1
<1> QED
  BY <1>1, <1>2, <1>3, <1>4 DEF Filtered

LEMMA ItemWordsAre ==
    ASSUME NEW x \in Talks
    PROVE  /\ x.role = "system" => ItemWords[x] = <<>>
           /\ x.role = "user" => ItemWords[x] = Words("user", Texts(x)) /\ Uses(x) = <<>>
           /\ x.role = "tool" => ItemWords[x] = Words("user", <<Result(x)>>)
           /\ x.role = "assistant" => ItemWords[x] = Words("llm", Texts(x) \o Uses(x))
<1>1. ItemWords[x] = Words(Speaker(x.role), BlocksOf(x)) /\ BlocksOf(x) \in Seq(BlockT)
  BY ItemWordMaps, BlocksAre
<1>2. CASE x.role = "system"
  <2>1. Speaker(x.role) = "system" /\ "system" \in Voices
    BY <1>2, SpeakerIs DEF Voices
  <2> HIDE DEF BlockT
  <2> QED
    BY <1>1, <1>2, <2>1, WordsNone
<1>3. CASE x.role = "user"
  <2>1. x.calls = <<>>
    <3> HIDE DEF ItemT
    <3> QED
      BY <1>3 DEF Talks
  <2>2. Uses(x) = <<>>
    BY <2>1 DEF Uses
  <2>3. PICK t \in Seq(BlockT) : t = Texts(x)
    BY BlocksAre
  <2>4. BlocksOf(x) = t
    <3>1. BlocksOf(x) = t \o <<>>
      BY <1>3, <2>2, <2>3 DEF BlocksOf
    <3>2. t \o <<>> = t
      <4> HIDE DEF BlockT
      <4> QED
        BY ConcatEmptySeq
    <3> QED
      BY <3>1, <3>2
  <2>5. Speaker(x.role) = "user"
    BY <1>3, SpeakerIs
  <2> QED
    BY <1>1, <1>3, <2>2, <2>3, <2>4, <2>5
<1>4. CASE x.role = "tool"
  BY <1>1, <1>4, SpeakerIs DEF BlocksOf
<1>5. CASE x.role = "assistant"
  BY <1>1, <1>5, SpeakerIs DEF BlocksOf
<1>6. x.role \in {"system", "user", "assistant", "tool"}
  BY BlocksAre DEF TalkRoles
<1> QED
  BY <1>2, <1>3, <1>4, <1>5, <1>6

LEMMA ResultMessage ==
    ASSUME NEW x \in Talks, x.role = "tool", NEW role \in {"tool", "function"}
    PROVE  /\ <<Message(role, <<Result(x)>>)>> \in Seq(MessageT)
           /\ Content(<<Message(role, <<Result(x)>>)>>) = ItemWords[x]
<1>1. PICK b \in BlockT : b = Result(x)
  BY BlocksAre
<1>2. <<b>> \in Seq(BlockT)
  <2> HIDE DEF BlockT
  <2> QED
    OBVIOUS
<1>3. role \in TalkRoles \cup {"function", "model"} /\ Speaker(role) = "user"
  BY SpeakerIs DEF TalkRoles
<1>4. PICK q \in Seq(BlockT) : q = <<b>>
  BY <1>2
<1>5. /\ Content(<<Message(role, q)>>) = Words(Speaker(role), q)
      /\ <<Message(role, q)>> \in Seq(MessageT)
  BY <1>3, ContentOne
<1>6. ItemWords[x] = Words("user", <<Result(x)>>)
  BY ItemWordsAre
<1> QED
  BY <1>1, <1>3, <1>4, <1>5, <1>6

LEMMA TextMessage ==
    ASSUME NEW x \in Talks, x.role \in {"system", "user"}
    PROVE  /\ <<Message(x.role, Texts(x))>> \in Seq(MessageT)
           /\ Content(<<Message(x.role, Texts(x))>>) = ItemWords[x]
<1>1. x.role \in TalkRoles \cup {"function", "model"} /\ Texts(x) \in Seq(BlockT)
  BY BlocksAre
<1>2. /\ Content(<<Message(x.role, Texts(x))>>) = Words(Speaker(x.role), Texts(x))
      /\ <<Message(x.role, Texts(x))>> \in Seq(MessageT)
  BY <1>1, ContentOne
<1>3. CASE x.role = "user"
  BY <1>2, <1>3, SpeakerIs, ItemWordsAre
<1>4. CASE x.role = "system"
  <2>1. Words("system", Texts(x)) = <<>>
    BY <1>1, WordsNone DEF Voices
  <2> QED
    BY <1>2, <1>4, <2>1, SpeakerIs, ItemWordsAre
<1> QED
  BY <1>2, <1>3, <1>4

(* DefaultLLM_API_Impl.build_messages                                       *)
LEMMA OpenAiItem ==
    ASSUME NEW x \in Talks, NEW p
    PROVE  OpenAiMessage(x, p) \in Seq(MessageT) /\ Content(OpenAiMessage(x, p)) = ItemWords[x]
<1>1. CASE x.role \in {"system", "user"}
  <2>1. OpenAiMessage(x, p) = <<Message(x.role, Texts(x))>>
    BY <1>1 DEF OpenAiMessage
  <2> QED
    BY <1>1, <2>1, TextMessage
<1>2. CASE x.role = "tool"
  <2>1. OpenAiMessage(x, p) = <<Message("tool", <<Result(x)>>)>>
    BY <1>2 DEF OpenAiMessage
  <2> QED
    BY <1>2, <2>1, ResultMessage
<1>3. CASE x.role = "assistant"
  <2>1. PICK extra \in Seq(BlockT) :
          /\ extra = IF Matches(x, p) THEN Thinking(x) ELSE <<>>
          /\ \A k \in 1..Len(extra) : extra[k].type = "think"
    <3>1. Thinking(x) \in Seq(BlockT) /\ \A k \in 1..Len(Thinking(x)) : Thinking(x)[k].type = "think"
      BY BlocksAre, TypedAre DEF Thinking
    <3>2. <<>> \in Seq(BlockT) /\ \A k \in 1..Len(<<>>) : <<>>[k].type = "think"
      OBVIOUS
    <3> QED
      BY <3>1, <3>2
  <2>2. PICK t \in Seq(BlockT), u \in Seq(BlockT) : t = Texts(x) /\ u = Uses(x)
    BY BlocksAre
  <2> HIDE DEF BlockT
  <2>3. OpenAiMessage(x, p) = MessageUnlessEmpty("assistant", extra \o t \o u)
    BY <1>3, <2>1, <2>2 DEF OpenAiMessage
  <2>4. extra \o t \o u = extra \o (t \o u) /\ t \o u \in Seq(BlockT) /\ extra \o (t \o u) \in Seq(BlockT)
    BY ConcatAssociative
  <2>5. PICK tu \in Seq(BlockT) : tu = t \o u
    BY <2>4
  <2>6. PICK all \in Seq(BlockT) : all = extra \o tu /\ all = extra \o t \o u
    BY <2>4, <2>5
  <2>7. "llm" \in Voices /\ "assistant" \in TalkRoles \cup {"function", "model"} /\ Speaker("assistant") = "llm"
    BY SpeakerIs DEF Voices, TalkRoles
  <2>8. /\ MessageUnlessEmpty("assistant", all) \in Seq(MessageT)
        /\ Content(MessageUnlessEmpty("assistant", all)) = Words("llm", all)
    BY <2>7, UnlessEmpty
  <2>9. Words("llm", all) = Words("llm", extra) \o Words("llm", tu)
    BY <2>6, <2>7, WordsJoined, ZenonT(30)
  <2>10. Words("llm", extra) = <<>>
    BY <2>1, <2>7, WordsNone
  <2>11. PICK w \in Seq(WordT) : w = Words("llm", tu)
    BY <2>7, WordsJoined
  <2>12. <<>> \o w = w
    <3> HIDE DEF WordT
    <3> QED
      BY ConcatEmptySeq
  <2>13. ItemWords[x] = w
    BY <1>3, <2>2, <2>5, <2>11, ItemWordsAre
  <2> QED
    BY <2>3, <2>6, <2>8, <2>9, <2>10, <2>11, <2>12, <2>13
<1>4. x.role \in {"system", "user", "assistant", "tool"}
  BY BlocksAre DEF TalkRoles
<1> QED
  BY <1>1, <1>2, <1>3, <1>4

(* VertexAI_API.build_contents                                              *)
LEMMA VertexItem ==
    ASSUME NEW x \in Talks, NEW p
    PROVE  VertexContent(x, p) \in Seq(MessageT) /\ Content(VertexContent(x, p)) = ItemWords[x]
<1>1. CASE x.role = "system"
  <2>1. VertexContent(x, p) = <<>> /\ <<>> \in Seq(MessageT)
    BY <1>1 DEF VertexContent
  <2>2. Content(<<>>) = <<>>
    BY DEF Content, FlattenSeq
  <2> QED
    BY <1>1, <2>1, <2>2, ItemWordsAre
<1>2. CASE x.role = "user"
  <2>1. Texts(x) \in Seq(BlockT) /\ "user" \in TalkRoles \cup {"function", "model"} /\ Speaker("user") = "user"
    BY BlocksAre, SpeakerIs DEF TalkRoles
  <2>2. /\ MessageUnlessEmpty("user", Texts(x)) \in Seq(MessageT)
        /\ Content(MessageUnlessEmpty("user", Texts(x))) = Words("user", Texts(x))
    BY <2>1, UnlessEmpty
  <2>3. VertexContent(x, p) = MessageUnlessEmpty("user", Texts(x))
    BY <1>2 DEF VertexContent
  <2> QED
    BY <1>2, <2>2, <2>3, ItemWordsAre
<1>3. CASE x.role = "tool"
  <2>1. VertexContent(x, p) = <<Message("function", <<Result(x)>>)>>
    BY <1>3 DEF VertexContent
  <2> QED
    BY <1>3, <2>1, ResultMessage
<1>4. CASE x.role = "assistant"
  <2>1. PICK q \in Seq(BlockT) : q = AssistantBlocks(x, p) /\ Words("llm", q) = Words("llm", Texts(x) \o Uses(x))
    BY ReplayWords
  <2>2. "model" \in TalkRoles \cup {"function", "model"} /\ Speaker("model") = "llm"
    BY SpeakerIs
  <2>3. /\ MessageUnlessEmpty("model", q) \in Seq(MessageT)
        /\ Content(MessageUnlessEmpty("model", q)) = Words("llm", q)
    BY <2>2, UnlessEmpty
  <2>4. VertexContent(x, p) = MessageUnlessEmpty("model", q)
    BY <1>4, <2>1 DEF VertexContent
  <2> QED
    BY <1>4, <2>1, <2>3, <2>4, ItemWordsAre
<1>5. x.role \in {"system", "user", "assistant", "tool"}
  BY BlocksAre DEF TalkRoles
<1> QED
  BY <1>1, <1>2, <1>3, <1>4, <1>5

(* Thinking that is sent, and that of an item which came from p.            *)
ThoughtsIn(q) == UNION {Thoughts(q[i].blocks) : i \in DOMAIN q}
OwnThoughts(x, p) == IF x.payload.provider = p THEN Thoughts(x.payload.blocks) ELSE {}

LEMMA ThoughtsJoined ==
    ASSUME NEW a \in Seq(BlockT), NEW b \in Seq(BlockT), NEW q \in Seq(BlockT), q = a \o b
    PROVE  Thoughts(q) = Thoughts(a) \cup Thoughts(b)
<1> HIDE DEF BlockT
<1>1. JoinAt(a, b, q)
  BY Joined
<1>2. PICK m \in Nat, n \in Nat : m = Len(a) /\ n = Len(b)
  OBVIOUS
<1>3. /\ Len(q) = m + n /\ DOMAIN q = 1..m + n /\ DOMAIN a = 1..m /\ DOMAIN b = 1..n
      /\ \A i \in 1..m : q[i] = a[i]
      /\ \A i \in 1..n : q[m + i] = b[i]
      /\ \A i \in m + 1..m + n : q[i] = b[i - m]
  BY <1>1, <1>2 DEF JoinAt
<1>4. ASSUME NEW t \in Thoughts(q) PROVE t \in Thoughts(a) \cup Thoughts(b)
  <2>1. PICK k \in 1..m + n : q[k].type = "think" /\ t = q[k].text
    BY <1>3 DEF Thoughts, OfType
  <2>2. CASE k <= m
    <3>1. k \in DOMAIN a /\ a[k] = q[k]
      BY <1>3, <2>2
    <3> QED
      BY <2>1, <3>1 DEF Thoughts, OfType
  <2>3. CASE k > m
    <3>1. k - m \in DOMAIN b /\ b[k - m] = q[k]
      BY <1>3, <2>3
    <3> QED
      BY <2>1, <3>1 DEF Thoughts, OfType
  <2> QED
    BY <2>2, <2>3
<1>5. ASSUME NEW t \in Thoughts(a) PROVE t \in Thoughts(q)
  <2>1. PICK k \in 1..m : a[k].type = "think" /\ t = a[k].text
    BY <1>3 DEF Thoughts, OfType
  <2>2. k \in DOMAIN q /\ a[k] = q[k]
    BY <1>3
  <2> QED
    BY <2>1, <2>2 DEF Thoughts, OfType
<1>6. ASSUME NEW t \in Thoughts(b) PROVE t \in Thoughts(q)
  <2>1. PICK k \in 1..n : b[k].type = "think" /\ t = b[k].text
    BY <1>3 DEF Thoughts, OfType
  <2>2. m + k \in DOMAIN q /\ b[k] = q[m + k]
    BY <1>3
  <2> QED
    BY <2>1, <2>2 DEF Thoughts, OfType
<1> QED
  BY <1>1, <1>4, <1>5, <1>6

LEMMA ThoughtsNone ==
    ASSUME NEW q \in Seq(BlockT), \A k \in 1..Len(q) : q[k].type # "think"
    PROVE  Thoughts(q) = {}
<1>1. DOMAIN q = 1..Len(q)
  <2> HIDE DEF BlockT
  <2> QED
    OBVIOUS
<1> QED
  BY <1>1 DEF Thoughts, OfType

LEMMA ThoughtsPicked ==
    ASSUME NEW q \in Seq(BlockT)
    PROVE  Thoughts(Picked(q, OfType(q, "think"))) = Thoughts(q)
<1> HIDE DEF BlockT
<1>1. PICK at : at = OfType(q, "think") /\ at \subseteq DOMAIN q
  <2>1. OfType(q, "think") \subseteq DOMAIN q
    BY DEF OfType
  <2> QED
    BY <2>1
<1>2. PICK s \in Seq(BlockT) : s = Picked(q, at) /\ ToSet(s) = {q[i] : i \in at}
  BY <1>1, PickedIs
<1>3. \A k \in DOMAIN s : s[k].type = "think"
  <2>1. \A k \in 1..Len(s) : s[k].type = "think"
    BY <1>1, <1>2, TypedAre
  <2> QED
    BY <2>1
<1>4. ASSUME NEW t \in Thoughts(s) PROVE t \in Thoughts(q)
  <2>1. PICK k \in DOMAIN s : t = s[k].text
    BY DEF Thoughts, OfType
  <2>2. s[k] \in ToSet(s)
    BY DEF ToSet
  <2>3. PICK i \in at : s[k] = q[i]
    BY <1>2, <2>2
  <2> QED
    BY <1>1, <2>1, <2>3 DEF Thoughts
<1>5. ASSUME NEW t \in Thoughts(q) PROVE t \in Thoughts(s)
  <2>1. PICK i \in at : t = q[i].text
    BY <1>1 DEF Thoughts
  <2>2. q[i] \in ToSet(s)
    BY <1>2
  <2>3. PICK k \in DOMAIN s : s[k] = q[i]
    BY <2>2 DEF ToSet
  <2>4. k \in OfType(s, "think")
    BY <1>3 DEF OfType
  <2> QED
    BY <2>1, <2>3, <2>4 DEF Thoughts
<1> QED
  BY <1>1, <1>2, <1>4, <1>5

LEMMA OwnThoughtsAre ==
    ASSUME NEW x \in Talks, NEW p \in WireProviders
    PROVE  /\ x.payload.blocks \in Seq(BlockT)
           /\ Matches(x, p) => OwnThoughts(x, p) = Thoughts(x.payload.blocks)
           /\ ~Matches(x, p) => OwnThoughts(x, p) = {}
           /\ x.role # "assistant" => OwnThoughts(x, p) = {}
           /\ Thoughts(Texts(x)) = {} /\ Thoughts(Uses(x)) = {} /\ Thoughts(Texts(x) \o Uses(x)) = {}
<1>1. x.payload.blocks \in Seq(BlockT) /\ Texts(x) \in Seq(BlockT) /\ Uses(x) \in Seq(BlockT)
  BY BlocksAre
<1>2. Thoughts(Texts(x)) = {}
  <2>1. \A k \in 1..Len(Texts(x)) : Texts(x)[k].type = "text"
    BY BlocksAre
  <2>2. \A k \in 1..Len(Texts(x)) : Texts(x)[k].type # "think"
    BY <2>1
  <2> QED
    BY <1>1, <2>2, ThoughtsNone
<1>3. Thoughts(Uses(x)) = {}
  <2>1. \A k \in 1..Len(Uses(x)) : Uses(x)[k].type = "use"
    BY BlocksAre
  <2>2. \A k \in 1..Len(Uses(x)) : Uses(x)[k].type # "think"
    BY <2>1
  <2> QED
    BY <1>1, <2>2, ThoughtsNone
<1>4. Thoughts(Texts(x) \o Uses(x)) = {}
  <2>1. PICK q \in Seq(BlockT) : q = Texts(x) \o Uses(x)
    BY BlocksAre
  <2>2. Thoughts(q) = Thoughts(Texts(x)) \cup Thoughts(Uses(x))
    BY <1>1, <2>1, ThoughtsJoined
  <2> QED
    BY <1>2, <1>3, <2>1, <2>2
<1>5. x.payload = NoPayload => OwnThoughts(x, p) = {}
  BY DEF OwnThoughts, NoPayload, Thoughts, OfType
<1>6. x.payload # NoPayload => Replays(x)
  <2> HIDE DEF ItemT
  <2> QED
    BY DEF Talks
<1>7. Matches(x, p) => OwnThoughts(x, p) = Thoughts(x.payload.blocks)
  BY DEF Matches, OwnThoughts
<1>8. ~Matches(x, p) => OwnThoughts(x, p) = {}
  <2>1. CASE x.payload = NoPayload
    BY <1>5, <2>1
  <2>2. CASE x.payload # NoPayload
    BY <1>6, <2>2 DEF Matches, OwnThoughts, Replays
  <2> QED
    BY <2>1, <2>2
<1>9. x.role # "assistant" => OwnThoughts(x, p) = {}
  <2>1. x.role # "assistant" => x.payload = NoPayload
    <3> HIDE DEF ItemT
    <3> QED
      BY DEF Talks
  <2> QED
    BY <1>5, <2>1
<1> QED
  BY <1>1, <1>2, <1>3, <1>4, <1>7, <1>8, <1>9

LEMMA ThoughtsOne ==
    ASSUME NEW role, NEW blocks \in Seq(BlockT)
    PROVE  /\ ThoughtsIn(<<>>) = {} /\ ThoughtsIn(<<Message(role, blocks)>>) = Thoughts(blocks)
           /\ ThoughtsIn(MessageUnlessEmpty(role, blocks)) = Thoughts(blocks)
<1>1. ThoughtsIn(<<>>) = {}
  BY DEF ThoughtsIn
<1>2. ThoughtsIn(<<Message(role, blocks)>>) = Thoughts(blocks)
  <2>1. PICK q : q = <<Message(role, blocks)>>
    OBVIOUS
  <2>2. DOMAIN q = {1} /\ q[1].blocks = blocks
    BY <2>1 DEF Message
  <2> QED
    BY <2>1, <2>2 DEF ThoughtsIn
<1>3. Thoughts(<<>>) = {}
  BY DEF Thoughts, OfType
<1> QED
  BY <1>1, <1>2, <1>3 DEF MessageUnlessEmpty

LEMMA ReplayThoughts ==
    ASSUME NEW x \in Talks, NEW p \in WireProviders PROVE Thoughts(AssistantBlocks(x, p)) = OwnThoughts(x, p)
  BY OwnThoughtsAre DEF AssistantBlocks

LEMMA OpenAiThoughts ==
    ASSUME NEW x \in Talks, NEW p \in WireProviders PROVE ThoughtsIn(OpenAiMessage(x, p)) = OwnThoughts(x, p)
<1>1. CASE x.role \in {"system", "user"}
  <2>1. OpenAiMessage(x, p) = <<Message(x.role, Texts(x))>>
    BY <1>1 DEF OpenAiMessage
  <2>2. Texts(x) \in Seq(BlockT)
    BY BlocksAre
  <2>3. ThoughtsIn(<<Message(x.role, Texts(x))>>) = {}
    BY <2>2, ThoughtsOne, OwnThoughtsAre
  <2>4. OwnThoughts(x, p) = {}
    BY <1>1, OwnThoughtsAre
  <2> QED
    BY <2>1, <2>3, <2>4
<1>2. CASE x.role = "tool"
  <2>1. OpenAiMessage(x, p) = <<Message("tool", <<Result(x)>>)>>
    BY <1>2 DEF OpenAiMessage
  <2>2. PICK q \in Seq(BlockT) : q = <<Result(x)>> /\ Thoughts(q) = {}
    <3>1. PICK b \in BlockT : b = Result(x) /\ b.type = "result"
      BY <1>2, BlocksAre
    <3>2. <<b>> \in Seq(BlockT)
      <4> HIDE DEF BlockT
      <4> QED
        OBVIOUS
    <3>3. Thoughts(<<b>>) = {}
      BY <3>1 DEF Thoughts, OfType
    <3> QED
      BY <3>1, <3>2, <3>3
  <2>3. ThoughtsIn(<<Message("tool", q)>>) = {}
    BY <2>2, ThoughtsOne
  <2>4. OwnThoughts(x, p) = {}
    BY <1>2, OwnThoughtsAre
  <2> QED
    BY <2>1, <2>2, <2>3, <2>4
<1>3. CASE x.role = "assistant"
  <2>1. PICK extra \in Seq(BlockT) :
          /\ extra = IF Matches(x, p) THEN Thinking(x) ELSE <<>>
          /\ Thoughts(extra) = OwnThoughts(x, p)
    <3>1. Thinking(x) \in Seq(BlockT) /\ Thoughts(Thinking(x)) = Thoughts(x.payload.blocks)
      BY BlocksAre, TypedAre, ThoughtsPicked DEF Thinking
    <3>2. <<>> \in Seq(BlockT) /\ Thoughts(<<>>) = {}
      BY DEF Thoughts, OfType
    <3> QED
      BY <3>1, <3>2, OwnThoughtsAre
  <2>2. PICK t \in Seq(BlockT), u \in Seq(BlockT) :
          t = Texts(x) /\ u = Uses(x) /\ Thoughts(t) = {} /\ Thoughts(u) = {}
    BY BlocksAre, OwnThoughtsAre
  <2>3. PICK et \in Seq(BlockT) : et = extra \o t
    <3> HIDE DEF BlockT
    <3>1. extra \o t \in Seq(BlockT)
      OBVIOUS
    <3> QED
      BY <3>1
  <2>4. Thoughts(et) = OwnThoughts(x, p)
    <3>1. Thoughts(et) = Thoughts(extra) \cup Thoughts(t)
      BY <2>3, ThoughtsJoined
    <3> QED
      BY <2>1, <2>2, <3>1
  <2>5. PICK all \in Seq(BlockT) : all = et \o u
    <3> HIDE DEF BlockT
    <3>1. et \o u \in Seq(BlockT)
      OBVIOUS
    <3> QED
      BY <3>1
  <2>6. Thoughts(all) = OwnThoughts(x, p)
    <3>1. Thoughts(all) = Thoughts(et) \cup Thoughts(u)
      BY <2>5, ThoughtsJoined
    <3> QED
      BY <2>2, <2>3, <2>4, <3>1
  <2>7. OpenAiMessage(x, p) = MessageUnlessEmpty("assistant", all)
    BY <1>3, <2>1, <2>2, <2>3, <2>5 DEF OpenAiMessage
  <2> QED
    BY <2>6, <2>7, ThoughtsOne
<1>4. x.role \in {"system", "user", "assistant", "tool"}
  BY BlocksAre DEF TalkRoles
<1> QED
  BY <1>1, <1>2, <1>3, <1>4

LEMMA VertexThoughts ==
    ASSUME NEW x \in Talks, NEW p \in WireProviders PROVE ThoughtsIn(VertexContent(x, p)) = OwnThoughts(x, p)
<1>1. CASE x.role = "system"
  <2>1. VertexContent(x, p) = <<>> /\ ThoughtsIn(<<>>) = {}
    BY <1>1 DEF VertexContent, ThoughtsIn
  <2>2. OwnThoughts(x, p) = {}
    BY <1>1, OwnThoughtsAre
  <2> QED
    BY <2>1, <2>2
<1>2. CASE x.role = "user"
  <2>1. VertexContent(x, p) = MessageUnlessEmpty("user", Texts(x))
    BY <1>2 DEF VertexContent
  <2>2. Texts(x) \in Seq(BlockT) /\ Thoughts(Texts(x)) = {} /\ OwnThoughts(x, p) = {}
    BY <1>2, BlocksAre, OwnThoughtsAre
  <2> QED
    BY <2>1, <2>2, ThoughtsOne
<1>3. CASE x.role = "tool"
  <2>1. VertexContent(x, p) = <<Message("function", <<Result(x)>>)>>
    BY <1>3 DEF VertexContent
  <2>2. PICK q \in Seq(BlockT) : q = <<Result(x)>> /\ Thoughts(q) = {}
    <3>1. PICK b \in BlockT : b = Result(x) /\ b.type = "result"
      BY <1>3, BlocksAre
    <3>2. <<b>> \in Seq(BlockT)
      <4> HIDE DEF BlockT
      <4> QED
        OBVIOUS
    <3>3. Thoughts(<<b>>) = {}
      BY <3>1 DEF Thoughts, OfType
    <3> QED
      BY <3>1, <3>2, <3>3
  <2>3. ThoughtsIn(<<Message("function", q)>>) = {}
    BY <2>2, ThoughtsOne
  <2>4. OwnThoughts(x, p) = {}
    BY <1>3, OwnThoughtsAre
  <2> QED
    BY <2>1, <2>2, <2>3, <2>4
<1>4. CASE x.role = "assistant"
  <2>1. VertexContent(x, p) = MessageUnlessEmpty("model", AssistantBlocks(x, p))
    BY <1>4 DEF VertexContent
  <2>2. AssistantBlocks(x, p) \in Seq(BlockT) /\ Thoughts(AssistantBlocks(x, p)) = OwnThoughts(x, p)
    BY ReplayWords, ReplayThoughts
  <2> QED
    BY <2>1, <2>2, ThoughtsOne
<1>5. x.role \in {"system", "user", "assistant", "tool"}
  BY BlocksAre DEF TalkRoles
<1> QED
  BY <1>1, <1>2, <1>3, <1>4, <1>5

LEMMA ThoughtsFlat ==
    ASSUME NEW ss \in Seq(Seq(MessageT))
    PROVE  ThoughtsIn(FlattenSeq(ss)) = UNION {ThoughtsIn(ss[i]) : i \in 1..Len(ss)}
<1> HIDE DEF MessageT
<1>1. PICK q \in Seq(MessageT) :
         /\ q = FlattenSeq(ss) /\ DOMAIN q = 1..Len(q)
         /\ \A k \in 1..Len(q) : \E i \in 1..Len(ss) : \E j \in 1..Len(ss[i]) : q[k] = ss[i][j]
         /\ \A i \in 1..Len(ss) : \A j \in 1..Len(ss[i]) : \E k \in 1..Len(q) : q[k] = ss[i][j]
  <2>1. FlattenSeq(ss) \in Seq(MessageT)
    BY FlattenType
  <2>2. \A k \in 1..Len(FlattenSeq(ss)) : \E i \in 1..Len(ss) : \E j \in 1..Len(ss[i]) : FlattenSeq(ss)[k] = ss[i][j]
    BY FlatElements
  <2>3. \A i \in 1..Len(ss) : \A j \in 1..Len(ss[i]) : \E k \in 1..Len(FlattenSeq(ss)) : FlattenSeq(ss)[k] = ss[i][j]
    BY FlatElements
  <2>4. PICK q \in Seq(MessageT) : q = FlattenSeq(ss)
    BY <2>1
  <2>5. DOMAIN q = 1..Len(q)
    OBVIOUS
  <2> QED
    BY <2>2, <2>3, <2>4, <2>5
<1>2. \A i \in 1..Len(ss) : DOMAIN ss[i] = 1..Len(ss[i])
  <2>1. \A i \in 1..Len(ss) : ss[i] \in Seq(MessageT)
    OBVIOUS
  <2> QED
    BY <2>1
<1>3. ASSUME NEW t \in ThoughtsIn(q) PROVE \E i \in 1..Len(ss) : t \in ThoughtsIn(ss[i])
  <2>1. PICK k \in 1..Len(q) : t \in Thoughts(q[k].blocks)
    BY <1>1 DEF ThoughtsIn
  <2>2. PICK i \in 1..Len(ss) : \E j \in 1..Len(ss[i]) : q[k] = ss[i][j]
    BY <1>1
  <2>3. PICK j \in 1..Len(ss[i]) : q[k] = ss[i][j]
    BY <2>2
  <2>4. j \in DOMAIN ss[i]
    BY <1>2
  <2> QED
    BY <2>1, <2>3, <2>4 DEF ThoughtsIn
<1>4. ASSUME NEW i \in 1..Len(ss), NEW t \in ThoughtsIn(ss[i]) PROVE t \in ThoughtsIn(q)
  <2>1. PICK j \in 1..Len(ss[i]) : t \in Thoughts(ss[i][j].blocks)
    BY <1>2 DEF ThoughtsIn
  <2>2. PICK k \in 1..Len(q) : q[k] = ss[i][j]
    BY <1>1
  <2> QED
    BY <1>1, <2>1, <2>2, SMTT(30) DEF ThoughtsIn
<1> QED
  BY <1>1, <1>3, <1>4

LEMMA ThoughtsItemwise ==
    ASSUME NEW f \in Maps(Talks, Seq(MessageT)), NEW q \in Seq(Talks), NEW p,
           \A x \in Talks : ThoughtsIn(f[x]) = OwnThoughts(x, p)
    PROVE  ThoughtsIn(Spread(f, q)) = UNION {OwnThoughts(q[i], p) : i \in DOMAIN q}
<1> HIDE DEF Talks, MessageT
<1>1. PICK n \in Nat : n = Len(q) /\ DOMAIN q = 1..n
  OBVIOUS
<1>2. PICK ss \in Seq(Seq(MessageT)) : ss = Each(f, q) /\ Len(ss) = n /\ \A k \in 1..n : ss[k] = f[q[k]]
  <2>1. /\ Each(f, q) \in Seq(Seq(MessageT)) /\ Len(Each(f, q)) = Len(q)
        /\ \A k \in 1..Len(q) : Each(f, q)[k] = f[q[k]]
    BY EachIs
  <2> QED
    BY <1>1, <2>1
<1>3. ThoughtsIn(FlattenSeq(ss)) = UNION {ThoughtsIn(ss[i]) : i \in 1..n}
  BY <1>2, ThoughtsFlat
<1>4. ASSUME NEW i \in 1..n PROVE ThoughtsIn(ss[i]) = OwnThoughts(q[i], p)
  <2>1. q[i] \in Talks
    BY <1>1, ElementOfSeq
  <2> QED
    BY <1>2, <2>1
<1>5. {ThoughtsIn(ss[i]) : i \in 1..n} = {OwnThoughts(q[i], p) : i \in 1..n}
  BY <1>4
<1> QED
  BY <1>1, <1>2, <1>3, <1>5 DEF Spread

OpenAiMap(p) == [x \in Talks |-> OpenAiMessage(x, p)]
VertexMap(p) == [x \in Talks |-> VertexContent(x, p)]

LEMMA OpenAiMaps ==
    ASSUME talk \in Seq(Talks), NEW p \in WireProviders
    PROVE  /\ OpenAiMap(p) \in Maps(Talks, Seq(MessageT)) /\ SameWords(OpenAiMap(p))
           /\ \A x \in Talks : ThoughtsIn(OpenAiMap(p)[x]) = OwnThoughts(x, p)
           /\ OpenAiMessages(p) = Spread(OpenAiMap(p), talk)
<1> HIDE DEF Talks, MessageT, ThoughtsIn, OwnThoughts, ItemWords, Content
<1>1. \A x \in Talks : OpenAiMap(p)[x] = OpenAiMessage(x, p)
  BY DEF OpenAiMap
<1>2. OpenAiMap(p) \in Maps(Talks, Seq(MessageT))
  <2>1. \A x \in Talks : OpenAiMessage(x, p) \in Seq(MessageT)
    BY OpenAiItem
  <2> QED
    BY <2>1 DEF OpenAiMap, Maps
<1>3. SameWords(OpenAiMap(p))
  <2>1. \A x \in Talks : Content(OpenAiMessage(x, p)) = ItemWords[x]
    BY OpenAiItem
  <2> QED
    BY <1>1, <2>1 DEF SameWords
<1>4. \A x \in Talks : ThoughtsIn(OpenAiMap(p)[x]) = OwnThoughts(x, p)
  <2>1. \A x \in Talks : ThoughtsIn(OpenAiMessage(x, p)) = OwnThoughts(x, p)
    BY OpenAiThoughts
  <2> QED
    BY <1>1, <2>1
<1>5. OpenAiMessages(p) = Spread(OpenAiMap(p), talk)
  <2>1. \A i \in DOMAIN talk : OpenAiMessage(talk[i], p) = OpenAiMap(p)[talk[i]]
    <3>1. \A i \in DOMAIN talk : talk[i] \in Talks
      OBVIOUS
    <3> QED
      BY <1>1, <3>1
  <2>2. [i \in DOMAIN talk |-> OpenAiMessage(talk[i], p)] = [i \in DOMAIN talk |-> OpenAiMap(p)[talk[i]]]
    BY <2>1
  <2> QED
    BY <2>2 DEF OpenAiMessages, Spread, Each
<1> QED
  BY <1>2, <1>3, <1>4, <1>5

LEMMA VertexMaps ==
    ASSUME talk \in Seq(Talks), NEW p \in WireProviders
    PROVE  /\ VertexMap(p) \in Maps(Talks, Seq(MessageT)) /\ SameWords(VertexMap(p))
           /\ \A x \in Talks : ThoughtsIn(VertexMap(p)[x]) = OwnThoughts(x, p)
           /\ VertexContents(p) = Spread(VertexMap(p), talk)
<1> HIDE DEF Talks, MessageT, ThoughtsIn, OwnThoughts, ItemWords, Content
<1>1. \A x \in Talks : VertexMap(p)[x] = VertexContent(x, p)
  BY DEF VertexMap
<1>2. VertexMap(p) \in Maps(Talks, Seq(MessageT))
  <2>1. \A x \in Talks : VertexContent(x, p) \in Seq(MessageT)
    BY VertexItem
  <2> QED
    BY <2>1 DEF VertexMap, Maps
<1>3. SameWords(VertexMap(p))
  <2>1. \A x \in Talks : Content(VertexContent(x, p)) = ItemWords[x]
    BY VertexItem
  <2> QED
    BY <1>1, <2>1 DEF SameWords
<1>4. \A x \in Talks : ThoughtsIn(VertexMap(p)[x]) = OwnThoughts(x, p)
  <2>1. \A x \in Talks : ThoughtsIn(VertexContent(x, p)) = OwnThoughts(x, p)
    BY VertexThoughts
  <2> QED
    BY <1>1, <2>1
<1>5. VertexContents(p) = Spread(VertexMap(p), talk)
  <2>1. \A i \in DOMAIN talk : VertexContent(talk[i], p) = VertexMap(p)[talk[i]]
    <3>1. \A i \in DOMAIN talk : talk[i] \in Talks
      OBVIOUS
    <3> QED
      BY <1>1, <3>1
  <2>2. [i \in DOMAIN talk |-> VertexContent(talk[i], p)] = [i \in DOMAIN talk |-> VertexMap(p)[talk[i]]]
    BY <2>1
  <2> QED
    BY <2>2 DEF VertexContents, Spread, Each
<1> QED
  BY <1>2, <1>3, <1>4, <1>5

(* ClaudeAI_API.build_messages leaves the system items out.                 *)
Heard == {x \in Talks : x.role # "system"}

LEMMA SpokenIs ==
    ASSUME talk \in Seq(Talks)
    PROVE  /\ Spoken = Filtered(talk, Heard) /\ Spoken \in Seq(Talks)
           /\ \A k \in 1..Len(Spoken) : Spoken[k].role # "system"
<1> HIDE DEF Talks
<1>1. \A k \in DOMAIN talk : talk[k] \in Talks
  OBVIOUS
<1>2. {k \in DOMAIN talk : talk[k].role # "system"} = {k \in DOMAIN talk : talk[k] \in Heard}
  BY <1>1 DEF Heard
<1>3. Spoken = Filtered(talk, Heard)
  BY <1>2 DEF Spoken, Filtered
<1>4. /\ Filtered(talk, Heard) \in Seq(Talks)
      /\ \A k \in 1..Len(Filtered(talk, Heard)) :
            \E j \in 1..Len(talk) : Filtered(talk, Heard)[k] = talk[j] /\ talk[j] \in Heard
  BY FilteredFrom
<1>5. ASSUME NEW k \in 1..Len(Spoken) PROVE Spoken[k].role # "system"
  BY <1>3, <1>4 DEF Heard
<1> QED
  BY <1>3, <1>4, <1>5

LEMMA SpokenWords ==
    ASSUME talk \in Seq(Talks) PROVE Spread(ItemWords, Spoken) = ContentOfTalk
<1> HIDE DEF Talks, WordT, ItemWords
<1>1. PICK f \in Maps(Talks, Seq(WordT)) : f = ItemWords
  BY ItemWordMaps
<1>2. ASSUME NEW x \in Talks, x \notin Heard PROVE f[x] = <<>>
  BY <1>1, <1>2, ItemWordsAre DEF Heard
<1>3. Spread(f, Filtered(talk, Heard)) = Spread(f, talk)
  BY <1>2, SpreadFiltered
<1> QED
  BY <1>1, <1>3, SpokenIs, ItemWordMaps

LEMMA SpokenThoughts ==
    ASSUME talk \in Seq(Talks), NEW p \in WireProviders
    PROVE  UNION {OwnThoughts(Spoken[i], p) : i \in DOMAIN Spoken} = UNION {OwnThoughts(talk[i], p) : i \in DOMAIN talk}
<1> HIDE DEF Talks, OwnThoughts
<1>1. PICK at : at = {k \in DOMAIN talk : talk[k] \in Heard} /\ at \subseteq DOMAIN talk
  OBVIOUS
<1>2. PICK s \in Seq(Talks) : s = Picked(talk, at) /\ ToSet(s) = {talk[i] : i \in at}
  <2>1. Picked(talk, at) \in Seq(Talks) /\ ToSet(Picked(talk, at)) = {talk[i] : i \in at}
    BY <1>1, PickedIs
  <2> QED
    BY <2>1
<1>3. s = Spoken
  BY <1>1, <1>2, SpokenIs DEF Filtered
<1>4. ASSUME NEW i \in DOMAIN s PROVE \E j \in DOMAIN talk : s[i] = talk[j]
  BY <1>1, <1>2 DEF ToSet
<1>5. ASSUME NEW j \in DOMAIN talk, OwnThoughts(talk[j], p) # {} PROVE \E i \in DOMAIN s : s[i] = talk[j]
  <2>1. talk[j] \in Talks
    BY ElementOfSeq
  <2>2. talk[j] \in Heard
    BY <1>5, <2>1, OwnThoughtsAre DEF Heard
  <2>3. talk[j] \in ToSet(s)
    BY <1>1, <1>2, <2>2
  <2> QED
    BY <2>3 DEF ToSet
<1> QED
  BY <1>3, <1>4, <1>5

(* Batches: items that do not begin a message, and those that do with the   *)
(* items that follow in the same one.                                       *)
Inside(k) == k > 1 /\ Spoken[k - 1].role = "tool" /\ Spoken[k].role \in {"tool", "user"}
Group(i, m) ==
    /\ m \in i..Len(Spoken) /\ ~Inside(i) /\ \A k \in i + 1..m : Inside(k)
    /\ m < Len(Spoken) => ~Inside(m + 1)

LEMMA GroupOf ==
    ASSUME Spoken \in Seq(Talks), NEW i \in 1..Len(Spoken), ~Inside(i)
    PROVE  \E m \in i..Len(Spoken) : Group(i, m)
<1> HIDE DEF Talks
<1>1. PICK n \in Nat : n = Len(Spoken)
  OBVIOUS
<1>2. PICK T : T = {m \in i..n : m = n \/ ~Inside(m + 1)}
  OBVIOUS
<1>3. T \subseteq Nat /\ n \in T
  BY <1>1, <1>2
<1>4. PICK m \in T : \A k \in T : m <= k
  <2>1. T # {}
    BY <1>3
  <2> QED
    BY <1>3, <2>1, LeastNumber
<1>5. m \in i..n /\ (m < n => ~Inside(m + 1))
  BY <1>2, <1>4
<1>6. ASSUME NEW k \in i + 1..m PROVE Inside(k)
  <2>1. k - 1 \in i..n /\ ~(m <= k - 1) /\ (k - 1) + 1 = k
    BY <1>5
  <2>2. k - 1 \notin T
    BY <1>4, <2>1
  <2> QED
    BY <1>2, <2>1, <2>2
<1> QED
  BY <1>1, <1>5, <1>6 DEF Group

LEMMA BatchIs ==
    ASSUME Spoken \in Seq(Talks), \A k \in 1..Len(Spoken) : Spoken[k].role # "system",
           NEW i \in 1..Len(Spoken), NEW m \in i..Len(Spoken), Group(i, m)
    PROVE  /\ \A k \in i + 1..m : Spoken[k].role \in {"tool", "user"} /\ Spoken[k - 1].role = "tool"
           /\ Spoken[i].role # "tool" => m = i
           /\ Spoken[i].role = "tool" => FirstOfBatch(i) /\ BatchEnd(i) = m
<1> HIDE DEF Talks
<1>1. PICK n \in Nat : n = Len(Spoken)
  OBVIOUS
<1>2. ASSUME NEW k \in i + 1..m PROVE Spoken[k].role \in {"tool", "user"} /\ Spoken[k - 1].role = "tool"
  BY DEF Group, Inside
<1>3. ASSUME Spoken[i].role # "tool" PROVE m = i
  <2>1. CASE m > i
    <3>1. i + 1 \in i + 1..m /\ (i + 1) - 1 = i
      BY <2>1
    <3> QED
      BY <1>2, <1>3, <3>1
  <2> QED
    BY <2>1
<1>4. ASSUME Spoken[i].role = "tool" PROVE FirstOfBatch(i) /\ BatchEnd(i) = m
  <2>1. FirstOfBatch(i)
    <3>1. i = 1 \/ Spoken[i - 1].role # "tool"
      BY <1>4 DEF Group, Inside
    <3> QED
      BY <1>4, <3>1 DEF FirstOfBatch
  <2>2. PICK last \in i..n : last = IF Spoken[m].role = "tool" THEN m ELSE m - 1
    <3>1. CASE Spoken[m].role = "tool"
      BY <1>1, <3>1
    <3>2. CASE Spoken[m].role # "tool"
      <4>1. m # i
        BY <1>4, <3>2
      <4>2. m - 1 \in i..n
        BY <1>1, <4>1
      <4> QED
        BY <3>2, <4>2
    <3> QED
      BY <3>1, <3>2
  <2>3. \A k \in i..last : Spoken[k].role = "tool"
    <3>1. ASSUME NEW k \in i..last PROVE Spoken[k].role = "tool"
      <4>1. CASE k = m
        BY <2>2, <4>1
      <4>2. CASE k < m
        <5>1. k + 1 \in i + 1..m /\ (k + 1) - 1 = k
          BY <4>2
        <5> QED
          BY <1>2, <5>1
      <4> QED
        BY <2>2, <4>1, <4>2
    <3> QED
      BY <3>1
  <2>4. last = n \/ Spoken[last + 1].role # "tool"
    <3>1. CASE Spoken[m].role = "tool"
      <4>1. m < n => ~Inside(m + 1)
        BY <1>1 DEF Group
      <4>2. m < n => Spoken[m + 1].role \notin {"tool", "user"}
        BY <1>1, <3>1, <4>1 DEF Inside
      <4> QED
        BY <1>1, <2>2, <3>1, <4>2
    <3>2. CASE Spoken[m].role # "tool"
      BY <2>2, <3>2
    <3> QED
      BY <3>1, <3>2
  <2>5. \E k \in i..Len(Spoken) :
           /\ \A j \in i..k : Spoken[j].role = "tool"
           /\ k = Len(Spoken) \/ Spoken[k + 1].role # "tool"
    BY <1>1, <2>2, <2>3, <2>4
  <2>6. PICK c \in i..n :
           /\ c = LastResult(i) /\ \A j \in i..c : Spoken[j].role = "tool"
           /\ c = n \/ Spoken[c + 1].role # "tool"
    <3>1. /\ LastResult(i) \in i..Len(Spoken)
          /\ \A j \in i..LastResult(i) : Spoken[j].role = "tool"
          /\ LastResult(i) = Len(Spoken) \/ Spoken[LastResult(i) + 1].role # "tool"
      BY <2>5, Zenon DEF LastResult
    <3> QED
      BY <1>1, <3>1
  <2>7. c = last
    <3>1. CASE c < last
      <4>1. c + 1 \in i..last /\ c # n
        BY <2>2, <2>6, <3>1
      <4> QED
        BY <2>3, <2>6, <4>1
    <3>2. CASE last < c
      <4>1. last + 1 \in i..c /\ last # n
        BY <2>2, <2>6, <3>2
      <4> QED
        BY <2>4, <2>6, <4>1
    <3> QED
      BY <2>2, <2>6, <3>1, <3>2
  <2>8. BatchEnd(i) = IF last < n /\ Spoken[last + 1].role = "user" THEN last + 1 ELSE last
    BY <1>1, <2>6, <2>7 DEF BatchEnd
  <2>9. CASE Spoken[m].role = "tool"
    <3>1. m < n => Spoken[m + 1].role # "user"
      <4>1. m < n => ~Inside(m + 1)
        BY <1>1 DEF Group
      <4> QED
        BY <1>1, <2>9, <4>1 DEF Inside
    <3>2. last = m
      BY <2>2, <2>9
    <3>3. BatchEnd(i) = m
      BY <2>8, <3>1, <3>2
    <3> QED
      BY <2>1, <3>3
  <2>10. CASE Spoken[m].role # "tool"
    <3>1. m \in i + 1..m
      BY <1>4, <2>10
    <3>2. Spoken[m].role = "user"
      BY <1>2, <2>10, <3>1
    <3>3. last = m - 1 /\ last < n /\ last + 1 = m
      BY <1>1, <2>2, <2>10
    <3>4. BatchEnd(i) = m
      BY <2>8, <3>2, <3>3
    <3> QED
      BY <2>1, <3>4
  <2> QED
    BY <2>1, <2>9, <2>10
<1> QED
  BY <1>2, <1>3, <1>4

BatchPart(x) == IF x.role = "tool" THEN <<Result(x)>> ELSE Texts(x)

LEMMA BatchPartIs ==
    ASSUME NEW x \in Talks, x.role \in {"tool", "user"}
    PROVE  /\ BatchPart(x) \in Seq(BlockT) /\ Words("user", BatchPart(x)) = ItemWords[x]
           /\ \A k \in 1..Len(BatchPart(x)) : BatchPart(x)[k].type \in {"result", "text"}
<1>1. CASE x.role = "tool"
  <2>1. PICK b \in BlockT : b = Result(x) /\ b.type = "result"
    <3> HIDE DEF Talks, BlockT
    <3> QED
      BY <1>1, BlocksAre
  <2>2. BatchPart(x) = <<b>>
    BY <1>1, <2>1 DEF BatchPart
  <2>3. <<b>> \in Seq(BlockT)
    BY WordsOne
  <2>4. Len(<<b>>) = 1 /\ <<b>>[1] = b
    OBVIOUS
  <2>5. Words("user", <<b>>) = ItemWords[x]
    <3> HIDE DEF Talks, BlockT, ItemWords, Words
    <3> QED
      BY <1>1, <2>1, ItemWordsAre
  <2> HIDE DEF Talks, BlockT, ItemWords, Words
  <2>6. \A k \in 1..Len(<<b>>) : <<b>>[k].type \in {"result", "text"}
    BY <2>1, <2>4
  <2> QED
    BY <2>2, <2>3, <2>5, <2>6
<1>2. CASE x.role = "user"
  <2> HIDE DEF Talks, BlockT, ItemWords, Words
  <2>1. BatchPart(x) = Texts(x)
    BY <1>2 DEF BatchPart
  <2>2. Texts(x) \in Seq(BlockT) /\ \A k \in 1..Len(Texts(x)) : Texts(x)[k].type = "text"
    BY BlocksAre
  <2>3. Words("user", Texts(x)) = ItemWords[x]
    BY <1>2, ItemWordsAre
  <2> QED
    BY <2>1, <2>2, <2>3
<1> QED
  BY <1>1, <1>2

(* The parts of the batch from i to m.                                      *)
BatchParts(i, m) == [n \in 1..m - i + 1 |-> BatchPart(Spoken[i + n - 1])]
PartWords(i, m) == [n \in 1..m - i + 1 |-> ItemWords[Spoken[i + n - 1]]]

LEMMA BatchPartsAre ==
    ASSUME Spoken \in Seq(Talks), NEW i \in 1..Len(Spoken), NEW m \in i..Len(Spoken),
           \A k \in i..m : Spoken[k].role \in {"tool", "user"}
    PROVE  /\ BatchParts(i, m) \in Seq(Seq(BlockT)) /\ Len(BatchParts(i, m)) = m - i + 1
           /\ \A n \in 1..m - i + 1 : BatchParts(i, m)[n] = BatchPart(Spoken[i + n - 1])
           /\ FlattenSeq(BatchParts(i, m)) \in Seq(BlockT)
           /\ \A k \in 1..Len(FlattenSeq(BatchParts(i, m))) :
                 FlattenSeq(BatchParts(i, m))[k].type \in {"result", "text"}
           /\ Words("user", FlattenSeq(BatchParts(i, m))) = FlattenSeq(PartWords(i, m))
<1> HIDE DEF Talks, BlockT, WordT, ItemWords, Words
<1>1. PICK n \in Nat : n = m - i + 1
  OBVIOUS
<1>2. ASSUME NEW k \in 1..n
      PROVE  /\ BatchPart(Spoken[i + k - 1]) \in Seq(BlockT)
             /\ Words("user", BatchPart(Spoken[i + k - 1])) = ItemWords[Spoken[i + k - 1]]
             /\ \A j \in 1..Len(BatchPart(Spoken[i + k - 1])) :
                   BatchPart(Spoken[i + k - 1])[j].type \in {"result", "text"}
  <2>1. PICK at \in i..m : at = i + k - 1
    BY <1>1
  <2>2. at \in 1..Len(Spoken)
    OBVIOUS
  <2>3. PICK x \in Talks : x = Spoken[at] /\ x.role \in {"tool", "user"}
    BY <2>2, ElementOfSeq
  <2>4. /\ BatchPart(x) \in Seq(BlockT) /\ Words("user", BatchPart(x)) = ItemWords[x]
        /\ \A j \in 1..Len(BatchPart(x)) : BatchPart(x)[j].type \in {"result", "text"}
    BY <2>3, BatchPartIs
  <2> QED
    BY <2>1, <2>3, <2>4
<1>3. PICK ss \in Seq(Seq(BlockT)) : /\ ss = BatchParts(i, m) /\ Len(ss) = n
                                     /\ \A k \in 1..n : ss[k] = BatchPart(Spoken[i + k - 1])
  <2>1. PICK S : S = Seq(BlockT)
    OBVIOUS
  <2>2. \A k \in 1..n : BatchPart(Spoken[i + k - 1]) \in S
    BY <1>2, <2>1
  <2>3. PICK ss : ss = [k \in 1..n |-> BatchPart(Spoken[i + k - 1])]
    OBVIOUS
  <2>4. ss \in Seq(S) /\ Len(ss) = n
    BY <2>2, <2>3
  <2>5. \A k \in 1..n : ss[k] = BatchPart(Spoken[i + k - 1])
    BY <2>3
  <2>6. ss = BatchParts(i, m)
    BY <1>1, <2>3 DEF BatchParts
  <2> QED
    BY <2>1, <2>4, <2>5, <2>6
<1>4. PICK q \in Seq(BlockT) : q = FlattenSeq(ss)
  BY FlattenType
<1>5. \A k \in 1..Len(q) : q[k].type \in {"result", "text"}
  <2>1. \A k \in 1..Len(FlattenSeq(ss)) : \E a \in 1..Len(ss) : \E j \in 1..Len(ss[a]) : FlattenSeq(ss)[k] = ss[a][j]
    BY FlatElements
  <2>2. ASSUME NEW k \in 1..Len(q) PROVE q[k].type \in {"result", "text"}
    <3>1. PICK a \in 1..n : \E j \in 1..Len(ss[a]) : q[k] = ss[a][j]
      BY <1>3, <1>4, <2>1
    <3>2. PICK j \in 1..Len(ss[a]) : q[k] = ss[a][j]
      BY <3>1
    <3>3. ss[a] = BatchPart(Spoken[i + a - 1])
      BY <1>3
    <3> QED
      BY <1>2, <3>2, <3>3
  <2> QED
    BY <2>2
<1>6. Words("user", q) = FlattenSeq(PartWords(i, m))
  <2>1. PICK f \in Maps(BlockT, Seq(WordT)) : f = WordMap("user") /\ \A s \in Seq(BlockT) : Words("user", s) = Spread(f, s)
    <3>1. "user" \in Voices
      BY DEF Voices
    <3> QED
      BY <3>1, WordMaps
  <2>2. Spread(f, FlattenSeq(ss)) = FlattenSeq(SpreadParts(f, ss))
    BY SpreadFlat
  <2>3. SpreadParts(f, ss) = [k \in 1..n |-> Spread(f, ss[k])]
    BY <1>3 DEF SpreadParts
  <2>4. ASSUME NEW k \in 1..n PROVE Spread(f, ss[k]) = ItemWords[Spoken[i + k - 1]]
    BY <1>2, <1>3, <2>1
  <2>5. SpreadParts(f, ss) = PartWords(i, m)
    BY <1>1, <2>3, <2>4 DEF PartWords
  <2> QED
    BY <1>4, <2>1, <2>2, <2>5
<1> QED
  BY <1>1, <1>3, <1>4, <1>5, <1>6

LEMMA BatchBlocksAre ==
    ASSUME Spoken \in Seq(Talks), \A k \in 1..Len(Spoken) : Spoken[k].role # "system",
           NEW i \in 1..Len(Spoken), NEW m \in i..Len(Spoken), Group(i, m), Spoken[i].role = "tool"
    PROVE  /\ \A k \in i..m : Spoken[k].role \in {"tool", "user"}
           /\ BatchBlocks(i) = FlattenSeq(BatchParts(i, m))
<1> HIDE DEF Talks
<1>1. \A k \in i + 1..m : Spoken[k].role \in {"tool", "user"}
  BY BatchIs
<1>2. FirstOfBatch(i) /\ BatchEnd(i) = m
  BY BatchIs
<1>3. ASSUME NEW k \in i..m PROVE Spoken[k].role \in {"tool", "user"}
  BY <1>1
<1>4. BatchBlocks(i) = FlattenSeq(BatchParts(i, m))
  BY <1>2 DEF BatchBlocks, BatchParts, BatchPart
<1> QED
  BY <1>3, <1>4

LEMMA ClaudeInside ==
    ASSUME NEW i \in 1..Len(Spoken), Inside(i), NEW p PROVE ClaudeMessage(i, p) = <<>>
<1>1. CASE Spoken[i].role = "tool"
  <2>1. ~FirstOfBatch(i)
    BY DEF FirstOfBatch, Inside
  <2> QED
    BY <1>1, <2>1 DEF ClaudeMessage
<1>2. CASE Spoken[i].role = "user"
  BY <1>2 DEF ClaudeMessage, Inside
<1> QED
  BY <1>1, <1>2 DEF Inside

LEMMA ClaudeBatch ==
    ASSUME Spoken \in Seq(Talks), \A k \in 1..Len(Spoken) : Spoken[k].role # "system",
           NEW i \in 1..Len(Spoken), NEW m \in i..Len(Spoken), Group(i, m), Spoken[i].role = "tool", NEW p
    PROVE  /\ ClaudeMessage(i, p) = <<Message("user", FlattenSeq(BatchParts(i, m)))>>
           /\ ClaudeMessage(i, p) \in Seq(MessageT)
           /\ Content(ClaudeMessage(i, p)) = FlattenSeq(PartWords(i, m))
           /\ ThoughtsIn(ClaudeMessage(i, p)) = {}
<1> HIDE DEF Talks, BlockT, MessageT, Words, ItemWords, Content, ThoughtsIn
<1>1. FirstOfBatch(i) /\ BatchEnd(i) = m
  BY BatchIs
<1>2. (\A k \in i..m : Spoken[k].role \in {"tool", "user"}) /\ BatchBlocks(i) = FlattenSeq(BatchParts(i, m))
  BY BatchBlocksAre
<1>3. /\ FlattenSeq(BatchParts(i, m)) \in Seq(BlockT)
      /\ \A k \in 1..Len(FlattenSeq(BatchParts(i, m))) : FlattenSeq(BatchParts(i, m))[k].type \in {"result", "text"}
      /\ Words("user", FlattenSeq(BatchParts(i, m))) = FlattenSeq(PartWords(i, m))
  BY <1>2, BatchPartsAre
<1>4. PICK q \in Seq(BlockT) : /\ q = FlattenSeq(BatchParts(i, m)) /\ Words("user", q) = FlattenSeq(PartWords(i, m))
                               /\ \A k \in 1..Len(q) : q[k].type # "think"
  BY <1>3
<1>5. ClaudeMessage(i, p) = <<Message("user", q)>>
  BY <1>1, <1>2, <1>4 DEF ClaudeMessage
<1>6. /\ <<Message("user", q)>> \in Seq(MessageT)
      /\ Content(<<Message("user", q)>>) = Words(Speaker("user"), q)
  <2>1. "user" \in TalkRoles \cup {"function", "model"}
    BY DEF TalkRoles
  <2> QED
    BY <2>1, ContentOne
<1>7. ThoughtsIn(<<Message("user", q)>>) = {}
  BY <1>4, ThoughtsOne, ThoughtsNone
<1> QED
  BY <1>4, <1>5, <1>6, <1>7, SpeakerIs

LEMMA ClaudeAlone ==
    ASSUME Spoken \in Seq(Talks), \A k \in 1..Len(Spoken) : Spoken[k].role # "system",
           NEW i \in 1..Len(Spoken), ~Inside(i), Spoken[i].role # "tool", NEW p \in WireProviders
    PROVE  /\ ClaudeMessage(i, p) = IF Spoken[i].role = "user" THEN MessageUnlessEmpty("user", Texts(Spoken[i]))
                                    ELSE MessageUnlessEmpty("assistant", AssistantBlocks(Spoken[i], p))
           /\ ClaudeMessage(i, p) \in Seq(MessageT) /\ Content(ClaudeMessage(i, p)) = ItemWords[Spoken[i]]
           /\ ThoughtsIn(ClaudeMessage(i, p)) = OwnThoughts(Spoken[i], p)
<1> HIDE DEF Talks, BlockT, MessageT, Words, ItemWords, Content, ThoughtsIn, OwnThoughts
<1>1. PICK x \in Talks : x = Spoken[i] /\ x.role \in TalkRoles /\ x.role # "tool" /\ x.role # "system"
  <2>1. Spoken[i] \in Talks
    BY ElementOfSeq
  <2> QED
    BY <2>1, BlocksAre
<1>2. CASE x.role = "user"
  <2>1. ClaudeMessage(i, p) = MessageUnlessEmpty("user", Texts(x))
    BY <1>1, <1>2 DEF ClaudeMessage, Inside
  <2>2. Texts(x) \in Seq(BlockT)
    BY BlocksAre
  <2>3. "user" \in TalkRoles \cup {"function", "model"}
    BY DEF TalkRoles
  <2>4. /\ MessageUnlessEmpty("user", Texts(x)) \in Seq(MessageT)
        /\ Content(MessageUnlessEmpty("user", Texts(x))) = Words(Speaker("user"), Texts(x))
    BY <2>2, <2>3, UnlessEmpty
  <2>5. ThoughtsIn(MessageUnlessEmpty("user", Texts(x))) = Thoughts(Texts(x))
    BY <2>2, ThoughtsOne
  <2>6. Thoughts(Texts(x)) = OwnThoughts(x, p)
    BY <1>2, OwnThoughtsAre
  <2>7. Words(Speaker("user"), Texts(x)) = ItemWords[x]
    BY <1>2, ItemWordsAre, SpeakerIs
  <2> QED
    BY <1>1, <1>2, <2>1, <2>4, <2>5, <2>6, <2>7
<1>3. CASE x.role = "assistant"
  <2>1. ClaudeMessage(i, p) = MessageUnlessEmpty("assistant", AssistantBlocks(x, p))
    BY <1>1, <1>3 DEF ClaudeMessage
  <2>2. AssistantBlocks(x, p) \in Seq(BlockT) /\ Words("llm", AssistantBlocks(x, p)) = ItemWords[x]
    BY <1>3, ReplayWords, ItemWordsAre
  <2>3. "assistant" \in TalkRoles \cup {"function", "model"}
    BY DEF TalkRoles
  <2>4. /\ MessageUnlessEmpty("assistant", AssistantBlocks(x, p)) \in Seq(MessageT)
        /\ Content(MessageUnlessEmpty("assistant", AssistantBlocks(x, p))) = Words(Speaker("assistant"), AssistantBlocks(x, p))
    BY <2>2, <2>3, UnlessEmpty
  <2>5. ThoughtsIn(MessageUnlessEmpty("assistant", AssistantBlocks(x, p))) = OwnThoughts(x, p)
    BY <2>2, ThoughtsOne, ReplayThoughts
  <2> QED
    BY <1>1, <1>3, <2>1, <2>2, <2>4, <2>5, SpeakerIs
<1> QED
  BY <1>1, <1>2, <1>3 DEF TalkRoles


LEMMA ClaudePart ==
    ASSUME Spoken \in Seq(Talks), \A k \in 1..Len(Spoken) : Spoken[k].role # "system",
           NEW i \in 1..Len(Spoken), NEW p \in WireProviders
    PROVE  /\ ClaudeMessage(i, p) \in Seq(MessageT)
           /\ ThoughtsIn(ClaudeMessage(i, p)) = OwnThoughts(Spoken[i], p)
<1> HIDE DEF Talks, BlockT, MessageT, ThoughtsIn, OwnThoughts
<1>1. PICK x \in Talks : x = Spoken[i]
  BY ElementOfSeq
<1>2. CASE Inside(i)
  <2>1. ClaudeMessage(i, p) = <<>>
    BY <1>2, ClaudeInside
  <2>2. x.role # "assistant"
    BY <1>1, <1>2 DEF Inside
  <2>3. OwnThoughts(x, p) = {}
    BY <2>2, OwnThoughtsAre
  <2>4. ThoughtsIn(<<>>) = {}
    BY DEF ThoughtsIn
  <2>5. <<>> \in Seq(MessageT)
    OBVIOUS
  <2> QED
    BY <1>1, <2>1, <2>3, <2>4, <2>5
<1>3. CASE ~Inside(i) /\ x.role = "tool"
  <2>1. PICK m \in i..Len(Spoken) : Group(i, m)
    BY <1>1, <1>3, GroupOf
  <2>2. ClaudeMessage(i, p) \in Seq(MessageT) /\ ThoughtsIn(ClaudeMessage(i, p)) = {}
    BY <1>1, <1>3, <2>1, ClaudeBatch
  <2>3. OwnThoughts(x, p) = {}
    BY <1>3, OwnThoughtsAre
  <2> QED
    BY <1>1, <2>2, <2>3
<1>4. CASE ~Inside(i) /\ x.role # "tool"
  BY <1>1, <1>4, ClaudeAlone
<1> QED
  BY <1>2, <1>3, <1>4

ClaudeParts(p) == [i \in DOMAIN Spoken |-> ClaudeMessage(i, p)]

LEMMA ClaudePartsAre ==
    ASSUME Spoken \in Seq(Talks), \A k \in 1..Len(Spoken) : Spoken[k].role # "system", NEW p \in WireProviders
    PROVE  /\ ClaudeParts(p) \in Seq(Seq(MessageT)) /\ Len(ClaudeParts(p)) = Len(Spoken)
           /\ \A i \in 1..Len(Spoken) : ClaudeParts(p)[i] = ClaudeMessage(i, p)
           /\ ClaudeMessages(p) = FlattenSeq(ClaudeParts(p))
<1> HIDE DEF Talks, MessageT
<1>1. PICK n \in Nat : n = Len(Spoken) /\ DOMAIN Spoken = 1..n
  OBVIOUS
<1>2. PICK S : S = Seq(MessageT)
  OBVIOUS
<1>3. \A i \in 1..n : ClaudeMessage(i, p) \in S
  BY <1>1, <1>2, ClaudePart
<1>4. ClaudeParts(p) = [i \in 1..n |-> ClaudeMessage(i, p)]
  BY <1>1 DEF ClaudeParts
<1>5. ClaudeParts(p) \in Seq(S) /\ Len(ClaudeParts(p)) = n
  BY <1>3, <1>4
<1> QED
  BY <1>1, <1>2, <1>4, <1>5 DEF ClaudeMessages, ClaudeParts

LEMMA ClaudeContent ==
    ASSUME Spoken \in Seq(Talks), \A k \in 1..Len(Spoken) : Spoken[k].role # "system", NEW p \in WireProviders
    PROVE  Content(ClaudeMessages(p)) = Spread(ItemWords, Spoken)
<1> HIDE DEF Talks, BlockT, MessageT, WordT, Words, ItemWords, Content
<1>1. PICK n \in Nat : n = Len(Spoken) /\ DOMAIN Spoken = 1..n
  OBVIOUS
<1>2. PICK ss \in Seq(Seq(MessageT)) : /\ Len(ss) = n /\ ClaudeMessages(p) = FlattenSeq(ss)
                                       /\ \A i \in 1..n : ss[i] = ClaudeMessage(i, p)
  BY <1>1, ClaudePartsAre
<1>3. PICK f \in Maps(MessageT, Seq(WordT)) : f = MessageWords /\ \A q \in Seq(MessageT) : Content(q) = Spread(f, q)
  BY MessageMaps
<1>4. PICK g \in Maps(Talks, Seq(WordT)) : g = ItemWords
  BY ItemWordMaps
<1>5. PICK S : S = Seq(WordT)
  OBVIOUS
<1>6. PICK a \in Seq(S) : a = SpreadParts(f, ss) /\ Len(a) = n /\ \A i \in 1..n : a[i] = Content(ss[i])
  <2>1. SpreadParts(f, ss) = [i \in 1..n |-> Spread(f, ss[i])]
    BY <1>2 DEF SpreadParts
  <2>2. ASSUME NEW i \in 1..n PROVE Spread(f, ss[i]) \in S /\ Content(ss[i]) = Spread(f, ss[i])
    <3>1. ss[i] \in Seq(MessageT)
      BY <1>2, ElementOfSeq
    <3> QED
      BY <1>3, <1>5, <3>1, SpreadJoined
  <2>3. SpreadParts(f, ss) \in Seq(S) /\ Len(SpreadParts(f, ss)) = n
    BY <2>1, <2>2
  <2> QED
    BY <2>1, <2>2, <2>3
<1>7. PICK b \in Seq(S) : b = Each(g, Spoken) /\ Len(b) = n /\ \A i \in 1..n : b[i] = ItemWords[Spoken[i]]
  BY <1>1, <1>4, <1>5, EachIs
<1>8. Content(ClaudeMessages(p)) = FlattenSeq(a)
  <2>1. FlattenSeq(ss) \in Seq(MessageT)
    BY FlattenType
  <2>2. Spread(f, FlattenSeq(ss)) = FlattenSeq(SpreadParts(f, ss))
    BY SpreadFlat
  <2> QED
    BY <1>2, <1>3, <1>6, <2>1, <2>2
<1>9. PICK Starts : Starts = {i \in 1..n : ~Inside(i)}
  OBVIOUS
<1>10. n > 0 => 1 \in Starts
  BY <1>9 DEF Inside
<1>11. ASSUME NEW i \in 1..n, i \in Starts
       PROVE  \E m \in i..n : (m < n => m + 1 \in Starts) /\ SamePart(a, b, i, m)
  <2>1. ~Inside(i) /\ i \in 1..Len(Spoken)
    BY <1>1, <1>9, <1>11
  <2>2. PICK m \in i..n : Group(i, m)
    BY <1>1, <2>1, GroupOf
  <2>3. m < n => m + 1 \in Starts
    BY <1>1, <1>9, <2>2 DEF Group
  <2>4. ASSUME NEW k \in i + 1..m PROVE a[k] = <<>>
    <3>1. Inside(k) /\ k \in 1..n /\ k \in 1..Len(Spoken)
      BY <1>1, <2>2 DEF Group
    <3>2. ClaudeMessage(k, p) = <<>>
      BY <3>1, ClaudeInside
    <3>3. Content(<<>>) = <<>>
      <4>1. Spread(f, <<>>) = <<>>
        BY DEF Spread, Each, FlattenSeq
      <4>2. <<>> \in Seq(MessageT)
        OBVIOUS
      <4> QED
        BY <1>3, <4>1, <4>2
    <3> QED
      BY <1>2, <1>6, <3>1, <3>2, <3>3
  <2>5. FlattenSeq(SubSeq(a, i, m)) = a[i]
    <3>1. i \in 1..Len(a) /\ m \in i..Len(a)
      BY <1>6
    <3> QED
      BY <1>5, <2>4, <3>1, SubSeqFirst
  <2>6. a[i] = Content(ClaudeMessage(i, p))
    BY <1>2, <1>6
  <2>7. CASE Spoken[i].role = "tool"
    <3>1. a[i] = FlattenSeq(PartWords(i, m))
      BY <1>1, <2>1, <2>2, <2>6, <2>7, ClaudeBatch
    <3>2. SubSeq(b, i, m) = PartWords(i, m)
      <4>1. SubSeq(b, i, m) = [k \in 1..m - i + 1 |-> b[i + k - 1]]
        BY <1>7
      <4>2. ASSUME NEW k \in 1..m - i + 1 PROVE b[i + k - 1] = ItemWords[Spoken[i + k - 1]]
        <5>1. i + k - 1 \in 1..n
          OBVIOUS
        <5> QED
          BY <1>7, <5>1
      <4> QED
        BY <4>1, <4>2 DEF PartWords
    <3>3. SamePart(a, b, i, m)
      BY <2>5, <3>1, <3>2 DEF SamePart
    <3> QED
      BY <2>3, <3>3
  <2>8. CASE Spoken[i].role # "tool"
    <3>1. a[i] = b[i]
      BY <1>7, <2>1, <2>6, <2>8, ClaudeAlone
    <3>2. m = i
      BY <1>1, <2>1, <2>2, <2>8, BatchIs
    <3>3. FlattenSeq(SubSeq(b, i, m)) = b[i]
      <4>1. i \in 1..Len(b) /\ m \in i..Len(b) /\ \A k \in i + 1..m : b[k] = <<>>
        BY <1>7, <3>2
      <4> QED
        BY <1>5, <4>1, SubSeqFirst
    <3>4. SamePart(a, b, i, m)
      BY <2>5, <3>1, <3>3 DEF SamePart
    <3> QED
      BY <2>3, <3>4
  <2> QED
    BY <2>7, <2>8
<1>12. FlattenSeq(a) = FlattenSeq(b)
  <2>1. Len(a) = Len(b) /\ (Len(a) > 0 => 1 \in Starts)
    BY <1>6, <1>7, <1>10
  <2>2. \A i \in 1..Len(a) : i \in Starts =>
           \E m \in i..Len(a) : (m < Len(a) => m + 1 \in Starts) /\ SamePart(a, b, i, m)
    BY <1>6, <1>11
  <2> QED
    BY <1>5, <2>1, <2>2, Regrouped
<1> QED
  BY <1>4, <1>7, <1>8, <1>12 DEF Spread

LEMMA ClaudeThoughts ==
    ASSUME Spoken \in Seq(Talks), \A k \in 1..Len(Spoken) : Spoken[k].role # "system", NEW p \in WireProviders
    PROVE  ThoughtsIn(ClaudeMessages(p)) = UNION {OwnThoughts(Spoken[i], p) : i \in DOMAIN Spoken}
<1> HIDE DEF Talks, MessageT, ThoughtsIn, OwnThoughts
<1>1. PICK n \in Nat : n = Len(Spoken) /\ DOMAIN Spoken = 1..n
  OBVIOUS
<1>2. PICK ss \in Seq(Seq(MessageT)) : /\ Len(ss) = n /\ ClaudeMessages(p) = FlattenSeq(ss)
                                       /\ \A i \in 1..n : ss[i] = ClaudeMessage(i, p)
  BY <1>1, ClaudePartsAre
<1>3. ThoughtsIn(FlattenSeq(ss)) = UNION {ThoughtsIn(ss[i]) : i \in 1..n}
  BY <1>2, ThoughtsFlat
<1>4. \A i \in 1..n : ThoughtsIn(ss[i]) = OwnThoughts(Spoken[i], p)
  BY <1>1, <1>2, ClaudePart
<1>5. {ThoughtsIn(ss[i]) : i \in 1..n} = {OwnThoughts(Spoken[i], p) : i \in 1..n}
  BY <1>4
<1> QED
  BY <1>1, <1>2, <1>3, <1>5

LEMMA UsesNone ==
    ASSUME NEW q \in Seq(BlockT), \A k \in 1..Len(q) : q[k].type # "use"
    PROVE  UsesOf(q) = <<>>
<1> HIDE DEF BlockT
<1>1. \A k \in 1..Len(q) : q[k] \notin TypedBlocks("use")
  BY DEF TypedBlocks
<1>2. Filtered(q, TypedBlocks("use")) = <<>>
  BY <1>1, FilteredNone
<1> QED
  BY <1>2, TypedAre DEF UsesOf

LEMMA UsesAll ==
    ASSUME NEW q \in Seq(BlockT), \A k \in 1..Len(q) : q[k].type = "use"
    PROVE  UsesOf(q) = q
<1> HIDE DEF BlockT
<1>1. \A k \in 1..Len(q) : q[k] \in TypedBlocks("use")
  <2>1. \A k \in 1..Len(q) : q[k] \in BlockT
    BY ElementOfSeq
  <2> QED
    BY <2>1 DEF TypedBlocks
<1>2. Filtered(q, TypedBlocks("use")) = q
  BY <1>1, FilteredAll
<1> QED
  BY <1>2, TypedAre DEF UsesOf

LEMMA UsesJoined ==
    ASSUME NEW p \in Seq(BlockT), NEW q \in Seq(BlockT), NEW r \in Seq(BlockT), r = p \o q
    PROVE  UsesOf(r) = UsesOf(p) \o UsesOf(q)
<1> HIDE DEF BlockT
<1>1. FiltersApart(p, q, TypedBlocks("use"))
  BY FilteredApart
<1>2. Filtered(r, TypedBlocks("use")) = Filtered(p, TypedBlocks("use")) \o Filtered(q, TypedBlocks("use"))
  BY <1>1 DEF FiltersApart
<1> QED
  BY <1>2, TypedAre DEF UsesOf

LEMMA ReplayCalls ==
    ASSUME NEW x \in Talks, NEW p
    PROVE  SameTools(UsesOf(AssistantBlocks(x, p)), x.calls)
<1>1. CASE Matches(x, p)
  <2>1. x.payload # NoPayload
    BY <1>1 DEF Matches
  <2>2. Replays(x)
    BY <2>1 DEF Talks
  <2> QED
    BY <1>1, <2>2 DEF AssistantBlocks, Replays
<1>2. CASE ~Matches(x, p)
  <2> HIDE DEF Talks, BlockT
  <2>1. PICK t \in Seq(BlockT) : t = Texts(x) /\ \A k \in 1..Len(t) : t[k].type = "text"
    BY BlocksAre
  <2>2. PICK u \in Seq(BlockT) : /\ u = Uses(x) /\ Len(u) = Len(x.calls)
                                 /\ \A k \in 1..Len(u) : u[k].type = "use" /\ u[k].tool = x.calls[k].tool
    BY BlocksAre
  <2>3. PICK r \in Seq(BlockT) : r = t \o u
    <3>1. t \o u \in Seq(BlockT)
      OBVIOUS
    <3> QED
      BY <3>1
  <2>4. UsesOf(t) = <<>> /\ UsesOf(u) = u
    BY <2>1, <2>2, UsesNone, UsesAll
  <2>5. UsesOf(r) = UsesOf(t) \o UsesOf(u)
    BY <2>3, UsesJoined
  <2>6. <<>> \o u = u
    OBVIOUS
  <2>7. UsesOf(r) = u
    BY <2>4, <2>5, <2>6
  <2>8. AssistantBlocks(x, p) = r
    BY <1>2, <2>1, <2>2, <2>3 DEF AssistantBlocks
  <2> QED
    BY <2>2, <2>7, <2>8 DEF SameTools
<1> QED
  BY <1>1, <1>2

(* The results of an item's calls follow it.                                *)
Answered(q) ==
    \A i \in 1..Len(q) : q[i].role = "assistant" =>
       \A k \in 1..Len(q[i].calls) :
          i + k \in 1..Len(q) /\ q[i + k].role = "tool" /\ q[i + k].calls = <<q[i].calls[k]>>

LEMMA BatchOfResults ==
    ASSUME Spoken \in Seq(Talks), \A k \in 1..Len(Spoken) : Spoken[k].role # "system", Answered(Spoken),
           NEW a \in 1..Len(Spoken), Spoken[a].role = "assistant",
           NEW n \in Nat \ {0}, n = Len(Spoken[a].calls)
    PROVE  /\ a + 1 \in 1..Len(Spoken) /\ ~Inside(a + 1) /\ Spoken[a + 1].role = "tool"
           /\ \A k \in 1..n : Spoken[a + k].role = "tool" /\ Spoken[a + k].calls = <<Spoken[a].calls[k]>>
           /\ \A m \in a + 1..Len(Spoken) : Group(a + 1, m) => a + n <= m
<1> HIDE DEF Talks
<1>1. \A k \in 1..n : /\ a + k \in 1..Len(Spoken) /\ Spoken[a + k].role = "tool"
                      /\ Spoken[a + k].calls = <<Spoken[a].calls[k]>>
  BY DEF Answered
<1>2. a + 1 \in 1..Len(Spoken) /\ Spoken[a + 1].role = "tool"
  BY <1>1
<1>3. ~Inside(a + 1)
  BY DEF Inside
<1>4. ASSUME NEW m \in a + 1..Len(Spoken), Group(a + 1, m), m < a + n PROVE FALSE
  <2>1. PICK k \in 1..n - 1 : m = a + k
    <3>1. m - a \in 1..n - 1 /\ m = a + (m - a)
      BY <1>4
    <3> QED
      BY <3>1
  <2>2. k \in 1..n /\ k + 1 \in 1..n /\ a + (k + 1) = m + 1
    BY <2>1
  <2>3. Spoken[m].role = "tool" /\ Spoken[m + 1].role = "tool" /\ m + 1 \in 1..Len(Spoken)
    BY <1>1, <2>1, <2>2
  <2>4. Inside(m + 1)
    BY <1>4, <2>3 DEF Inside
  <2>5. m < Len(Spoken)
    BY <2>3
  <2> QED
    BY <1>4, <2>4, <2>5 DEF Group
<1>5. PICK e \in Nat : e = Len(Spoken)
  OBVIOUS
<1>6. \A m \in a + 1..e : Group(a + 1, m) => a + n <= m
  BY <1>4, <1>5
<1> QED
  BY <1>1, <1>2, <1>3, <1>5, <1>6

(* The message after number i begins with the results of its calls.         *)
AnsweredIn(m, i) ==
    LET uses == UsesOf(m[i].blocks) IN
    uses # <<>> =>
        /\ i < Len(m) /\ m[i + 1].role = "user" /\ Len(m[i + 1].blocks) >= Len(uses)
        /\ \A k \in DOMAIN uses : m[i + 1].blocks[k].type = "result" /\ m[i + 1].blocks[k].tool = uses[k].tool

LEMMA BatchPlace ==
    ASSUME NEW len \in Nat, NEW a \in Nat, NEW i, i = a + 1, NEW m \in Nat, NEW n \in Nat \ {0}, NEW k \in 1..n,
           1 <= a, a + n <= m, m <= len
    PROVE  k \in 1..m - i + 1 /\ i + k - 1 = a + k /\ a + k \in 1..len
OBVIOUS

LEMMA ResultsFirst ==
    ASSUME Spoken \in Seq(Talks), \A k \in 1..Len(Spoken) : Spoken[k].role # "system", Answered(Spoken),
           NEW a \in 1..Len(Spoken), Spoken[a].role = "assistant",
           NEW n \in Nat \ {0}, n = Len(Spoken[a].calls), NEW p \in WireProviders
    PROVE  /\ a + 1 \in 1..Len(Spoken)
           /\ \E q \in Seq(BlockT) :
                 /\ ClaudeMessage(a + 1, p) = <<Message("user", q)>> /\ n <= Len(q)
                 /\ \A k \in 1..n : q[k].type = "result" /\ q[k].tool = Spoken[a].calls[k].tool
<1> HIDE DEF Talks, BlockT, MessageT
<1>1. /\ a + 1 \in 1..Len(Spoken) /\ ~Inside(a + 1) /\ Spoken[a + 1].role = "tool"
      /\ \A k \in 1..n : Spoken[a + k].role = "tool" /\ Spoken[a + k].calls = <<Spoken[a].calls[k]>>
      /\ \A m \in a + 1..Len(Spoken) : Group(a + 1, m) => a + n <= m
  BY BatchOfResults
<1>2. PICK i \in 1..Len(Spoken) : i = a + 1
  BY <1>1
<1>3. PICK m \in i..Len(Spoken) : Group(i, m) /\ a + n <= m
  BY <1>1, <1>2, GroupOf
<1>4. ClaudeMessage(i, p) = <<Message("user", FlattenSeq(BatchParts(i, m)))>>
  BY <1>1, <1>2, <1>3, ClaudeBatch
<1>5. \A k \in i..m : Spoken[k].role \in {"tool", "user"}
  BY <1>1, <1>2, <1>3, BatchBlocksAre
<1>6. PICK ss \in Seq(Seq(BlockT)) : /\ ss = BatchParts(i, m) /\ Len(ss) = m - i + 1
                                     /\ \A k \in 1..m - i + 1 : ss[k] = BatchPart(Spoken[i + k - 1])
  BY <1>5, BatchPartsAre
<1>7. ASSUME NEW k \in 1..n
      PROVE  /\ Result(Spoken[a + k]) \in BlockT /\ ss[k] = <<Result(Spoken[a + k])>>
             /\ Result(Spoken[a + k]).type = "result"
             /\ Result(Spoken[a + k]).tool = Spoken[a].calls[k].tool
  <2>1. k \in 1..m - i + 1 /\ i + k - 1 = a + k /\ a + k \in 1..Len(Spoken)
    <3>1. PICK len \in Nat : len = Len(Spoken)
      OBVIOUS
    <3>2. a \in Nat /\ m \in Nat /\ i = a + 1 /\ 1 <= a /\ a + n <= m /\ m <= len
      BY <1>2, <1>3, <3>1
    <3>3. k \in 1..m - i + 1 /\ i + k - 1 = a + k /\ a + k \in 1..len
      BY <3>2, BatchPlace
    <3> QED
      BY <3>1, <3>3
  <2>2. PICK y \in Talks : y = Spoken[a + k]
    BY <2>1, ElementOfSeq
  <2>3. y.role = "tool" /\ y.calls = <<Spoken[a].calls[k]>>
    BY <1>1, <2>2
  <2>4. Result(y) \in BlockT /\ Result(y).type = "result" /\ Result(y).tool = y.calls[1].tool
    BY <2>3, BlocksAre
  <2>5. y.calls[1] = Spoken[a].calls[k]
    BY <2>3
  <2>6. ss[k] = BatchPart(y)
    BY <1>6, <2>1, <2>2
  <2>7. BatchPart(y) = <<Result(y)>>
    BY <2>3 DEF BatchPart
  <2> QED
    BY <2>2, <2>4, <2>5, <2>6, <2>7
<1>8. PICK r \in Seq(BlockT) : Len(r) = n /\ \A k \in 1..n : r[k] = Result(Spoken[a + k])
  <2>1. PICK r : r = [k \in 1..n |-> Result(Spoken[a + k])]
    OBVIOUS
  <2>2. r \in Seq(BlockT)
    BY <1>7, <2>1
  <2>3. Len(r) = n /\ \A k \in 1..n : r[k] = Result(Spoken[a + k])
    BY <2>1
  <2> QED
    BY <2>2, <2>3
<1>9. Len(r) <= Len(ss) /\ \A k \in 1..Len(r) : ss[k] = <<r[k]>>
  <2>1. n <= m - i + 1
    BY <1>2, <1>3
  <2> QED
    BY <1>6, <1>7, <1>8, <2>1
<1>10. /\ FlattenSeq(ss) \in Seq(BlockT) /\ Len(r) <= Len(FlattenSeq(ss))
       /\ \A k \in 1..Len(r) : FlattenSeq(ss)[k] = r[k]
  BY <1>9, FlattenStart
<1>11. PICK q \in Seq(BlockT) : q = FlattenSeq(ss) /\ n <= Len(q) /\ \A k \in 1..n : q[k] = r[k]
  BY <1>8, <1>10
<1>12. \A k \in 1..n : q[k].type = "result" /\ q[k].tool = Spoken[a].calls[k].tool
  BY <1>7, <1>8, <1>11
<1> QED
  BY <1>1, <1>2, <1>4, <1>6, <1>11, <1>12

(* A message has at most one item's calls, and the item is an assistant's.  *)
LEMMA ClaudeUses ==
    ASSUME Spoken \in Seq(Talks), \A k \in 1..Len(Spoken) : Spoken[k].role # "system",
           NEW a \in 1..Len(Spoken), NEW p \in WireProviders,
           NEW j \in 1..Len(ClaudeMessage(a, p)), UsesOf(ClaudeMessage(a, p)[j].blocks) # <<>>
    PROVE  /\ Spoken[a].role = "assistant" /\ Len(ClaudeMessage(a, p)) = 1 /\ j = 1
           /\ SameTools(UsesOf(ClaudeMessage(a, p)[j].blocks), Spoken[a].calls)
<1> HIDE DEF Talks, BlockT, MessageT
<1>1. PICK x \in Talks : x = Spoken[a] /\ x.role \in TalkRoles
  <2>1. Spoken[a] \in Talks
    BY ElementOfSeq
  <2> QED
    BY <2>1, BlocksAre
<1>2. ~Inside(a)
  <2>1. CASE Inside(a)
    <3>1. ClaudeMessage(a, p) = <<>>
      BY <2>1, ClaudeInside
    <3> QED
      BY <3>1
  <2> QED
    BY <2>1
<1>3. CASE x.role = "tool"
  <2>1. PICK m \in a..Len(Spoken) : Group(a, m)
    BY <1>2, GroupOf
  <2>2. ClaudeMessage(a, p) = <<Message("user", FlattenSeq(BatchParts(a, m)))>>
    BY <1>1, <1>3, <2>1, ClaudeBatch
  <2>3. \A k \in a..m : Spoken[k].role \in {"tool", "user"}
    BY <1>1, <1>3, <2>1, BatchBlocksAre
  <2>4. PICK q \in Seq(BlockT) : q = FlattenSeq(BatchParts(a, m)) /\ \A k \in 1..Len(q) : q[k].type \in {"result", "text"}
    <3>1. /\ FlattenSeq(BatchParts(a, m)) \in Seq(BlockT)
          /\ \A k \in 1..Len(FlattenSeq(BatchParts(a, m))) :
                FlattenSeq(BatchParts(a, m))[k].type \in {"result", "text"}
      BY <2>3, BatchPartsAre
    <3> QED
      BY <3>1
  <2>5. UsesOf(q) = <<>>
    BY <2>4, UsesNone
  <2>6. Len(<<Message("user", q)>>) = 1 /\ <<Message("user", q)>>[1].blocks = q
    BY DEF Message
  <2>7. j = 1
    BY <2>2, <2>4, <2>6
  <2> QED
    BY <2>2, <2>4, <2>5, <2>6, <2>7
<1>4. ASSUME NEW role, NEW blocks \in Seq(BlockT), ClaudeMessage(a, p) = MessageUnlessEmpty(role, blocks)
      PROVE  Len(ClaudeMessage(a, p)) = 1 /\ j = 1 /\ ClaudeMessage(a, p)[j].blocks = blocks
  <2>1. Len(<<Message(role, blocks)>>) = 1 /\ <<Message(role, blocks)>>[1].blocks = blocks
    BY DEF Message
  <2>2. ClaudeMessage(a, p) = <<>> \/ ClaudeMessage(a, p) = <<Message(role, blocks)>>
    BY <1>4 DEF MessageUnlessEmpty
  <2>3. ClaudeMessage(a, p) # <<>>
    OBVIOUS
  <2> QED
    BY <2>1, <2>2, <2>3
<1>5. CASE x.role = "user"
  <2>1. ClaudeMessage(a, p) = MessageUnlessEmpty("user", Texts(x))
    BY <1>1, <1>2, <1>5, ClaudeAlone
  <2>2. Texts(x) \in Seq(BlockT) /\ \A k \in 1..Len(Texts(x)) : Texts(x)[k].type = "text"
    BY BlocksAre
  <2>3. UsesOf(Texts(x)) = <<>>
    BY <2>2, UsesNone
  <2> QED
    BY <1>4, <2>1, <2>2, <2>3
<1>6. CASE x.role = "assistant"
  <2>1. ClaudeMessage(a, p) = MessageUnlessEmpty("assistant", AssistantBlocks(x, p))
    BY <1>1, <1>2, <1>6, ClaudeAlone
  <2>2. AssistantBlocks(x, p) \in Seq(BlockT)
    BY ReplayWords
  <2>3. SameTools(UsesOf(AssistantBlocks(x, p)), x.calls)
    BY ReplayCalls
  <2>4. Len(ClaudeMessage(a, p)) = 1 /\ j = 1 /\ ClaudeMessage(a, p)[j].blocks = AssistantBlocks(x, p)
    BY <1>4, <2>1, <2>2
  <2> QED
    BY <1>1, <1>6, <2>3, <2>4
<1>7. x.role # "system"
  BY <1>1
<1> QED
  BY <1>1, <1>3, <1>5, <1>6, <1>7 DEF TalkRoles

LEMMA ClaudeAnswered ==
    ASSUME Spoken \in Seq(Talks), \A k \in 1..Len(Spoken) : Spoken[k].role # "system", Answered(Spoken),
           NEW p \in WireProviders, NEW i \in DOMAIN ClaudeMessages(p)
    PROVE  AnsweredIn(ClaudeMessages(p), i)
<1> HIDE DEF Talks, BlockT, MessageT
<1>1. PICK n \in Nat : n = Len(Spoken)
  OBVIOUS
<1>2. PICK ss \in Seq(Seq(MessageT)) : /\ Len(ss) = n /\ ClaudeMessages(p) = FlattenSeq(ss)
                                       /\ \A a \in 1..n : ss[a] = ClaudeMessage(a, p)
  BY <1>1, ClaudePartsAre
<1>3. PICK m, o : m \in Seq(MessageT) /\ m = ClaudeMessages(p) /\ FlatAt(ss, o, m)
  <2>1. FlattenSeq(ss) \in Seq(MessageT) /\ FlatAt(ss, Offsets(Lengths(ss)), FlattenSeq(ss))
    BY FlattenAt
  <2> QED
    BY <1>2, <2>1
<1>4. PICK uses : uses = UsesOf(m[i].blocks)
  OBVIOUS
<1>5. CASE uses = <<>>
  BY <1>3, <1>4, <1>5 DEF AnsweredIn
<1>6. CASE uses # <<>>
  <2>1. PICK a \in 1..n : \E j \in 1..Len(ss[a]) : i = o[a - 1] + j /\ m[i] = ss[a][j]
    BY <1>2, <1>3 DEF FlatAt
  <2>2. PICK j \in 1..Len(ss[a]) : i = o[a - 1] + j /\ m[i] = ss[a][j]
    BY <2>1
  <2>3. PICK part \in Seq(MessageT) : part = ss[a] /\ part = ClaudeMessage(a, p)
    BY <1>2, ElementOfSeq
  <2>4. UsesOf(ClaudeMessage(a, p)[j].blocks) = uses /\ j \in 1..Len(ClaudeMessage(a, p))
    BY <1>4, <2>2, <2>3
  <2>5. /\ Spoken[a].role = "assistant" /\ Len(ClaudeMessage(a, p)) = 1 /\ j = 1
        /\ SameTools(UsesOf(ClaudeMessage(a, p)[j].blocks), Spoken[a].calls)
    <3>1. UsesOf(ClaudeMessage(a, p)[j].blocks) # <<>> /\ a \in 1..Len(Spoken)
      BY <1>1, <1>6, <2>4
    <3> QED
      BY <2>4, <3>1, ClaudeUses
  <2>6. PICK x \in Talks : x = Spoken[a] /\ SameTools(uses, x.calls)
    <3>1. Spoken[a] \in Talks
      BY <1>1, ElementOfSeq
    <3> QED
      BY <2>4, <2>5, <3>1
  <2>7. PICK c \in Nat \ {0} : c = Len(x.calls) /\ DOMAIN uses = 1..c /\ Len(uses) = c
    <3>1. PICK b \in Seq(BlockT) : b = m[i].blocks
      <4>1. m[i] \in MessageT
        BY <1>3, ElementOfSeq
      <4> QED
        BY <4>1 DEF MessageT
    <3>2. uses \in Seq(BlockT)
      BY <1>4, <3>1, TypedAre DEF UsesOf
    <3>3. Len(uses) \in Nat \ {0} /\ DOMAIN uses = 1..Len(uses)
      BY <1>6, <3>2, EmptySeq
    <3> QED
      BY <2>6, <3>3 DEF SameTools
  <2>8. /\ a + 1 \in 1..n
        /\ \E q \in Seq(BlockT) :
              /\ ClaudeMessage(a + 1, p) = <<Message("user", q)>> /\ c <= Len(q)
              /\ \A k \in 1..c : q[k].type = "result" /\ q[k].tool = Spoken[a].calls[k].tool
    BY <1>1, <2>5, <2>6, <2>7, ResultsFirst
  <2>9. PICK q \in Seq(BlockT) :
           /\ ClaudeMessage(a + 1, p) = <<Message("user", q)>> /\ c <= Len(q)
           /\ \A k \in 1..c : q[k].type = "result" /\ q[k].tool = Spoken[a].calls[k].tool
    BY <2>8
  <2>10. i = o[a]
    <3>1. AreOffsets(o, Lengths(ss), Len(ss))
      BY <1>3 DEF FlatAt
    <3>2. o[a] = o[a - 1] + Len(ss[a])
      BY <1>2, <3>1 DEF AreOffsets, Lengths
    <3> QED
      BY <2>2, <2>3, <2>5, <3>2
  <2>11. o[a] + 1 \in DOMAIN m /\ m[o[a] + 1] = Message("user", q)
    <3>1. ss[a + 1] = <<Message("user", q)>> /\ a + 1 \in 1..Len(ss)
      BY <1>2, <2>8, <2>9
    <3>2. Len(<<Message("user", q)>>) = 1 /\ <<Message("user", q)>>[1] = Message("user", q)
      OBVIOUS
    <3>3. 1 \in 1..Len(ss[a + 1]) /\ (a + 1) - 1 = a
      BY <3>1, <3>2
    <3>4. o[(a + 1) - 1] + 1 \in DOMAIN m /\ m[o[(a + 1) - 1] + 1] = ss[a + 1][1]
      BY <1>3, <3>1, <3>3 DEF FlatAt
    <3> QED
      BY <3>1, <3>2, <3>3, <3>4
  <2>12. i < Len(m) /\ m[i + 1].role = "user" /\ m[i + 1].blocks = q
    <3>1. DOMAIN m = 1..Len(m) /\ Len(m) \in Nat
      BY <1>3
    <3>2. i + 1 \in 1..Len(m) /\ i \in 1..Len(m)
      BY <1>3, <2>10, <2>11, <3>1
    <3> QED
      BY <2>10, <2>11, <3>1, <3>2 DEF Message
  <2>13. \A k \in 1..c : q[k].type = "result" /\ q[k].tool = uses[k].tool
    BY <2>6, <2>7, <2>9 DEF SameTools
  <2>14. Len(q) >= c
    BY <2>7, <2>9
  <2> QED
    BY <1>3, <1>4, <2>7, <2>12, <2>13, <2>14 DEF AnsweredIn
<1> QED
  BY <1>5, <1>6

WireInv == talk \in Seq(Talks) /\ Answered(Spoken)

LEMMA SameWordsSent ==
    ASSUME WireInv, NEW p \in WireProviders
    PROVE  /\ Content(Request(p)) = ContentOfTalk
           /\ ThoughtsIn(Request(p)) = UNION {OwnThoughts(talk[i], p) : i \in DOMAIN talk}
<1> HIDE DEF Talks, BlockT, MessageT, Content, ThoughtsIn, OwnThoughts
<1>1. talk \in Seq(Talks)
  BY DEF WireInv
<1>2. CASE FormatOf[p] = "openai"
  <2>1. PICK f \in Maps(Talks, Seq(MessageT)) :
           /\ f = OpenAiMap(p) /\ SameWords(f) /\ OpenAiMessages(p) = Spread(f, talk)
           /\ \A x \in Talks : ThoughtsIn(f[x]) = OwnThoughts(x, p)
    BY <1>1, OpenAiMaps
  <2>2. Content(Spread(f, talk)) = Spread(ItemWords, talk)
    BY <1>1, <2>1, SpreadContent
  <2>3. ThoughtsIn(Spread(f, talk)) = UNION {OwnThoughts(talk[i], p) : i \in DOMAIN talk}
    BY <1>1, <2>1, ThoughtsItemwise
  <2>4. Request(p) = OpenAiMessages(p)
    BY <1>2 DEF Request
  <2> QED
    BY <1>1, <2>1, <2>2, <2>3, <2>4, ItemWordMaps
<1>3. CASE FormatOf[p] = "vertex"
  <2>1. PICK f \in Maps(Talks, Seq(MessageT)) :
           /\ f = VertexMap(p) /\ SameWords(f) /\ VertexContents(p) = Spread(f, talk)
           /\ \A x \in Talks : ThoughtsIn(f[x]) = OwnThoughts(x, p)
    BY <1>1, VertexMaps
  <2>2. Content(Spread(f, talk)) = Spread(ItemWords, talk)
    BY <1>1, <2>1, SpreadContent
  <2>3. ThoughtsIn(Spread(f, talk)) = UNION {OwnThoughts(talk[i], p) : i \in DOMAIN talk}
    BY <1>1, <2>1, ThoughtsItemwise
  <2>4. Request(p) = VertexContents(p)
    BY <1>3 DEF Request
  <2> QED
    BY <1>1, <2>1, <2>2, <2>3, <2>4, ItemWordMaps
<1>4. CASE FormatOf[p] = "claude"
  <2>1. Spoken \in Seq(Talks) /\ \A k \in 1..Len(Spoken) : Spoken[k].role # "system"
    BY <1>1, SpokenIs
  <2>2. /\ Content(ClaudeMessages(p)) = Spread(ItemWords, Spoken)
        /\ ThoughtsIn(ClaudeMessages(p)) = UNION {OwnThoughts(Spoken[i], p) : i \in DOMAIN Spoken}
    BY <2>1, ClaudeContent, ClaudeThoughts
  <2>3. Request(p) = ClaudeMessages(p)
    BY <1>4 DEF Request
  <2> QED
    BY <1>1, <2>2, <2>3, SpokenWords, SpokenThoughts
<1> QED
  BY <1>2, <1>3, <1>4, WireAssumption

LEMMA WireInvImplies == ASSUME WireInv PROVE ConversationArrives
<1>1. SameConversation
  BY SameWordsSent DEF SameConversation
<1>2. ClaudeCallsAreAnswered
  <2>1. SUFFICES ASSUME NEW p \in WireProviders, FormatOf[p] = "claude", NEW i \in DOMAIN Request(p)
                 PROVE  AnsweredIn(Request(p), i)
    BY DEF ClaudeCallsAreAnswered, AnsweredIn
  <2>2. Request(p) = ClaudeMessages(p)
    BY <2>1 DEF Request
  <2>3. Spoken \in Seq(Talks) /\ (\A k \in 1..Len(Spoken) : Spoken[k].role # "system") /\ Answered(Spoken)
    <3> HIDE DEF Talks
    <3> QED
      BY SpokenIs DEF WireInv
  <2> HIDE DEF Talks
  <2> QED
    BY <2>2, <2>3, ClaudeAnswered
<1>3. ThinkingStaysAtItsProvider
  <2>1. ASSUME NEW p \in WireProviders
        PROVE  UNION {Thoughts(Request(p)[i].blocks) : i \in DOMAIN Request(p)}
                 = UNION {Thoughts(talk[i].payload.blocks) : i \in {k \in DOMAIN talk : talk[k].payload.provider = p}}
    <3>1. ThoughtsIn(Request(p)) = UNION {OwnThoughts(talk[i], p) : i \in DOMAIN talk}
      BY SameWordsSent
    <3>2. UNION {OwnThoughts(talk[i], p) : i \in DOMAIN talk}
            = UNION {Thoughts(talk[i].payload.blocks) : i \in {k \in DOMAIN talk : talk[k].payload.provider = p}}
      BY DEF OwnThoughts
    <3> QED
      BY <3>1, <3>2 DEF ThoughtsIn
  <2> QED
    BY <2>1 DEF ThinkingStaysAtItsProvider
<1> QED
  BY <1>1, <1>2, <1>3 DEF ConversationArrives

LEMMA CallsOf == ASSUME NEW x \in Talks PROVE x.calls \in Seq(CallT) /\ Len(x.calls) \in Nat
<1> HIDE DEF CallT
<1>1. x.calls \in Seq(CallT)
  BY DEF Talks, ItemT
<1> QED
  BY <1>1

LEMMA AnsweredJoined ==
    ASSUME NEW a \in Seq(Talks), NEW b \in Seq(Talks), NEW q \in Seq(Talks), q = a \o b, Answered(a), Answered(b)
    PROVE  Answered(q)
<1> HIDE DEF Talks
<1>1. JoinAt(a, b, q)
  BY Joined
<1>2. PICK n \in Nat, m \in Nat : n = Len(a) /\ m = Len(b) /\ Len(q) = n + m
  BY <1>1 DEF JoinAt
<1>3. (\A i \in 1..n : q[i] = a[i]) /\ \A i \in 1..m : q[n + i] = b[i]
  BY <1>1, <1>2 DEF JoinAt
<1>4. \A i \in 1..n + m : q[i] \in Talks
  BY <1>2, ElementOfSeq
<1>5. ASSUME NEW i \in 1..n + m, q[i].role = "assistant", NEW k \in 1..Len(q[i].calls)
      PROVE  i + k \in 1..n + m /\ q[i + k].role = "tool" /\ q[i + k].calls = <<q[i].calls[k]>>
  <2>1. CASE i <= n
    <3>1. q[i] = a[i] /\ i \in 1..Len(a)
      BY <1>2, <1>3, <2>1
    <3>2. a[i].role = "assistant" /\ k \in 1..Len(a[i].calls)
      BY <1>5, <3>1
    <3>3. i + k \in 1..n /\ a[i + k].role = "tool" /\ a[i + k].calls = <<a[i].calls[k]>>
      BY <1>2, <3>1, <3>2 DEF Answered
    <3>4. PICK r \in 1..n : r = i + k
      BY <3>3
    <3>5. q[r] = a[r]
      BY <1>3
    <3>6. r \in 1..n + m
      OBVIOUS
    <3> QED
      BY <3>1, <3>3, <3>4, <3>5, <3>6
  <2>2. CASE i > n
    <3>1. PICK j \in 1..m : i = n + j
      <4>1. i - n \in 1..m /\ i = n + (i - n)
        BY <2>2
      <4> QED
        BY <4>1
    <3>2. q[i] = b[j] /\ j \in 1..Len(b)
      BY <1>2, <1>3, <3>1
    <3>3. b[j].role = "assistant" /\ k \in 1..Len(b[j].calls)
      BY <1>5, <3>2
    <3>4. j + k \in 1..m /\ b[j + k].role = "tool" /\ b[j + k].calls = <<b[j].calls[k]>>
      BY <1>2, <3>2, <3>3 DEF Answered
    <3>5. Len(q[i].calls) \in Nat
      BY <1>4, CallsOf
    <3>6. k \in Nat
      BY <3>5
    <3>7. i + k = n + (j + k) /\ n + (j + k) \in 1..n + m
      BY <3>1, <3>4, <3>6, SMTT(30)
    <3>8. q[i + k] = b[j + k]
      BY <1>3, <3>4, <3>7
    <3> QED
      BY <3>2, <3>4, <3>7, <3>8
  <2>3. i <= n \/ i > n
    OBVIOUS
  <2> QED
    BY <2>1, <2>2, <2>3
<1>6. Len(q) = n + m
  BY <1>2
<1>7. \A i \in 1..Len(q) : q[i].role = "assistant" =>
         \A k \in 1..Len(q[i].calls) :
            i + k \in 1..Len(q) /\ q[i + k].role = "tool" /\ q[i + k].calls = <<q[i].calls[k]>>
  BY <1>5, <1>6
<1> QED
  BY <1>7 DEF Answered

LEMMA HeardIs ==
    ASSUME NEW q \in Seq(Talks)
    PROVE  Picked(q, {i \in DOMAIN q : q[i].role # "system"}) = Filtered(q, Heard) /\ Filtered(q, Heard) \in Seq(Talks)
<1> HIDE DEF Talks
<1>1. \A k \in DOMAIN q : q[k] \in Talks
  OBVIOUS
<1>2. {k \in DOMAIN q : q[k].role # "system"} = {k \in DOMAIN q : q[k] \in Heard}
  BY <1>1 DEF Heard
<1> QED
  BY <1>2, FilteredFrom DEF Filtered

(* A step adds items in which every call is answered.                       *)
Adds(c) ==
    /\ c \in Seq(Talks) /\ talk' = talk \o c
    /\ c = <<>> \/ (\A k \in 1..Len(c) : c[k].role = "system")
         \/ (Answered(c) /\ \A k \in 1..Len(c) : c[k].role # "system")

LEMMA AddingKeeps ==
    ASSUME WireInv, NEW c, Adds(c) PROVE WireInv'
<1> HIDE DEF Talks
<1>1. PICK s \in Seq(Talks) : s = talk /\ Answered(Filtered(s, Heard))
  <2>1. Spoken = Filtered(talk, Heard)
    BY SpokenIs DEF WireInv
  <2> QED
    BY <2>1 DEF WireInv
<1>2. PICK d \in Seq(Talks) : d = c
  BY DEF Adds
<1>3. PICK q \in Seq(Talks) : q = talk' /\ q = s \o d
  <2>1. s \o d \in Seq(Talks)
    OBVIOUS
  <2> QED
    BY <1>1, <1>2, <2>1 DEF Adds
<1>4. Answered(Filtered(d, Heard))
  <2>1. ASSUME \A k \in 1..Len(d) : d[k].role = "system" PROVE Answered(Filtered(d, Heard))
    <3>1. Filtered(d, Heard) = <<>>
      BY <2>1, FilteredNone DEF Heard
    <3> QED
      BY <3>1 DEF Answered
  <2>2. ASSUME Answered(d), \A k \in 1..Len(d) : d[k].role # "system" PROVE Answered(Filtered(d, Heard))
    <3>1. \A k \in 1..Len(d) : d[k] \in Talks
      BY ElementOfSeq
    <3>2. \A k \in 1..Len(d) : d[k] \in Heard
      BY <2>2, <3>1 DEF Heard
    <3>3. Filtered(d, Heard) = d
      BY <3>2, FilteredAll
    <3> QED
      BY <2>2, <3>3
  <2>3. ASSUME d = <<>> PROVE \A k \in 1..Len(d) : d[k].role = "system"
    BY <2>3
  <2> QED
    BY <1>2, <2>1, <2>2, <2>3 DEF Adds
<1>5. Answered(Filtered(q, Heard))
  <2>1. FiltersApart(s, d, Heard)
    BY FilteredApart
  <2>2. PICK a \in Seq(Talks), b \in Seq(Talks) : a = Filtered(s, Heard) /\ b = Filtered(d, Heard)
    BY HeardIs
  <2>3. PICK r \in Seq(Talks) : r = Filtered(q, Heard)
    BY HeardIs
  <2>4. r = a \o b
    BY <1>3, <2>1, <2>2, <2>3 DEF FiltersApart
  <2> QED
    BY <1>1, <1>4, <2>2, <2>3, <2>4, AnsweredJoined
<1>6. Spoken' = Filtered(q, Heard)
  <2>1. Spoken' = Picked(q, {i \in DOMAIN q : q[i].role # "system"})
    BY <1>3 DEF Spoken
  <2> QED
    BY <2>1, HeardIs
<1>7. talk' \in Seq(Talks)
  BY <1>3
<1>8. Answered(Spoken)' <=> Answered(Spoken')
  BY DEF Answered
<1> QED
  BY <1>5, <1>6, <1>7, <1>8 DEF WireInv

LEMMA PlainItem ==
    ASSUME NEW role \in TalkRoles, NEW text \in Nat, NEW calls \in Seq(CallT),
           role = "tool" => Len(calls) = 1, role \in {"system", "user"} => calls = <<>>,
           role = "assistant" => text # 0 \/ calls # <<>>
    PROVE  /\ WireItem(role, text, calls, NoPayload) \in Talks
           /\ WireItem(role, text, calls, NoPayload).role = role
           /\ WireItem(role, text, calls, NoPayload).calls = calls
<1> HIDE DEF CallT, BlockT
<1>1. <<>> \in Seq(BlockT)
  OBVIOUS
<1>2. NoPayload \in PayloadT
  BY <1>1 DEF NoPayload, PayloadT
<1> HIDE DEF PayloadT, NoPayload
<1>3. WireItem(role, text, calls, NoPayload) \in ItemT
  BY <1>2 DEF WireItem, ItemT
<1> QED
  BY <1>3 DEF Talks, WireItem

LEMMA CallOne ==
    ASSUME NEW n \in Nat, NEW tool \in Names
    PROVE  [id |-> Id(n), tool |-> tool] \in CallT /\ Id(n) \in IdT /\ IdIsName(tool) \in IdT
<1>1. "none" \in Names
  BY DEF Names
<1> HIDE DEF Names
<1>2. Id(n) \in IdT /\ IdIsName(tool) \in IdT
  BY <1>1 DEF Id, IdIsName, IdT
<1> QED
  BY <1>2 DEF CallT

LEMMA UserKeeps == ASSUME WireInv, UserTalk PROVE WireInv'
<1> HIDE DEF Talks, CallT
<1>1. Len(talk) \in Nat
  BY DEF WireInv
<1>2. PICK t \in Nat : talk' = Append(talk, WireItem("user", t, <<>>, NoPayload))
  BY <1>1 DEF UserTalk, Fresh
<1>3. PICK x \in Talks : x = WireItem("user", t, <<>>, NoPayload) /\ x.role = "user"
  <2>1. <<>> \in Seq(CallT) /\ "user" \in TalkRoles
    BY DEF TalkRoles
  <2>2. /\ WireItem("user", t, <<>>, NoPayload) \in Talks
        /\ WireItem("user", t, <<>>, NoPayload).role = "user"
    BY <2>1, PlainItem
  <2> QED
    BY <2>2
<1>4. PICK c \in Seq(Talks) : c = <<x>> /\ Len(c) = 1 /\ c[1] = x
  <2>1. <<x>> \in Seq(Talks)
    OBVIOUS
  <2>2. Len(<<x>>) = 1 /\ <<x>>[1] = x
    OBVIOUS
  <2> QED
    BY <2>1, <2>2
<1>5. talk' = talk \o c
  BY <1>2, <1>3, <1>4 DEF WireInv
<1>6. Answered(c) /\ \A k \in 1..Len(c) : c[k].role # "system"
  BY <1>3, <1>4 DEF Answered
<1> QED
  BY <1>4, <1>5, <1>6, AddingKeeps DEF Adds

LEMMA SystemKeeps == ASSUME WireInv, SystemItem PROVE WireInv'
<1> HIDE DEF Talks, CallT
<1>1. Len(talk) \in Nat
  BY DEF WireInv
<1>2. PICK t \in Nat : talk' = Append(talk, WireItem("system", t, <<>>, NoPayload))
  BY <1>1 DEF SystemItem, Fresh
<1>3. PICK x \in Talks : x = WireItem("system", t, <<>>, NoPayload) /\ x.role = "system"
  <2>1. <<>> \in Seq(CallT) /\ "system" \in TalkRoles
    BY DEF TalkRoles
  <2>2. /\ WireItem("system", t, <<>>, NoPayload) \in Talks
        /\ WireItem("system", t, <<>>, NoPayload).role = "system"
    BY <2>1, PlainItem
  <2> QED
    BY <2>2
<1>4. PICK c \in Seq(Talks) : c = <<x>> /\ Len(c) = 1 /\ c[1] = x
  <2>1. <<x>> \in Seq(Talks)
    OBVIOUS
  <2>2. Len(<<x>>) = 1 /\ <<x>>[1] = x
    OBVIOUS
  <2> QED
    BY <2>1, <2>2
<1>5. talk' = talk \o c
  BY <1>2, <1>3, <1>4 DEF WireInv
<1>6. \A k \in 1..Len(c) : c[k].role = "system"
  BY <1>3, <1>4
<1> QED
  BY <1>4, <1>5, <1>6, AddingKeeps DEF Adds

LEMMA NoticeKeeps == ASSUME WireInv, NoticeItem PROVE WireInv'
<1> HIDE DEF Talks, CallT
<1>1. PICK n \in Nat, m \in Nat : n = Fresh(1) /\ m = Fresh(2)
  BY DEF WireInv, Fresh
<1>2. PICK e \in CallT : e = [id |-> Id(n), tool |-> "notice"]
  <2>1. "notice" \in Names
    BY DEF Names
  <2> QED
    BY <2>1, CallOne
<1>3. PICK one \in Seq(CallT) : one = <<e>> /\ Len(one) = 1 /\ one[1] = e /\ one # <<>>
  <2>1. <<e>> \in Seq(CallT)
    OBVIOUS
  <2>2. Len(<<e>>) = 1 /\ <<e>>[1] = e /\ <<e>> # <<>>
    OBVIOUS
  <2> QED
    BY <2>1, <2>2
<1>4. PICK x \in Talks : x = WireItem("assistant", 0, one, NoPayload) /\ x.role = "assistant" /\ x.calls = one
  <2>1. "assistant" \in TalkRoles /\ 0 \in Nat /\ one # <<>>
    BY <1>3 DEF TalkRoles
  <2>2. /\ WireItem("assistant", 0, one, NoPayload) \in Talks
        /\ WireItem("assistant", 0, one, NoPayload).role = "assistant"
        /\ WireItem("assistant", 0, one, NoPayload).calls = one
    BY <2>1, PlainItem
  <2> QED
    BY <2>2
<1>5. PICK y \in Talks : y = WireItem("tool", m, one, NoPayload) /\ y.role = "tool" /\ y.calls = one
  <2>1. "tool" \in TalkRoles /\ Len(one) = 1
    BY <1>3 DEF TalkRoles
  <2>2. /\ WireItem("tool", m, one, NoPayload) \in Talks
        /\ WireItem("tool", m, one, NoPayload).role = "tool"
        /\ WireItem("tool", m, one, NoPayload).calls = one
    BY <2>1, PlainItem
  <2> QED
    BY <2>2
<1>6. PICK c \in Seq(Talks) : c = <<x, y>> /\ Len(c) = 2 /\ c[1] = x /\ c[2] = y
  <2>1. <<x, y>> \in Seq(Talks)
    OBVIOUS
  <2>2. Len(<<x, y>>) = 2 /\ <<x, y>>[1] = x /\ <<x, y>>[2] = y
    OBVIOUS
  <2> QED
    BY <2>1, <2>2
<1>7. talk' = talk \o c
  BY <1>1, <1>2, <1>3, <1>4, <1>5, <1>6 DEF NoticeItem
<1>8. \A k \in 1..Len(c) : c[k].role # "system"
  <2>1. \A k \in 1..2 : k = 1 \/ k = 2
    OBVIOUS
  <2> QED
    BY <1>4, <1>5, <1>6, <2>1
<1>9. Answered(c)
  <2>1. ASSUME NEW i \in 1..2, c[i].role = "assistant", NEW k \in 1..Len(c[i].calls)
        PROVE  i + k \in 1..2 /\ c[i + k].role = "tool" /\ c[i + k].calls = <<c[i].calls[k]>>
    <3>1. i = 1 \/ i = 2
      OBVIOUS
    <3>2. i = 1
      BY <1>5, <1>6, <2>1, <3>1
    <3>3. c[i].calls = one
      BY <1>4, <1>6, <3>2
    <3>4. k = 1
      BY <1>3, <2>1, <3>3
    <3>5. c[i + k] = y /\ i + k = 2
      BY <1>6, <3>2, <3>4
    <3> QED
      BY <1>3, <1>5, <3>3, <3>4, <3>5
  <2> QED
    BY <1>6, <2>1 DEF Answered
<1> QED
  BY <1>6, <1>7, <1>8, <1>9, AddingKeeps DEF Adds

(* What a reply is parsed into: thinking, at most one text, and tool uses.  *)
TextIs(blocks, txt, t) == ParsedText(blocks) = IF txt = <<>> THEN 0 ELSE t
LEMMA ReplyTexts ==
    ASSUME NEW thk \in Seq(BlockT), NEW txt \in Seq(BlockT), NEW uses \in Seq(BlockT),
           \A k \in 1..Len(thk) : thk[k].type = "think", \A k \in 1..Len(uses) : uses[k].type = "use",
           NEW t \in Nat, txt = <<>> \/ txt = <<TextBlock(t)>>
    PROVE  TextIs(thk \o txt \o uses, txt, t)
<1> HIDE DEF BlockT
<1>1. PICK talking \in Seq(BlockT) : talking = thk \o txt
  <2>1. thk \o txt \in Seq(BlockT)
    OBVIOUS
  <2> QED
    BY <2>1
<1>2. PICK blocks \in Seq(BlockT) : blocks = talking \o uses
  <2>1. talking \o uses \in Seq(BlockT)
    OBVIOUS
  <2> QED
    BY <2>1
<1>3. PICK n \in Nat, m \in Nat, u \in Nat : n = Len(thk) /\ m = Len(txt) /\ u = Len(uses)
  OBVIOUS
<1>4. Len(talking) = n + m /\ (\A i \in 1..n : talking[i] = thk[i]) /\ \A i \in 1..m : talking[n + i] = txt[i]
  <2>1. JoinAt(thk, txt, talking)
    BY <1>1, Joined
  <2> QED
    BY <1>3, <2>1 DEF JoinAt
<1>5. /\ Len(blocks) = n + m + u /\ DOMAIN blocks = 1..n + m + u
      /\ (\A i \in 1..n + m : blocks[i] = talking[i]) /\ \A i \in 1..u : blocks[n + m + i] = uses[i]
  <2>1. JoinAt(talking, uses, blocks)
    BY <1>2, Joined
  <2>2. Len(blocks) = n + m + u
    BY <1>3, <1>4, <2>1 DEF JoinAt
  <2>3. (\A i \in 1..n + m : blocks[i] = talking[i]) /\ \A i \in 1..u : blocks[n + m + i] = uses[i]
    BY <1>3, <1>4, <2>1 DEF JoinAt
  <2>4. DOMAIN blocks = 1..Len(blocks)
    OBVIOUS
  <2> QED
    BY <2>2, <2>3, <2>4
<1>6. ASSUME NEW i \in 1..n PROVE blocks[i].type = "think" /\ i \in 1..n + m + u
  <2>1. i \in 1..n + m /\ i \in 1..n + m + u
    OBVIOUS
  <2>2. blocks[i] = thk[i]
    BY <1>4, <1>5, <2>1
  <2> QED
    BY <1>3, <2>1, <2>2
<1>7. ASSUME NEW i \in n + m + 1..n + m + u PROVE blocks[i].type = "use"
  <2>1. PICK j \in 1..u : i = n + m + j
    <3>1. i - (n + m) \in 1..u /\ i = n + m + (i - (n + m))
      OBVIOUS
    <3> QED
      BY <3>1
  <2>2. blocks[i] = uses[j]
    BY <1>5, <2>1
  <2>3. uses[j].type = "use"
    BY <1>3
  <2> QED
    BY <2>2, <2>3
<1>8. CASE txt = <<>>
  <2>1. m = 0
    BY <1>3, <1>8
  <2>2. ASSUME NEW i \in 1..n + m + u PROVE blocks[i].type # "text"
    <3>1. i \in 1..n \/ i \in n + m + 1..n + m + u
      BY <2>1
    <3> QED
      BY <1>6, <1>7, <3>1
  <2>3. OfType(blocks, "text") = {}
    BY <1>5, <2>2 DEF OfType
  <2>4. ParsedText(blocks) = 0
    BY <2>3 DEF ParsedText
  <2>5. TextIs(blocks, txt, t)
    BY <1>8, <2>4 DEF TextIs
  <2> QED
    BY <1>1, <1>2, <2>5
<1>9. CASE txt = <<TextBlock(t)>>
  <2>1. Len(<<TextBlock(t)>>) = 1 /\ <<TextBlock(t)>>[1] = TextBlock(t) /\ <<TextBlock(t)>> # <<>>
    OBVIOUS
  <2>2. m = 1 /\ txt[1] = TextBlock(t) /\ txt # <<>>
    BY <1>3, <1>9, <2>1
  <2>3. blocks[n + 1] = TextBlock(t)
    <3>1. n + 1 \in 1..n + m /\ 1 \in 1..m
      BY <2>2
    <3>2. talking[n + 1] = txt[1] /\ blocks[n + 1] = talking[n + 1]
      BY <1>4, <1>5, <3>1
    <3> QED
      BY <2>2, <3>2
  <2>4. TextBlock(t).type = "text" /\ TextBlock(t).text = t
    BY DEF TextBlock
  <2>5. ASSUME NEW i \in 1..n + m + u
        PROVE  blocks[i].type = "text" <=> i = n + 1
    <3>1. i \in 1..n \/ i = n + 1 \/ i \in n + m + 1..n + m + u
      BY <2>2
    <3>2. i \in 1..n => i # n + 1
      OBVIOUS
    <3>3. i \in n + m + 1..n + m + u => i # n + 1 /\ i \notin 1..n
      BY <2>2
    <3> QED
      BY <1>6, <1>7, <2>3, <2>4, <3>1, <3>2, <3>3
  <2>6. n + 1 \in 1..n + m + u
    BY <2>2
  <2>7. OfType(blocks, "text") = {n + 1}
    <3>1. OfType(blocks, "text") = {i \in 1..n + m + u : blocks[i].type = "text"}
      BY <1>5 DEF OfType
    <3>2. {i \in 1..n + m + u : blocks[i].type = "text"} = {i \in 1..n + m + u : i = n + 1}
      BY <2>5
    <3> QED
      BY <2>6, <3>1, <3>2
  <2>8. FirstOf({n + 1}) = n + 1
    <3>1. n + 1 \in Nat
      OBVIOUS
    <3> QED
      BY <3>1, FirstOfOne
  <2>9. ParsedText(blocks) = t
    BY <2>3, <2>4, <2>7, <2>8 DEF ParsedText
  <2>10. TextIs(blocks, txt, t)
    BY <2>2, <2>9 DEF TextIs
  <2> QED
    BY <1>1, <1>2, <2>10
<1> QED
  BY <1>8, <1>9

LEMMA TalkingWords ==
    ASSUME NEW thk \in Seq(BlockT), NEW txt \in Seq(BlockT), NEW talking \in Seq(BlockT), talking = thk \o txt,
           \A k \in 1..Len(thk) : thk[k].type = "think", \A k \in 1..Len(txt) : txt[k].type = "text"
    PROVE  UsesOf(talking) = <<>> /\ Words("llm", talking) = Words("llm", txt)
<1> HIDE DEF BlockT, WordT, Words
<1>1. UsesOf(talking) = UsesOf(thk) \o UsesOf(txt)
  BY UsesJoined
<1>2. UsesOf(thk) = <<>> /\ UsesOf(txt) = <<>>
  BY UsesNone
<1>3. <<>> \o <<>> = <<>>
  OBVIOUS
<1>4. "llm" \in Voices
  BY DEF Voices
<1>5. Words("llm", txt) \in Seq(WordT) /\ Words("llm", thk \o txt) = Words("llm", thk) \o Words("llm", txt)
  BY <1>4, WordsJoined
<1>6. Words("llm", thk) = <<>>
  BY <1>4, WordsNone
<1>7. <<>> \o Words("llm", txt) = Words("llm", txt)
  BY <1>5
<1> QED
  BY <1>1, <1>2, <1>3, <1>5, <1>6, <1>7

SaysAndUses(blocks, txt, uses) == UsesOf(blocks) = uses /\ Words("llm", blocks) = Words("llm", txt \o uses)
LEMMA ReplyWords ==
    ASSUME NEW talking \in Seq(BlockT), NEW txt \in Seq(BlockT), NEW uses \in Seq(BlockT),
           UsesOf(talking) = <<>>, Words("llm", talking) = Words("llm", txt),
           \A k \in 1..Len(uses) : uses[k].type = "use"
    PROVE  SaysAndUses(talking \o uses, txt, uses)
<1> HIDE DEF BlockT, WordT, Words
<1>1. PICK blocks \in Seq(BlockT) : blocks = talking \o uses
  <2>1. talking \o uses \in Seq(BlockT)
    OBVIOUS
  <2> QED
    BY <2>1
<1>2. UsesOf(blocks) = UsesOf(talking) \o UsesOf(uses)
  BY <1>1, UsesJoined
<1>3. UsesOf(uses) = uses
  BY UsesAll
<1>4. <<>> \o uses = uses
  OBVIOUS
<1>5. "llm" \in Voices
  BY DEF Voices
<1>6. /\ Words("llm", talking \o uses) = Words("llm", talking) \o Words("llm", uses)
      /\ Words("llm", txt \o uses) = Words("llm", txt) \o Words("llm", uses)
  BY <1>5, WordsJoined
<1> QED
  BY <1>2, <1>3, <1>4, <1>6, <1>1 DEF SaysAndUses

(* Ids are not said.                                                        *)
LEMMA SameToolsSaid ==
    ASSUME NEW p \in Seq(BlockT), NEW q \in Seq(BlockT), NEW by, Len(p) = Len(q),
           \A k \in 1..Len(p) : p[k].type = q[k].type /\ p[k].tool = q[k].tool /\ p[k].text = q[k].text
    PROVE  Words(by, p) = Words(by, q)
<1> HIDE DEF BlockT
<1>1. PICK n \in Nat : n = Len(p) /\ DOMAIN p = 1..n /\ DOMAIN q = 1..n
  OBVIOUS
<1>2. \A k \in 1..n : Word(by, p[k]) = Word(by, q[k])
  BY <1>1 DEF Word
<1>3. [k \in DOMAIN p |-> Word(by, p[k])] = [k \in DOMAIN q |-> Word(by, q[k])]
  BY <1>1, <1>2
<1> QED
  BY <1>3 DEF Words

(* What a reply with these blocks leaves of its calls.                      *)
LEMMA ParsedCallsAre ==
    ASSUME NEW p, NEW named, NEW blocks \in Seq(BlockT), NEW uses \in Seq(BlockT), UsesOf(blocks) = uses
    PROVE  /\ ParsedCalls(p, blocks, named) \in Seq(CallT)
           /\ SameTools(uses, ParsedCalls(p, blocks, named))
           /\ Len(ParsedCalls(p, blocks, named)) = Len(uses)
<1>1. PICK n \in Nat : n = Len(uses) /\ DOMAIN uses = 1..n
  <2> HIDE DEF BlockT
  <2> QED
    OBVIOUS
<1>2. ASSUME NEW k \in 1..n PROVE [id |-> CallId(p, uses[k], named), tool |-> uses[k].tool] \in CallT
  <2>1. PICK b \in BlockT : b = uses[k]
    <3> HIDE DEF BlockT
    <3> QED
      BY <1>1, ElementOfSeq
  <2>2. b.id \in IdT /\ b.tool \in Names
    <3> HIDE DEF IdT, Names
    <3> QED
      BY DEF BlockT
  <2>3. IdIsName(b.tool) \in IdT
    <3>1. 0 \in Nat
      OBVIOUS
    <3> HIDE DEF IdT, Names
    <3> QED
      BY <2>2, <3>1, CallOne
  <2> HIDE DEF IdT, Names, BlockT
  <2>4. CallId(p, b, named) \in IdT
    BY <2>2, <2>3 DEF CallId
  <2> QED
    BY <2>1, <2>2, <2>4 DEF CallT
<1> HIDE DEF BlockT, CallT
<1>3. ParsedCalls(p, blocks, named) = [k \in 1..n |-> [id |-> CallId(p, uses[k], named), tool |-> uses[k].tool]]
  BY <1>1 DEF ParsedCalls
<1>4. PICK c \in Seq(CallT) :
         /\ c = ParsedCalls(p, blocks, named) /\ Len(c) = n
         /\ \A k \in 1..n : c[k] = [id |-> CallId(p, uses[k], named), tool |-> uses[k].tool]
  <2>1. ParsedCalls(p, blocks, named) \in Seq(CallT) /\ Len(ParsedCalls(p, blocks, named)) = n
    BY <1>2, <1>3
  <2>2. \A k \in 1..n : ParsedCalls(p, blocks, named)[k] = [id |-> CallId(p, uses[k], named), tool |-> uses[k].tool]
    BY <1>3
  <2> QED
    BY <2>1, <2>2
<1>5. \A k \in 1..n : uses[k].tool = c[k].tool
  BY <1>4
<1> QED
  BY <1>1, <1>4, <1>5 DEF SameTools

(* Blocks with this text and these tool uses, besides their thinking.       *)
ReplyIs(blocks, uses, txt, t) ==
    /\ Words("llm", blocks) = Words("llm", txt \o uses) /\ UsesOf(blocks) = uses
    /\ \A k \in 1..Len(uses) : uses[k].type = "use" /\ uses[k].text = 0
    /\ txt = IF t = 0 THEN <<>> ELSE <<TextBlock(t)>>
    /\ ParsedText(blocks) = t

LEMMA ReplyItemIs ==
    ASSUME NEW p \in WireProviders, NEW blocks \in Seq(BlockT), NEW uses \in Seq(BlockT), NEW txt \in Seq(BlockT),
           NEW t \in Nat, NEW calls \in Seq(CallT), NEW x, ReplyIs(blocks, uses, txt, t), SameTools(uses, calls),
           x = WireItem("assistant", t, calls, ReplayPayload(p, blocks)),
           t # 0 \/ calls # <<>> \/ ReplayPayload(p, blocks) # NoPayload
    PROVE  x \in Talks /\ x.role = "assistant" /\ x.calls = calls
<1>1. /\ x.role = "assistant" /\ x.text = t /\ x.calls = calls /\ x.payload = ReplayPayload(p, blocks)
  BY DEF WireItem
<1>2. ReplayPayload(p, blocks) \in PayloadT
  <2> HIDE DEF BlockT
  <2>1. <<>> \in Seq(BlockT)
    OBVIOUS
  <2>2. FormatOf[p] \in {"openai", "vertex", "claude"}
    BY WireAssumption
  <2> QED
    BY <2>1, <2>2 DEF ReplayPayload, PayloadT, NoPayload
<1>3. x \in ItemT
  <2> HIDE DEF PayloadT, CallT, ReplayPayload
  <2> QED
    BY <1>2 DEF ItemT, WireItem, TalkRoles
<1>4. ASSUME x.payload # NoPayload PROVE Replays(x)
  <2>1. x.payload = [provider |-> p, format |-> FormatOf[p], blocks |-> blocks]
    BY <1>1, <1>4 DEF ReplayPayload
  <2>2. x.payload.provider = p /\ x.payload.format = FormatOf[p] /\ x.payload.blocks = blocks
    BY <2>1
  <2> HIDE DEF BlockT, CallT, ItemT, Words
  <2>3. PICK y \in Seq(BlockT) :
           /\ y = Uses(x) /\ Len(y) = Len(calls)
           /\ \A k \in 1..Len(y) : y[k].type = "use" /\ y[k].tool = calls[k].tool /\ y[k].text = 0
    BY <1>1, <1>3, ItemBlocks
  <2>4. Words("llm", y) = Words("llm", uses)
    <3>1. PICK n \in Nat : n = Len(calls)
      OBVIOUS
    <3>2. Len(uses) = n /\ \A k \in 1..n : uses[k].tool = calls[k].tool
      BY <3>1 DEF SameTools
    <3>3. \A k \in 1..n : y[k].type = uses[k].type /\ y[k].tool = uses[k].tool /\ y[k].text = uses[k].text
      BY <2>3, <3>1, <3>2 DEF ReplyIs
    <3>4. /\ Len(y) = Len(uses)
          /\ \A k \in 1..Len(y) : y[k].type = uses[k].type /\ y[k].tool = uses[k].tool /\ y[k].text = uses[k].text
      BY <2>3, <3>1, <3>2, <3>3
    <3> QED
      BY <3>4, SameToolsSaid
  <2>5. Texts(x) = txt
    BY <1>1 DEF Texts, ReplyIs
  <2>6. Words("llm", txt \o y) = Words("llm", txt \o uses)
    <3>1. "llm" \in Voices
      BY DEF Voices
    <3>2. Words("llm", txt \o y) = Words("llm", txt) \o Words("llm", y)
      BY <3>1, WordsJoined
    <3>3. Words("llm", txt \o uses) = Words("llm", txt) \o Words("llm", uses)
      BY <3>1, WordsJoined
    <3> QED
      BY <2>4, <3>2, <3>3
  <2> QED
    BY <1>1, <2>2, <2>3, <2>5, <2>6 DEF Replays, ReplyIs
<1>5. x \in Talks
  <2> HIDE DEF ItemT, Replays, NoPayload, ReplayPayload
  <2> QED
    BY <1>1, <1>3, <1>4 DEF Talks
<1> QED
  BY <1>1, <1>5

LEMMA ReplyItemsKeep ==
    ASSUME WireInv, NEW p \in WireProviders, NEW named, NEW blocks \in Seq(BlockT), NEW uses \in Seq(BlockT),
           NEW txt \in Seq(BlockT), NEW t \in Nat, ReplyIs(blocks, uses, txt, t),
           talk' = talk \o ReplyItems(p, blocks, named)
    PROVE  WireInv'
<1> HIDE DEF Talks, BlockT, CallT
<1>1. PICK calls \in Seq(CallT) : calls = ParsedCalls(p, blocks, named) /\ SameTools(uses, calls)
  <2>1. UsesOf(blocks) = uses
    BY DEF ReplyIs
  <2> QED
    BY <2>1, ParsedCallsAre
<1>2. PICK empty : empty = (t = 0 /\ calls = <<>> /\ ReplayPayload(p, blocks) = NoPayload)
  OBVIOUS
<1>3. CASE empty
  <2>1. ReplyItems(p, blocks, named) = <<>>
    BY <1>1, <1>2, <1>3 DEF ReplyItems, ReplyIs
  <2>2. <<>> \in Seq(Talks)
    OBVIOUS
  <2>3. Adds(<<>>)
    BY <2>1, <2>2 DEF Adds
  <2> QED
    BY <2>3, AddingKeeps
<1>4. CASE ~empty
  <2>1. PICK x \in Talks :
           /\ x = WireItem("assistant", t, calls, ReplayPayload(p, blocks))
           /\ x.role = "assistant" /\ x.calls = calls
    <3>1. t # 0 \/ calls # <<>> \/ ReplayPayload(p, blocks) # NoPayload
      BY <1>2, <1>4
    <3>2. PICK x : x = WireItem("assistant", t, calls, ReplayPayload(p, blocks))
      OBVIOUS
    <3>3. x \in Talks /\ x.role = "assistant" /\ x.calls = calls
      BY <1>1, <3>1, <3>2, ReplyItemIs
    <3> QED
      BY <3>2, <3>3
  <2>2. PICK n \in Nat : n = Len(calls) /\ DOMAIN calls = 1..n
    OBVIOUS
  <2>3. PICK results : results = [k \in 1..n |-> WireItem("tool", Fresh(10 + k), <<calls[k]>>, NoPayload)]
    OBVIOUS
  <2>4. ASSUME NEW k \in 1..n
        PROVE  results[k] \in Talks /\ results[k].role = "tool" /\ results[k].calls = <<calls[k]>>
    <3>1. PICK e \in CallT : e = calls[k]
      BY <2>2, ElementOfSeq
    <3>2. PICK one \in Seq(CallT) : one = <<e>> /\ Len(one) = 1
      <4>1. <<e>> \in Seq(CallT)
        OBVIOUS
      <4>2. Len(<<e>>) = 1
        OBVIOUS
      <4> QED
        BY <4>1, <4>2
    <3>3. PICK text \in Nat : text = Fresh(10 + k)
      BY DEF Fresh, WireInv
    <3>4. "tool" \in TalkRoles
      BY DEF TalkRoles
    <3>5. /\ WireItem("tool", text, one, NoPayload) \in Talks
          /\ WireItem("tool", text, one, NoPayload).role = "tool"
          /\ WireItem("tool", text, one, NoPayload).calls = one
      BY <3>2, <3>4, PlainItem, ZenonT(30)
    <3>6. results[k] = WireItem("tool", text, one, NoPayload)
      BY <2>3, <3>1, <3>2, <3>3
    <3> QED
      BY <3>1, <3>2, <3>5, <3>6
  <2>5. PICK r \in Seq(Talks) :
           r = results /\ Len(r) = n /\ \A k \in 1..n : r[k].role = "tool" /\ r[k].calls = <<calls[k]>>
    <3>1. results \in Seq(Talks) /\ Len(results) = n
      BY <2>3, <2>4
    <3> QED
      BY <2>4, <3>1
  <2>6. PICK one \in Seq(Talks) : one = <<x>> /\ Len(one) = 1 /\ one[1] = x
    <3>1. <<x>> \in Seq(Talks)
      OBVIOUS
    <3>2. Len(<<x>>) = 1 /\ <<x>>[1] = x
      OBVIOUS
    <3> QED
      BY <3>1, <3>2
  <2>7. PICK c \in Seq(Talks) : c = one \o r /\ Len(c) = 1 + n /\ c[1] = x /\ \A k \in 1..n : c[1 + k] = r[k]
    <3>1. one \o r \in Seq(Talks) /\ JoinAt(one, r, one \o r)
      BY Joined
    <3>2. Len(one \o r) = 1 + n
      BY <2>5, <2>6, <3>1 DEF JoinAt
    <3>3. (one \o r)[1] = x
      BY <2>6, <3>1 DEF JoinAt
    <3>4. \A k \in 1..n : (one \o r)[1 + k] = r[k]
      BY <2>5, <2>6, <3>1 DEF JoinAt
    <3> QED
      BY <3>1, <3>2, <3>3, <3>4
  <2>8. ReplyItems(p, blocks, named) = c
    <3>1. ReplyItems(p, blocks, named) =
             <<WireItem("assistant", t, calls, ReplayPayload(p, blocks))>>
               \o [k \in DOMAIN calls |-> WireItem("tool", Fresh(10 + k), <<calls[k]>>, NoPayload)]
      BY <1>1, <1>2, <1>4 DEF ReplyItems, ReplyIs
    <3> QED
      BY <2>1, <2>2, <2>3, <2>5, <2>6, <2>7, <3>1
  <2>9. ASSUME NEW k \in 1..1 + n PROVE k = 1 \/ (k - 1 \in 1..n /\ c[k] = r[k - 1])
    <3>1. CASE k > 1
      <4>1. k - 1 \in 1..n /\ 1 + (k - 1) = k
        BY <3>1
      <4> QED
        BY <2>7, <4>1
    <3> QED
      BY <3>1
  <2>10. \A k \in 1..Len(c) : c[k].role # "system"
    BY <2>1, <2>5, <2>7, <2>9, SMTT(30)
  <2>11. Answered(c)
    <3>1. ASSUME NEW i \in 1..1 + n, c[i].role = "assistant", NEW k \in 1..Len(c[i].calls)
          PROVE  i + k \in 1..1 + n /\ c[i + k].role = "tool" /\ c[i + k].calls = <<c[i].calls[k]>>
      <4>1. i = 1
        BY <2>5, <2>9, <3>1
      <4>2. c[i].calls = calls
        BY <2>1, <2>7, <4>1
      <4>3. k \in 1..n
        BY <2>2, <3>1, <4>2
      <4>4. PICK j \in 1..n : j = k
        BY <4>3
      <4>5. 1 + j \in 1..1 + n
        OBVIOUS
      <4>6. c[1 + j] = r[j]
        BY <2>7
      <4>7. r[j].role = "tool" /\ r[j].calls = <<calls[j]>>
        BY <2>5
      <4> QED
        BY <4>1, <4>2, <4>4, <4>5, <4>6, <4>7
    <3> QED
      BY <2>7, <3>1, ZenonT(30) DEF Answered
  <2>12. Adds(c)
    BY <2>8, <2>10, <2>11 DEF Adds
  <2> QED
    BY <2>12, AddingKeeps
<1> QED
  BY <1>3, <1>4

LEMMA ReplyJoined ==
    ASSUME NEW thk \in Seq(BlockT), NEW txt \in Seq(BlockT), NEW uses \in Seq(BlockT), NEW t \in Nat,
           \A k \in 1..Len(thk) : thk[k].type = "think", \A k \in 1..Len(txt) : txt[k].type = "text",
           \A k \in 1..Len(uses) : uses[k].type = "use" /\ uses[k].text = 0,
           txt = IF t = 0 THEN <<>> ELSE <<TextBlock(t)>>
    PROVE  ReplyIs(thk \o txt \o uses, uses, txt, t)
<1> HIDE DEF BlockT, Words
<1>1. PICK talking \in Seq(BlockT) : talking = thk \o txt
  <2>1. thk \o txt \in Seq(BlockT)
    OBVIOUS
  <2> QED
    BY <2>1
<1>2. PICK blocks \in Seq(BlockT) : blocks = talking \o uses
  <2>1. talking \o uses \in Seq(BlockT)
    OBVIOUS
  <2> QED
    BY <2>1
<1>3. UsesOf(talking) = <<>> /\ Words("llm", talking) = Words("llm", txt)
  BY <1>1, TalkingWords, ZenonT(30)
<1>4. UsesOf(blocks) = uses /\ Words("llm", blocks) = Words("llm", txt \o uses)
  <2>1. \A k \in 1..Len(uses) : uses[k].type = "use"
    OBVIOUS
  <2>2. SaysAndUses(talking \o uses, txt, uses)
    BY <1>3, <2>1, ReplyWords
  <2> QED
    BY <1>2, <2>2 DEF SaysAndUses
<1>5. ParsedText(blocks) = t
  <2>1. txt = <<>> \/ txt = <<TextBlock(t)>>
    OBVIOUS
  <2>2. ParsedText(blocks) = IF txt = <<>> THEN 0 ELSE t
    <3>1. \A k \in 1..Len(uses) : uses[k].type = "use"
      OBVIOUS
    <3>2. TextIs(thk \o txt \o uses, txt, t)
      BY <2>1, <3>1, ReplyTexts
    <3> QED
      BY <1>1, <1>2, <3>2 DEF TextIs
  <2>3. <<TextBlock(t)>> # <<>>
    OBVIOUS
  <2> QED
    BY <2>2, <2>3
<1> QED
  BY <1>1, <1>2, <1>4, <1>5 DEF ReplyIs

LEMMA ReplyKeeps == ASSUME WireInv, ReplyArrives PROVE WireInv'
<1> HIDE DEF Talks
<1>1. PICK p \in WireProviders, tools \in CalledTools, text \in BOOLEAN, thinks \in BOOLEAN, named \in BOOLEAN :
         talk' = talk \o ReplyItems(p, (IF thinks THEN <<ThinkBlock(Fresh(2))>> ELSE <<>>)
                                          \o (IF text THEN <<TextBlock(Fresh(1))>> ELSE <<>>)
                                          \o [i \in DOMAIN tools |-> Use(Id(Fresh(20 + i)), tools[i])], named)
  BY DEF ReplyArrives
<1>2. PICK e \in Nat : e = Len(talk)
  BY DEF WireInv
<1>3. PICK a \in Nat, b \in Nat \ {0} : a = Fresh(2) /\ b = Fresh(1)
  BY <1>2 DEF Fresh
<1>4. ThinkBlock(a) \in BlockT /\ TextBlock(b) \in BlockT
  <2>1. "none" \in Names
    BY DEF Names
  <2>2. Id(0) \in IdT
    BY <2>1, CallOne
  <2> HIDE DEF Names, IdT
  <2> QED
    BY <2>1, <2>2 DEF ThinkBlock, TextBlock, BlockT
<1>5. PICK n \in Nat : n = Len(tools) /\ DOMAIN tools = 1..n
  <2>1. tools \in Seq(STRING)
    BY WireAssumption
  <2> QED
    BY <2>1
<1>6. ASSUME NEW i \in 1..n PROVE Use(Id(Fresh(20 + i)), tools[i]) \in BlockT
  <2>1. tools[i] \in Names
    BY <1>5 DEF Names
  <2>2. PICK k \in Nat : k = Fresh(20 + i)
    BY <1>2 DEF Fresh
  <2>3. Id(k) \in IdT
    BY <2>1, <2>2, CallOne
  <2> HIDE DEF Names, IdT
  <2> QED
    BY <2>1, <2>2, <2>3 DEF Use, BlockT
<1> HIDE DEF BlockT, Words
<1>7. PICK thk \in Seq(BlockT) :
         /\ thk = IF thinks THEN <<ThinkBlock(a)>> ELSE <<>>
         /\ \A k \in 1..Len(thk) : thk[k].type = "think"
  <2>1. PICK c \in BlockT : c = ThinkBlock(a) /\ c.type = "think"
    BY <1>4 DEF ThinkBlock
  <2>2. <<c>> \in Seq(BlockT) /\ <<>> \in Seq(BlockT)
    OBVIOUS
  <2>3. Len(<<c>>) = 1 /\ <<c>>[1] = c /\ Len(<<>>) = 0
    OBVIOUS
  <2>4. \A k \in 1..Len(<<c>>) : <<c>>[k].type = "think"
    BY <2>1, <2>3
  <2>5. CASE thinks
    BY <2>1, <2>2, <2>4, <2>5
  <2>6. CASE ~thinks
    <3>1. \A k \in 1..0 : <<>>[k].type = "think"
      OBVIOUS
    <3>2. \A k \in 1..Len(<<>>) : <<>>[k].type = "think"
      BY <2>3, <3>1
    <3> QED
      BY <2>2, <2>6, <3>2
  <2> QED
    BY <2>5, <2>6
<1>8. PICK t \in Nat : t = IF text THEN b ELSE 0
  OBVIOUS
<1>9. PICK txt \in Seq(BlockT) :
         /\ txt = (IF text THEN <<TextBlock(b)>> ELSE <<>>) /\ txt = (IF t = 0 THEN <<>> ELSE <<TextBlock(t)>>)
         /\ \A k \in 1..Len(txt) : txt[k].type = "text"
  <2>1. PICK c \in BlockT : c = TextBlock(b) /\ c.type = "text"
    BY <1>4 DEF TextBlock
  <2>2. <<c>> \in Seq(BlockT) /\ <<>> \in Seq(BlockT)
    OBVIOUS
  <2>3. Len(<<c>>) = 1 /\ <<c>>[1] = c /\ Len(<<>>) = 0
    OBVIOUS
  <2>4. \A k \in 1..Len(<<c>>) : <<c>>[k].type = "text"
    BY <2>1, <2>3
  <2>5. CASE text
    <3>1. t = b /\ t # 0
      BY <1>8, <2>5
    <3> QED
      BY <2>1, <2>2, <2>4, <2>5, <3>1
  <2>6. CASE ~text
    <3>1. t = 0
      BY <1>8, <2>6
    <3>2. \A k \in 1..0 : <<>>[k].type = "text"
      OBVIOUS
    <3>3. \A k \in 1..Len(<<>>) : <<>>[k].type = "text"
      BY <2>3, <3>2
    <3> QED
      BY <2>2, <2>6, <3>1, <3>3
  <2> QED
    BY <2>5, <2>6
<1>10. PICK uses \in Seq(BlockT) :
          /\ uses = [i \in DOMAIN tools |-> Use(Id(Fresh(20 + i)), tools[i])]
          /\ \A k \in 1..Len(uses) : uses[k].type = "use" /\ uses[k].text = 0
  <2>1. PICK uses : uses = [i \in 1..n |-> Use(Id(Fresh(20 + i)), tools[i])]
    OBVIOUS
  <2>2. uses \in Seq(BlockT) /\ Len(uses) = n
    <3> HIDE DEF Use
    <3> QED
      BY <1>6, <2>1
  <2>3. \A k \in 1..n : uses[k].type = "use" /\ uses[k].text = 0
    BY <2>1 DEF Use
  <2> QED
    BY <1>5, <2>1, <2>2, <2>3
<1>11. ReplyIs(thk \o txt \o uses, uses, txt, t)
  <2>1. /\ \A k \in 1..Len(thk) : thk[k].type = "think"
        /\ \A k \in 1..Len(txt) : txt[k].type = "text"
        /\ \A k \in 1..Len(uses) : uses[k].type = "use" /\ uses[k].text = 0
        /\ txt = IF t = 0 THEN <<>> ELSE <<TextBlock(t)>>
    BY <1>7, <1>9, <1>10
  <2> QED
    BY <2>1, ReplyJoined
<1>12. PICK blocks \in Seq(BlockT) : blocks = thk \o txt \o uses
  <2>1. thk \o txt \o uses \in Seq(BlockT)
    OBVIOUS
  <2> QED
    BY <2>1
<1>13. ReplyIs(blocks, uses, txt, t)
  BY <1>11, <1>12
<1>14. talk' = talk \o ReplyItems(p, blocks, named)
  BY <1>1, <1>3, <1>7, <1>9, <1>10, <1>12
<1> QED
  BY <1>13, <1>14, ReplyItemsKeep

LEMMA WireInductive ==
    /\ WireInit => WireInv
    /\ WireInv /\ [WireNext]_talk => WireInv'
<1>1. ASSUME WireInit PROVE WireInv
  <2> HIDE DEF Talks
  <2>1. talk = <<>> /\ talk \in Seq(Talks)
    BY <1>1 DEF WireInit
  <2>2. Spoken = Filtered(talk, Heard)
    BY <2>1, SpokenIs
  <2>3. \A k \in 1..Len(talk) : talk[k] \notin Heard
    BY <2>1
  <2>4. Filtered(talk, Heard) = <<>>
    BY <2>1, <2>3, FilteredNone
  <2> QED
    BY <2>1, <2>2, <2>4 DEF WireInv, Answered
<1>2. ASSUME WireInv, WireNext PROVE WireInv'
  BY <1>2, UserKeeps, SystemKeeps, NoticeKeeps, ReplyKeeps DEF WireNext
<1>3. ASSUME WireInv, UNCHANGED talk PROVE WireInv'
  <2> HIDE DEF Talks
  <2>1. talk' = talk
    BY <1>3
  <2>2. Spoken' = Spoken
    BY <2>1 DEF Spoken
  <2>3. Answered(Spoken)' <=> Answered(Spoken')
    BY DEF Answered
  <2> QED
    BY <1>3, <2>1, <2>2, <2>3 DEF WireInv
<1> QED
  BY <1>1, <1>2, <1>3

(* DefaultLLM_API_Impl, VertexAI_API and ClaudeAI_API (llm_api.py): for any *)
(* providers, tools and length of the talk, whichever provider is asked next*)
(* is sent the whole conversation, with every call answered by its result   *)
(* and the thinking of the replies that came from it, and no other.         *)
THEOREM ConversationsArrive == WireInit /\ [][WireNext]_talk => []ConversationArrives
<1>1. WireInit => WireInv
  BY WireInductive
<1>2. WireInv /\ [WireNext]_talk => WireInv'
  BY WireInductive
<1>3. WireInv => ConversationArrives
  BY WireInvImplies
<1> QED
  BY <1>1, <1>2, <1>3, PTL
=============================================================================
