----------------------------- MODULE EngineProofs -----------------------------
(* Theorems about the provider router's fallback, the answers that providers  *)
(* stream, the fan-out of sub-engines, and the extension point's check before *)
(* a removal.                                                                 *)
EXTENDS ModelRouter, ProviderStream, SubEngines, ExtensionPoint,
        FiniteSetTheorems, SequenceTheorems, WellFoundedInduction, TLAPS

-----------------------------------------------------------------------------
(* The provider router: for every chain, registry and policy. *)
RouterSpec == RouterInit /\ [][RouterNext]_routerVars

RouterTypes ==
    /\ chain \in Seq(DOMAIN Offers)
    /\ retries \in BOOLEAN
    /\ at \in Nat /\ 1 <= at /\ (at <= Len(chain) \/ chain = <<>>)
    /\ tries \in [DOMAIN chain -> Seq(Outcomes)]
    /\ answer \in Answers

\* While the router is at work, the provider it is at has attempts left.
AttemptsLeft ==
    Serving /\ chain # <<>> =>
        /\ Len(tries[at]) < Attempts
        /\ \A n \in 1..Len(tries[at]) : tries[at][n] = "retryable"

UnusableUncalled ==
    \A i \in DOMAIN chain : ~Usable(chain[i]) => tries[i] = <<>>

RouterInv == RouterTypes /\ AttemptsLeft /\ UnusableUncalled /\ FallbackInOrder

\* An attempt more than none, as policy.max_retries + 1.
LEMMA AttemptsPositive ==
    ASSUME retries \in BOOLEAN
    PROVE  Attempts \in Nat /\ Attempts >= 1
BY RouterAssumption DEF Attempts

\* The chain is not empty while a provider is reached.
LEMMA AtPosition ==
    ASSUME RouterTypes, Reached
    PROVE  at \in 1..Len(chain) /\ chain # <<>> /\ DOMAIN chain = 1..Len(chain) /\ Len(chain) \in Nat
BY DEF RouterTypes, Reached

\* The chain goes on by one position, or ends where it is.
LEMMA GoesOn ==
    ASSUME RouterTypes, Reached, NEW error, GoOn(error)
    PROVE  /\ \/ at < Len(chain) /\ at' = at + 1 /\ answer' = "none"
              \/ at = Len(chain) /\ at' = at /\ answer' = error
           /\ {at, at'} \subseteq Nat /\ 1 <= at' /\ at' <= Len(chain) /\ at' \in {at, at + 1}
           /\ at' \in DOMAIN chain
           /\ \A i \in DOMAIN chain : /\ i > at' => i > at
                                     /\ i < at' => i < at \/ i = at
<1> DEFINE last == Len(chain)
<1>1. at \in Nat /\ 1 <= at /\ last \in Nat /\ at <= last /\ answer = "none"
      /\ \A i \in DOMAIN chain : i \in Nat
  BY AtPosition DEF Reached, Serving
<1>2. DOMAIN chain = 1..last
  BY AtPosition
<1>3. IF at < last THEN at' = at + 1 /\ answer' = answer ELSE answer' = error /\ at' = at
  BY DEF GoOn
<1> HIDE DEF last
<1>4. \/ at < last /\ at' = at + 1 /\ answer' = "none"
      \/ at = last /\ at' = at /\ answer' = error
  BY <1>1, <1>3
<1>5. at' \in Nat /\ 1 <= at' /\ at' <= last /\ at' \in {at, at + 1}
  BY <1>1, <1>4
<1>6. ASSUME NEW i \in DOMAIN chain
      PROVE  (i > at' => i > at) /\ (i < at' => i < at \/ i = at)
  <2>1. i \in Nat
    BY <1>1
  <2> QED
    BY <1>1, <1>4, <2>1
<1>7. at' \in DOMAIN chain
  BY <1>5, <1>2
<1> QED
  BY <1>4, <1>5, <1>6, <1>7 DEF last

\* What a call leaves behind: the outcomes of one provider, longer by one.
LEMMA CalledOnce ==
    ASSUME RouterInv, NEW outcome \in Outcomes, Called(outcome)
    PROVE  /\ tries' \in [DOMAIN chain -> Seq(Outcomes)]
           /\ \A i \in DOMAIN chain : i # at => tries'[i] = tries[i]
           /\ Len(tries'[at]) = Len(tries[at]) + 1
           /\ tries'[at][Len(tries'[at])] = outcome
           /\ \A n \in 1..Len(tries[at]) : tries'[at][n] = "retryable"
           /\ Len(tries[at]) \in Nat
           /\ tries'[at] # <<>>
<1>1. at \in DOMAIN chain /\ chain # <<>>
  BY AtPosition DEF RouterInv, Called
<1>2. tries[at] \in Seq(Outcomes) /\ tries \in [DOMAIN chain -> Seq(Outcomes)]
  BY <1>1 DEF RouterInv, RouterTypes
<1>3. tries' = [tries EXCEPT ![at] = Append(tries[at], outcome)]
  BY DEF Called
<1>4. Append(tries[at], outcome) \in Seq(Outcomes)
  BY <1>2
<1>5. tries'[at] = Append(tries[at], outcome)
  BY <1>1, <1>2, <1>3
<1>6. \A n \in 1..Len(tries[at]) : tries[at][n] = "retryable"
  BY <1>1 DEF RouterInv, AttemptsLeft, Called, Reached
<1>7. \A n \in 1..Len(tries[at]) : Append(tries[at], outcome)[n] = tries[at][n]
  BY <1>2
<1>8. Len(Append(tries[at], outcome)) = Len(tries[at]) + 1 /\ Len(tries[at]) \in Nat
      /\ Append(tries[at], outcome)[Len(tries[at]) + 1] = outcome
  BY <1>2
<1>9. Append(tries[at], outcome) # <<>>
  <2>1. SUFFICES ASSUME Append(tries[at], outcome) = <<>>
                 PROVE  FALSE
    OBVIOUS
  <2>2. Len(<<>>) = Len(tries[at]) + 1
    BY <2>1, <1>8
  <2>3. Len(<<>>) = 0
    OBVIOUS
  <2> QED
    BY <2>2, <2>3, <1>8
<1> QED
  BY <1>1, <1>2, <1>3, <1>4, <1>5, <1>6, <1>7, <1>8, <1>9

\* What a call leaves alone, and what it means for the history.
LEMMA CallKeeps ==
    ASSUME RouterInv, NEW outcome \in Outcomes, Called(outcome),
           at' \in {at, at + 1}, at' <= Len(chain), answer' \in Answers
    PROVE  /\ RouterTypes' /\ UnusableUncalled'
           /\ \A i \in DOMAIN chain :
                /\ Len(tries'[i]) <= Attempts
                /\ \A n \in 1..(Len(tries'[i]) - 1) : tries'[i][n] = "retryable"
                /\ i > at' => tries'[i] = <<>>
                /\ i < at => GivenUp(i)' /\ \A n \in DOMAIN tries'[i] : tries'[i][n] # "response"
<1>1. at \in 1..Len(chain) /\ chain # <<>> /\ DOMAIN chain = 1..Len(chain) /\ Len(chain) \in Nat
  BY AtPosition DEF RouterInv, Called
<1>2. request' = request /\ chain' = chain /\ retries' = retries /\ Usable(chain[at])
  BY DEF Called
<1>3. /\ tries' \in [DOMAIN chain -> Seq(Outcomes)]
      /\ \A i \in DOMAIN chain : i # at => tries'[i] = tries[i]
      /\ Len(tries'[at]) = Len(tries[at]) + 1
      /\ \A n \in 1..Len(tries[at]) : tries'[at][n] = "retryable"
      /\ Len(tries[at]) \in Nat
  BY CalledOnce
<1>4. RouterTypes'
  BY <1>1, <1>2, <1>3 DEF RouterInv, RouterTypes
<1>5. UnusableUncalled'
  BY <1>1, <1>2, <1>3 DEF RouterInv, UnusableUncalled, Usable
<1>6. Len(tries[at]) < Attempts /\ Attempts \in Nat
  BY <1>1, AttemptsPositive DEF RouterInv, RouterTypes, AttemptsLeft, Called, Reached
<1>7. ASSUME NEW i \in DOMAIN chain
      PROVE  /\ Len(tries'[i]) <= Attempts
             /\ \A n \in 1..(Len(tries'[i]) - 1) : tries'[i][n] = "retryable"
             /\ i > at' => tries'[i] = <<>>
             /\ i < at => GivenUp(i)' /\ \A n \in DOMAIN tries'[i] : tries'[i][n] # "response"
  <2>1. CASE i = at
    <3>1. ~(i < at) /\ ~(i > at')
      BY <1>1, <2>1
    <3>2. Len(tries'[i]) <= Attempts
      BY <1>3, <1>6, <2>1
    <3>3. ASSUME NEW n \in 1..(Len(tries'[i]) - 1)
          PROVE  tries'[i][n] = "retryable"
      BY <1>3, <2>1, <3>3
    <3> QED
      BY <3>1, <3>2, <3>3
  <2>2. CASE i # at
    <3>1. tries'[i] = tries[i]
      BY <1>3, <2>2
    <3>2. i > at' => i > at
      BY <1>1
    <3>3. GivenUp(i)' <=> GivenUp(i)
      BY <1>2, <3>1 DEF GivenUp, Usable, Attempts
    <3> QED
      BY <3>1, <3>2, <3>3 DEF RouterInv, FallbackInOrder
  <2> QED
    BY <2>1, <2>2
<1> QED
  BY <1>4, <1>5, <1>7

\* route_chat returns the first response.
LEMMA ResponseKept ==
    ASSUME RouterInv, Called("response"), answer' = "response", at' = at
    PROVE  RouterInv'
<1>1. at \in 1..Len(chain) /\ chain # <<>> /\ chain' = chain /\ Attempts' = Attempts
  BY AtPosition DEF RouterInv, Called, Attempts
<1>2. "response" \in Outcomes /\ "response" \in Answers
  BY DEF Outcomes, Answers
<1>3. tries'[at] # <<>> /\ tries'[at][Len(tries'[at])] = "response"
  BY <1>2, CalledOnce
<1>4. AttemptsLeft'
  BY DEF AttemptsLeft, Serving
<1>5. /\ RouterTypes' /\ UnusableUncalled'
      /\ \A i \in DOMAIN chain :
            /\ Len(tries'[i]) <= Attempts
            /\ \A n \in 1..(Len(tries'[i]) - 1) : tries'[i][n] = "retryable"
            /\ i > at' => tries'[i] = <<>>
            /\ i < at => GivenUp(i)' /\ \A n \in DOMAIN tries'[i] : tries'[i][n] # "response"
  BY <1>1, <1>2, CallKeeps
<1>6. FallbackInOrder'
  BY <1>1, <1>3, <1>5 DEF FallbackInOrder
<1> QED
  BY <1>4, <1>5, <1>6 DEF RouterInv

\* A retryable error with attempts left: the same provider is called again.
LEMMA RetryKept ==
    ASSUME RouterInv, NEW error \in Errors, RetriesLater(error)
    PROVE  RouterInv'
<1>1. Called(error) /\ at' = at /\ answer' = answer /\ ~GivesUp(error)
  BY DEF RetriesLater
<1>2. at \in 1..Len(chain) /\ chain # <<>> /\ chain' = chain /\ Attempts' = Attempts /\ answer = "none"
  BY <1>1, AtPosition DEF RouterInv, Called, Attempts, Reached, Serving
<1>3. error \in Outcomes /\ answer' \in Answers /\ "none" \notin Outcomes /\ error = "retryable"
  BY <1>1, <1>2 DEF Outcomes, Errors, Answers, GivesUp
<1>4. Len(tries[at]) + 1 # Attempts /\ Len(tries[at]) < Attempts /\ Attempts \in Nat
  BY <1>1, <1>2, AttemptsPositive DEF RouterInv, RouterTypes, AttemptsLeft, GivesUp, Serving
<1>5. /\ Len(tries'[at]) = Len(tries[at]) + 1 /\ Len(tries[at]) \in Nat
      /\ tries'[at][Len(tries'[at])] = "retryable"
      /\ \A n \in 1..Len(tries[at]) : tries'[at][n] = "retryable"
  BY <1>1, <1>3, CalledOnce
<1>6. AttemptsLeft'
  <2>1. Len(tries'[at]) < Attempts
    BY <1>4, <1>5
  <2>2. ASSUME NEW n \in 1..Len(tries'[at])
        PROVE  tries'[at][n] = "retryable"
    BY <1>5, <2>2
  <2> QED
    BY <1>1, <1>2, <2>1, <2>2 DEF AttemptsLeft
<1>7. /\ RouterTypes' /\ UnusableUncalled'
      /\ \A i \in DOMAIN chain :
            /\ Len(tries'[i]) <= Attempts
            /\ \A n \in 1..(Len(tries'[i]) - 1) : tries'[i][n] = "retryable"
            /\ i > at' => tries'[i] = <<>>
            /\ i < at => GivenUp(i)' /\ \A n \in DOMAIN tries'[i] : tries'[i][n] # "response"
  BY <1>1, <1>2, <1>3, CallKeeps
<1>8. FallbackInOrder'
  BY <1>1, <1>2, <1>3, <1>7 DEF FallbackInOrder
<1> QED
  BY <1>6, <1>7, <1>8 DEF RouterInv

\* The provider is given up: the chain goes on, or its error is the answer.
LEMMA FailureKept ==
    ASSUME RouterInv, NEW error \in Errors, Fails(error)
    PROVE  RouterInv'
<1>1. Called(error) /\ GivesUp(error)
  BY DEF Fails
<1>2. /\ at \in 1..Len(chain) /\ chain # <<>> /\ chain' = chain /\ Attempts' = Attempts
      /\ Len(chain) \in Nat /\ DOMAIN chain = 1..Len(chain) /\ answer = "none"
  BY <1>1, AtPosition DEF RouterInv, Called, Attempts, Reached, Serving
<1>3. /\ \/ at < Len(chain) /\ at' = at + 1 /\ answer' = "none"
         \/ at = Len(chain) /\ at' = at /\ answer' = error
      /\ {at, at'} \subseteq Nat /\ 1 <= at' /\ at' <= Len(chain) /\ at' \in {at, at + 1}
      /\ \A i \in DOMAIN chain : /\ i > at' => i > at
                                /\ i < at' => i < at \/ i = at
  BY <1>1, GoesOn DEF Fails, RouterInv, Called
<1>4. error \in Outcomes /\ answer' \in Answers /\ "none" \notin Outcomes /\ error # "response"
  BY <1>3 DEF Outcomes, Errors, Answers
<1>5. /\ Len(tries'[at]) = Len(tries[at]) + 1 /\ Len(tries[at]) \in Nat
      /\ tries'[at] # <<>> /\ tries'[at][Len(tries'[at])] = error
      /\ \A n \in 1..Len(tries[at]) : tries'[at][n] = "retryable"
      /\ tries' \in [DOMAIN chain -> Seq(Outcomes)]
  BY <1>1, <1>4, CalledOnce
<1>6. ASSUME NEW i, i = at
      PROVE  GivenUp(i)' /\ \A n \in DOMAIN tries'[i] : tries'[i][n] # "response"
  <2>1. /\ error = "permanent" => tries'[i][Len(tries'[i])] = "permanent"
        /\ error # "permanent" => Len(tries'[i]) = Attempts
    BY <1>1, <1>5, <1>6 DEF GivesUp
  <2>2. DOMAIN tries'[i] = 1..(Len(tries[i]) + 1)
    BY <1>2, <1>5, <1>6
  <2>3. ASSUME NEW n \in DOMAIN tries'[i]
        PROVE  tries'[i][n] # "response"
    <3>1. n \in 1..Len(tries[at]) \/ n = Len(tries'[at])
      BY <1>5, <1>6, <2>2, <2>3
    <3> QED
      BY <1>4, <1>5, <1>6, <3>1
  <2>4. GivenUp(i)'
    BY <1>2, <1>5, <1>6, <2>1 DEF GivenUp
  <2> QED
    BY <2>3, <2>4
<1>7. /\ RouterTypes' /\ UnusableUncalled'
      /\ \A i \in DOMAIN chain :
            /\ Len(tries'[i]) <= Attempts
            /\ \A n \in 1..(Len(tries'[i]) - 1) : tries'[i][n] = "retryable"
            /\ i > at' => tries'[i] = <<>>
            /\ i < at => GivenUp(i)' /\ \A n \in DOMAIN tries'[i] : tries'[i][n] # "response"
  BY <1>1, <1>2, <1>3, <1>4, CallKeeps
<1>8. AttemptsLeft'
  <2>1. CASE at < Len(chain) /\ at' = at + 1 /\ answer' = "none"
    <3>1. at' \in DOMAIN chain /\ at' > at /\ at' # at
      <4>1. at \in Nat
        BY <1>1, AtPosition DEF RouterInv, RouterTypes
      <4>2. at' > at /\ at' # at
        BY <2>1, <4>1
      <4>3. at' \in DOMAIN chain
        BY <1>1, GoesOn DEF Fails, RouterInv, Called
      <4> QED
        BY <4>2, <4>3
    <3>2. tries'[at'] = tries[at']
      BY <1>1, <1>4, <3>1, CalledOnce
    <3>3. tries[at'] = <<>>
      BY <3>1 DEF RouterInv, FallbackInOrder
    <3>4. Len(tries'[at']) = 0
      BY <3>2, <3>3
    <3> QED
      BY <1>2, <3>4, AttemptsPositive DEF AttemptsLeft, RouterInv, RouterTypes
  <2>2. CASE answer' = error
    BY <1>4, <2>2 DEF AttemptsLeft, Serving, Errors
  <2> QED
    BY <1>3, <2>1, <2>2
<1>9. FallbackInOrder'
  <2>1. ASSUME NEW i \in DOMAIN chain
        PROVE  i < at' => GivenUp(i)' /\ \A n \in DOMAIN tries'[i] : tries'[i][n] # "response"
    <3>1. i < at' => i < at \/ i = at
      BY <1>3
    <3> QED
      BY <1>6, <1>7, <3>1
  <2>2. answer' # "none" => at' = at /\ answer' = error
    BY <1>3
  <2>3. at' = at => GivenUp(at)'
    <3>1. PICK i : i = at
      OBVIOUS
    <3>2. GivenUp(i)'
      BY <1>6, <3>1
    <3> QED
      BY <3>1, <3>2 DEF GivenUp
  <2> QED
    BY <1>2, <1>4, <1>5, <1>7, <2>1, <2>2, <2>3 DEF FallbackInOrder
<1> QED
  BY <1>7, <1>8, <1>9 DEF RouterInv

\* An unusable provider is passed over without a call.
LEMMA NotFoundKept ==
    ASSUME RouterInv, NotFound
    PROVE  RouterInv'
<1>1. at \in 1..Len(chain) /\ chain # <<>> /\ DOMAIN chain = 1..Len(chain) /\ Len(chain) \in Nat
  BY AtPosition DEF NotFound, RouterInv
<1>2. tries[at] = <<>> /\ ~Usable(chain[at])
  BY <1>1 DEF NotFound, UnusableUncalled, RouterInv
<1>3. GivenUp(at) /\ \A n \in DOMAIN tries[at] : tries[at][n] # "response"
  BY <1>2 DEF GivenUp
<1>4. /\ request' = request /\ chain' = chain /\ retries' = retries /\ tries' = tries
      /\ answer = "none"
  BY DEF NotFound, Reached, Serving
<1>5. /\ \/ at < Len(chain) /\ at' = at + 1 /\ answer' = "none"
         \/ at = Len(chain) /\ at' = at /\ answer' = "notFound"
      /\ {at, at'} \subseteq Nat /\ 1 <= at' /\ at' <= Len(chain)
  BY GoesOn DEF NotFound, RouterInv
<1>6. RouterTypes' /\ UnusableUncalled'
  <2>1. at' \in Nat /\ 1 <= at' /\ at' <= Len(chain)
    BY <1>1, <1>5
  <2>2. answer' \in Answers
    BY <1>5 DEF Answers
  <2> QED
    BY <1>4, <2>1, <2>2 DEF RouterInv, RouterTypes, UnusableUncalled, Usable
<1>7. AttemptsLeft'
  <2>1. CASE at < Len(chain) /\ at' = at + 1 /\ answer' = "none"
    <3>1. tries[at + 1] = <<>> /\ Len(tries[at + 1]) = 0
      BY <1>1, <2>1 DEF RouterInv, FallbackInOrder
    <3> QED
      BY <1>4, <2>1, <3>1, AttemptsPositive DEF RouterInv, AttemptsLeft, RouterTypes, Attempts
  <2>2. CASE answer' = "notFound"
    BY <2>2 DEF AttemptsLeft, Serving
  <2> QED
    BY <1>5, <2>1, <2>2
<1>8. \A i \in DOMAIN chain : /\ i > at' => i > at
                             /\ i < at' => i < at \/ i = at
  BY GoesOn DEF NotFound, RouterInv
<1>9. FallbackInOrder'
  <2>1. ASSUME NEW i \in DOMAIN chain
        PROVE  /\ Len(tries[i]) <= Attempts
               /\ \A n \in 1..(Len(tries[i]) - 1) : tries[i][n] = "retryable"
               /\ i > at' => tries[i] = <<>>
               /\ i < at' => GivenUp(i) /\ \A n \in DOMAIN tries[i] : tries[i][n] # "response"
    <3>1. i > at' => i > at
      BY <1>5, <1>8
    <3>2. i < at' => i < at \/ i = at
      BY <1>5, <1>8
    <3>3. /\ Len(tries[i]) <= Attempts
          /\ \A n \in 1..(Len(tries[i]) - 1) : tries[i][n] = "retryable"
          /\ i > at => tries[i] = <<>>
          /\ i < at => GivenUp(i) /\ \A n \in DOMAIN tries[i] : tries[i][n] # "response"
      BY DEF RouterInv, FallbackInOrder
    <3> QED
      BY <1>3, <3>1, <3>2, <3>3, Zenon
  <2>2. \A i : GivenUp(i)' <=> GivenUp(i)
    BY <1>4 DEF GivenUp, Usable, Attempts
  <2>3. answer' \notin Outcomes
    BY <1>5 DEF Outcomes, Errors
  <2>4. answer' # "none" => GivenUp(at)
    BY <1>3, <1>5
  <2> QED
    BY <1>4, <1>5, <2>1, <2>2, <2>3, <2>4 DEF FallbackInOrder, Attempts
<1> QED
  BY <1>6, <1>7, <1>9 DEF RouterInv

\* Every action keeps the router's state in its types and its promise.
LEMMA RouterStep == RouterInv /\ [RouterNext]_routerVars => RouterInv'
<1> SUFFICES ASSUME RouterInv, [RouterNext]_routerVars
             PROVE  RouterInv'
  OBVIOUS
<1>1. CASE NoProvider
  BY <1>1 DEF NoProvider, Serving, RouterInv, RouterTypes, AttemptsLeft, UnusableUncalled, FallbackInOrder, GivenUp, Usable,
              Attempts, Answers, Outcomes, Errors
<1>2. CASE NotFound
  BY <1>2, NotFoundKept
<1>3. CASE Responds
  <2>1. Called("response") /\ answer' = "response" /\ at' = at
    BY <1>3 DEF Responds
  <2> QED
    BY <2>1, ResponseKept
<1>4. ASSUME NEW error \in Errors, RetriesLater(error)
      PROVE  RouterInv'
  BY <1>4, RetryKept
<1>5. ASSUME NEW error \in Errors, Fails(error)
      PROVE  RouterInv'
  BY <1>5, FailureKept
<1>6. CASE UNCHANGED routerVars
  BY <1>6 DEF routerVars, Serving, RouterInv, RouterTypes, AttemptsLeft, UnusableUncalled, FallbackInOrder, GivenUp, Usable, Attempts
<1> QED
  BY <1>1, <1>2, <1>3, <1>4, <1>5, <1>6 DEF RouterNext

\* route_chat_with_fallback and route_embedding: for every chain, registry and
\* retry policy, providers are tried in order, within their attempts, and
\* passed over for a reason only.
THEOREM FallbackIsOrdered == RouterSpec => []FallbackInOrder
<1>1. RouterInit => RouterInv
  <2>1. SUFFICES ASSUME RouterInit
                 PROVE  RouterInv
    OBVIOUS
  <2>2. chain \in Seq(DOMAIN Offers) /\ Len(chain) \in Nat /\ (Len(chain) >= 1 \/ chain = <<>>)
    BY <2>1, RouterAssumption DEF RouterInit
  <2>3. \A i \in DOMAIN chain : i \in Nat /\ i >= 1 /\ tries[i] = <<>> /\ Len(tries[i]) = 0
    BY <2>1, <2>2 DEF RouterInit
  <2>4. RouterTypes
    BY <2>1, <2>2 DEF RouterInit, RouterTypes, Answers, Outcomes, Errors
  <2>5. AttemptsLeft /\ UnusableUncalled
    <3>1. chain # <<>> => 1 \in DOMAIN chain
      BY <2>2
    <3> QED
      BY <2>1, <2>3, <2>4, <3>1, AttemptsPositive DEF RouterInit, RouterTypes, AttemptsLeft, UnusableUncalled
  <2>6. FallbackInOrder
    BY <2>1, <2>3, <2>4, AttemptsPositive DEF RouterInit, RouterTypes, FallbackInOrder, Outcomes, Errors
  <2> QED
    BY <2>4, <2>5, <2>6 DEF RouterInv
<1>2. RouterInv => FallbackInOrder
  BY DEF RouterInv
<1> QED
  BY <1>1, <1>2, RouterStep, PTL DEF RouterSpec

-----------------------------------------------------------------------------
(* Sub-engines. *)
EnginesSpec == EnginesInit /\ [][EnginesNext]_engineVars

CreatorSteps == {"idle", "live", "total", "addLive", "addTotal"}
Engines == DOMAIN depth
Children == Engines \ {TheRoot}

\* Threads at one of the steps.
At(c, steps) == {t \in Threads : c[t].at \in steps}
Number(c, steps) == Cardinality(At(c, steps))

\* The engines are numbered, the root alone has depth 0, and who creates one
\* has borrowed an engine that is alive and may have children.
EnginesOK ==
    /\ totalDescendants \in Nat
    /\ Engines = 0..totalDescendants
    /\ depth \in [Engines -> 0..MaxChildDepth]
    /\ \A e \in Engines : depth[e] > 0 <=> e # TheRoot
    /\ dropped \subseteq Engines
    /\ creator \in [Threads -> [at: CreatorSteps, by: Nat]]
    /\ \A t \in Threads : ~AtStep(t, "idle") =>
           creator[t].by \in Alive /\ depth[creator[t].by] < MaxChildDepth

\* From the first load to the last addition.
Race == {"total", "addLive", "addTotal"}

\* Each counter, with those who have passed its test and not yet added to it;
\* the crowd is at least those in the race now.
CountersOK ==
    /\ liveChildren = Cardinality(Children \ dropped) + Number(creator, {"addTotal"})
    /\ liveChildren + Number(creator, {"total", "addLive"}) <= MaxLiveChildren + Overrun
    /\ totalDescendants + Number(creator, {"addLive", "addTotal"})
           <= MaxTotalDescendants + Overrun
    /\ crowd \in Nat
    /\ Number(creator, Race) <= crowd

EnginesInv == EnginesOK /\ CountersOK

\* Threads at given steps can be counted, and are no fewer at more steps.
LEMMA NumberType ==
  ASSUME NEW c, NEW steps
  PROVE  Number(c, steps) \in Nat
PROOF
  <1>1. IsFiniteSet(At(c, steps))
    BY EnginesAssumption, FS_Subset DEF At
  <1> QED
    BY <1>1, FS_CardinalityType DEF Number

LEMMA NumberMonotone ==
  ASSUME NEW c, NEW steps, NEW more, steps \subseteq more
  PROVE  Number(c, steps) <= Number(c, more)
PROOF
  <1>1. IsFiniteSet(At(c, more))
    BY EnginesAssumption, FS_Subset DEF At
  <1>2. At(c, steps) \subseteq At(c, more)
    BY DEF At
  <1> QED
    BY <1>1, <1>2, FS_Subset DEF Number

\* How a thread that goes on changes the number of those at given steps.
LEMMA NumberMoved ==
  ASSUME NEW c, NEW d, NEW t \in Threads, NEW steps,
         \A u \in Threads \ {t} : d[u] = c[u]
  PROVE  Number(d, steps) =
             (Number(c, steps) - (IF c[t].at \in steps THEN 1 ELSE 0))
                 + (IF d[t].at \in steps THEN 1 ELSE 0)
PROOF
  <1> DEFINE rest == {u \in Threads \ {t} : c[u].at \in steps}
  <1>1. \A x \in {c, d} : At(x, steps) = IF x[t].at \in steps THEN rest \cup {t} ELSE rest
    BY DEF At
  <1>2. t \notin rest
    OBVIOUS
  <1>3. IsFiniteSet(rest)
    BY EnginesAssumption, FS_Subset
  <1> HIDE DEF rest
  <1>4. Cardinality(rest) \in Nat /\ Cardinality(rest \cup {t}) = Cardinality(rest) + 1
    BY <1>2, <1>3, FS_CardinalityType, FS_AddElement
  <1>5. Number(c, steps) = IF c[t].at \in steps THEN Cardinality(rest) + 1 ELSE Cardinality(rest)
    BY <1>1, <1>4 DEF Number
  <1>6. Number(d, steps) = IF d[t].at \in steps THEN Cardinality(rest) + 1 ELSE Cardinality(rest)
    BY <1>1, <1>4 DEF Number
  <1> QED
    BY <1>4, <1>5, <1>6

\* The engines that live are finitely many, so that they can be counted.
LEMMA LivingFinite ==
  ASSUME EnginesOK
  PROVE  IsFiniteSet(Children \ dropped) /\ Cardinality(Children \ dropped) \in Nat
PROOF
  <1>1. IsFiniteSet(0..totalDescendants)
    BY FS_Interval DEF EnginesOK
  <1>2. Children \ dropped \subseteq 0..totalDescendants
    BY DEF EnginesOK, Children
  <1>3. IsFiniteSet(Children \ dropped)
    BY <1>1, <1>2, FS_Subset
  <1> QED
    BY <1>3, FS_CardinalityType

\* A thread goes from one step to another, and nobody else moves.
Moved(from, to) ==
    \A steps : Number(creator', steps) =
        (Number(creator, steps) - (IF from \in steps THEN 1 ELSE 0))
            + (IF to \in steps THEN 1 ELSE 0)

\* A thread that goes on or gives up leaves the engines as they are.
LEMMA EnginesStep == EnginesInv /\ [EnginesNext]_engineVars => EnginesInv'
PROOF
  <1> SUFFICES ASSUME EnginesInv, [EnginesNext]_engineVars PROVE EnginesInv'
    OBVIOUS
  <1> USE EnginesAssumption
  <1> USE DEF Overrun, Race
  <1>n. \A c, steps : Number(c, steps) \in Nat
    BY NumberType
  <1>m. \A c : /\ Number(c, {"total", "addLive"}) <= Number(c, Race)
               /\ Number(c, {"addLive", "addTotal"}) <= Number(c, Race)
    BY NumberMonotone
  <1>l. Cardinality(Children \ dropped) \in Nat
    BY LivingFinite DEF EnginesInv
  <1>r. ASSUME NEW t \in Threads, NEW from, NEW to, NEW r, r.at = to,
               AtStep(t, from), creator' = [creator EXCEPT ![t] = r]
        PROVE  Moved(from, to)
    <2>1. /\ creator'[t] = r /\ \A u \in Threads \ {t} : creator'[u] = creator[u]
          /\ creator[t].at = from
      BY <1>r DEF EnginesInv, EnginesOK, AtStep
    <2>2. \A steps : Number(creator', steps) =
              (Number(creator, steps) - (IF creator[t].at \in steps THEN 1 ELSE 0))
                  + (IF creator'[t].at \in steps THEN 1 ELSE 0)
      <3> TAKE steps
      <3> DEFINE c == creator
                 d == creator'
      <3>1. \A u \in Threads \ {t} : d[u] = c[u]
        BY <2>1
      <3> HIDE DEF c, d
      <3>2. Number(d, steps) = (Number(c, steps) - (IF c[t].at \in steps THEN 1 ELSE 0))
                                   + (IF d[t].at \in steps THEN 1 ELSE 0)
        BY <3>1, NumberMoved
      <3> QED
        BY <3>2 DEF c, d
    <2> QED
      BY <1>r, <2>1, <2>2 DEF Moved
  <1>g. ASSUME NEW t \in Threads, NEW step \in CreatorSteps, GoTo(t, step)
        PROVE  /\ creator' = [creator EXCEPT ![t] = [at |-> step, by |-> creator[t].by]]
               /\ [at |-> step, by |-> creator[t].by] \in [at: CreatorSteps, by: Nat]
    <2>1. creator[t] \in [at: CreatorSteps, by: Nat]
      BY DEF EnginesInv, EnginesOK
    <2>2. [creator[t] EXCEPT !.at = step] = [at |-> step, by |-> creator[t].by]
      BY <2>1
    <2> QED
      BY <1>g, <2>1, <2>2 DEF GoTo
  <1>f. NoCreator \in [at: CreatorSteps, by: Nat] /\ NoCreator.at = "idle"
    BY DEF NoCreator, TheRoot, CreatorSteps
  <1>1. ASSUME NEW t \in Threads, NEW e \in DOMAIN depth, CheckDepth(t, e)
        PROVE  EnginesInv'
    <2>1. e \in Nat
      BY DEF EnginesInv, EnginesOK, Engines
    <2>2. Moved("idle", "live")
      BY <1>1, <2>1, <1>r DEF CheckDepth
    <2>3. EnginesOK'
      BY <1>1, <2>1 DEF CheckDepth, EnginesInv, EnginesOK, Engines, AtStep, Alive, CreatorSteps
    <2>4. /\ Number(creator', {"addTotal"}) = Number(creator, {"addTotal"})
          /\ Number(creator', {"total", "addLive"}) = Number(creator, {"total", "addLive"})
          /\ Number(creator', {"addLive", "addTotal"}) = Number(creator, {"addLive", "addTotal"})
          /\ Number(creator', Race) = Number(creator, Race)
      BY <2>2, <1>n DEF Moved
    <2>5. CountersOK'
      BY <1>1, <2>4, <1>n DEF CheckDepth, EnginesInv, CountersOK, Children, Engines
    <2> QED
      BY <2>3, <2>5 DEF EnginesInv
  <1>2. ASSUME NEW t \in Threads, LoadLive(t)
        PROVE  EnginesInv'
    <2>1. CASE liveChildren < MaxLiveChildren
      <3>1. creator' = [creator EXCEPT ![t] = [at |-> "total", by |-> creator[t].by]]
        BY <1>2, <2>1, <1>g DEF LoadLive, Room, CreatorSteps
      <3>2. Moved("live", "total")
        BY <1>2, <3>1, <1>r DEF LoadLive
      <3>3. EnginesOK'
        BY <1>2, <3>1 DEF LoadLive, EnginesInv, EnginesOK, Engines, AtStep, Alive, CreatorSteps
      <3>4. /\ Number(creator', {"addTotal"}) = Number(creator, {"addTotal"})
            /\ Number(creator', {"total", "addLive"}) = Number(creator, {"total", "addLive"}) + 1
            /\ Number(creator', {"addLive", "addTotal"}) = Number(creator, {"addLive", "addTotal"})
        BY <3>2, <1>n DEF Moved
      <3>5. Racing' = Number(creator', Race)
        BY DEF Racing, Number, At
      <3>6. crowd' \in Nat /\ crowd' >= crowd /\ Number(creator', Race) <= crowd'
        BY <1>2, <3>5, <1>n DEF LoadLive, EnginesInv, CountersOK
      <3>9. Number(creator', {"total", "addLive"}) <= Number(creator', Race)
        BY <1>m
      <3>7. Number(creator', {"total", "addLive"}) <= crowd'
        BY <3>6, <3>9, <1>n
      <3>10. /\ liveChildren' = liveChildren /\ totalDescendants' = totalDescendants
             /\ (Children \ dropped)' = Children \ dropped
             /\ liveChildren \in Int /\ totalDescendants \in Nat /\ crowd \in Nat
        BY <1>2, <1>n, <1>l DEF LoadLive, EnginesInv, EnginesOK, CountersOK, Children, Engines
      <3>16. Number(creator, {"total", "addLive"}) \in Nat
        BY <1>n
      <3>14. Number(creator', {"total", "addLive"}) \in Nat \ {0}
        BY <3>4, <3>16
      <3>17. crowd' # 0
        BY <3>6, <3>7, <3>14
      <3>15. Overrun' = crowd' - 1
        BY <3>17
      <3>11. liveChildren' + Number(creator', {"total", "addLive"}) <= MaxLiveChildren + Overrun'
        BY <2>1, <3>6, <3>7, <3>10, <3>14, <3>15
      <3>20. crowd \in Nat /\ crowd' \in Nat /\ crowd' >= crowd
        BY <3>6, <3>10
      <3>18. crowd' - 1 \in Nat /\ crowd' - 1 >= crowd - 1
        <4>1. \A m, n \in Nat : m # 0 /\ m >= n => m - 1 \in Nat /\ m - 1 >= n - 1
          OBVIOUS
        <4> QED
          BY <3>17, <3>20, <4>1
      <3>19. Overrun \in {0, crowd - 1} /\ Overrun \in Nat
        BY <3>10
      <3> HIDE DEF Overrun
      <3>12. Overrun' >= Overrun /\ Overrun \in Nat /\ Overrun' \in Nat
        BY <3>10, <3>15, <3>18, <3>19
      <3>13. totalDescendants' + Number(creator', {"addLive", "addTotal"})
                 <= MaxTotalDescendants + Overrun'
        BY <3>4, <3>10, <3>12, <1>n DEF EnginesInv, CountersOK
      <3>8. CountersOK'
        BY <3>4, <3>6, <3>10, <3>11, <3>13 DEF EnginesInv, CountersOK
      <3> QED
        BY <3>3, <3>8 DEF EnginesInv
    <2>2. CASE ~ (liveChildren < MaxLiveChildren)
      <3>1. creator' = [creator EXCEPT ![t] = NoCreator]
        BY <1>2, <2>2 DEF LoadLive, Room, Refused
      <3>2. Moved("live", "idle")
        BY <1>2, <3>1, <1>r, <1>f DEF LoadLive
      <3>3. EnginesOK'
        BY <1>2, <3>1, <1>f DEF LoadLive, EnginesInv, EnginesOK, Engines, AtStep, Alive
      <3>4. /\ Number(creator', {"addTotal"}) = Number(creator, {"addTotal"})
            /\ Number(creator', {"total", "addLive"}) = Number(creator, {"total", "addLive"})
            /\ Number(creator', {"addLive", "addTotal"}) = Number(creator, {"addLive", "addTotal"})
            /\ Number(creator', Race) = Number(creator, Race)
        BY <3>2, <1>n DEF Moved
      <3>5. Racing' = Number(creator', Race)
        BY DEF Racing, Number, At
      <3>6. crowd' = crowd
        BY <1>2, <3>4, <3>5, <1>n DEF LoadLive, EnginesInv, CountersOK
      <3>7. CountersOK'
        BY <1>2, <3>4, <3>6, <1>n, <1>l DEF LoadLive, EnginesInv, CountersOK, Children, Engines
      <3> QED
        BY <3>3, <3>7 DEF EnginesInv
    <2> QED
      BY <2>1, <2>2
  <1>3. ASSUME NEW t \in Threads, LoadTotal(t)
        PROVE  EnginesInv'
    <2>1. CASE totalDescendants < MaxTotalDescendants
      <3>1. creator' = [creator EXCEPT ![t] = [at |-> "addLive", by |-> creator[t].by]]
        BY <1>3, <2>1, <1>g DEF LoadTotal, Room, CreatorSteps
      <3>2. Moved("total", "addLive")
        BY <1>3, <3>1, <1>r DEF LoadTotal
      <3>3. EnginesOK'
        BY <1>3, <3>1 DEF LoadTotal, EnginesInv, EnginesOK, Engines, AtStep, Alive, CreatorSteps
      <3>4. /\ Number(creator', {"addTotal"}) = Number(creator, {"addTotal"})
            /\ Number(creator', {"total", "addLive"}) = Number(creator, {"total", "addLive"})
            /\ Number(creator', {"addLive", "addTotal"}) = Number(creator, {"addLive", "addTotal"}) + 1
            /\ Number(creator', Race) = Number(creator, Race)
        BY <3>2, <1>n DEF Moved
      <3>5. (Children \ dropped)' = Children \ dropped
        BY <1>3 DEF LoadTotal, Children, Engines
      <3>6. crowd' = crowd /\ Number(creator', {"addLive", "addTotal"}) <= crowd
        BY <1>3, <1>m, <1>n, <3>4 DEF LoadTotal, EnginesInv, CountersOK
      <3>8. crowd \in Nat /\ Number(creator', {"addLive", "addTotal"}) \in Nat
        BY <1>n DEF EnginesInv, CountersOK
      <3>9. totalDescendants + Number(creator', {"addLive", "addTotal"})
                <= MaxTotalDescendants + Overrun
        BY <2>1, <3>4, <3>6, <3>8, <1>n DEF EnginesInv, EnginesOK
      <3>7. CountersOK'
        BY <1>3, <3>4, <3>5, <3>6, <3>9 DEF LoadTotal, EnginesInv, CountersOK
      <3> QED
        BY <3>3, <3>7 DEF EnginesInv
    <2>2. CASE ~ (totalDescendants < MaxTotalDescendants)
      <3>1. creator' = [creator EXCEPT ![t] = NoCreator]
        BY <1>3, <2>2 DEF LoadTotal, Room, Refused
      <3>2. Moved("total", "idle")
        BY <1>3, <3>1, <1>r, <1>f DEF LoadTotal
      <3>3. EnginesOK'
        BY <1>3, <3>1, <1>f DEF LoadTotal, EnginesInv, EnginesOK, Engines, AtStep, Alive
      <3>4. CountersOK'
        BY <1>3, <3>2, <1>n, <1>l DEF LoadTotal, EnginesInv, CountersOK, Moved, Children, Engines
      <3> QED
        BY <3>3, <3>4 DEF EnginesInv
    <2> QED
      BY <2>1, <2>2
  <1>4. ASSUME NEW t \in Threads, AddLive(t)
        PROVE  EnginesInv'
    <2>1. creator' = [creator EXCEPT ![t] = [at |-> "addTotal", by |-> creator[t].by]]
      BY <1>4, <1>g DEF AddLive, CreatorSteps
    <2>2. Moved("addLive", "addTotal")
      BY <1>4, <2>1, <1>r DEF AddLive
    <2>3. EnginesOK'
      BY <1>4, <2>1 DEF AddLive, EnginesInv, EnginesOK, Engines, AtStep, Alive, CreatorSteps
    <2>4. CountersOK'
      BY <1>4, <2>2, <1>n, <1>l DEF AddLive, EnginesInv, CountersOK, Moved, Children, Engines
    <2> QED
      BY <2>3, <2>4 DEF EnginesInv
  <1>5. ASSUME NEW t \in Threads, AddTotal(t)
        PROVE  EnginesInv'
    <2> DEFINE e == totalDescendants + 1
    <2>1. totalDescendants \in Nat /\ DOMAIN depth = 0..totalDescendants
      BY DEF EnginesInv, EnginesOK, Engines
    <2>2. Cardinality(DOMAIN depth) = e
      BY <2>1, FS_Interval
    <2>3. depth' = [x \in 0..e |-> IF x = e THEN depth[creator[t].by] + 1 ELSE depth[x]]
      BY <1>5, <2>2 DEF AddTotal
    <2>4. creator' = [creator EXCEPT ![t] = NoCreator]
      BY <1>5 DEF AddTotal, Refused
    <2>5. Moved("addTotal", "idle")
      BY <1>5, <2>4, <1>r, <1>f DEF AddTotal
    <2>6. totalDescendants' = e /\ dropped' = dropped /\ liveChildren' = liveChildren
      BY <1>5 DEF AddTotal
    <2>7. depth[creator[t].by] \in 0..(MaxChildDepth - 1) /\ creator[t].by \in Engines
      BY <1>5 DEF AddTotal, EnginesInv, EnginesOK, AtStep, Alive, Engines
    <2>8. EnginesOK'
      <3>1. Engines' = 0..e /\ e \in Nat
        BY <2>1, <2>3 DEF Engines
      <3>2. depth' \in [0..e -> 0..MaxChildDepth]
        BY <2>1, <2>3, <2>7 DEF EnginesInv, EnginesOK, Engines
      <3>3. \A x \in 0..e : depth'[x] > 0 <=> x # TheRoot
        BY <2>1, <2>3, <2>7 DEF EnginesInv, EnginesOK, Engines, TheRoot
      <3>4. \A x \in DOMAIN depth : x \in 0..e /\ depth'[x] = depth[x]
        BY <2>1, <2>3
      <3>5. creator' \in [Threads -> [at: CreatorSteps, by: Nat]]
        BY <2>4, <1>f DEF EnginesInv, EnginesOK
      <3>6. \A u \in Threads : creator'[u].at # "idle" =>
                creator'[u].by \in DOMAIN depth' \ dropped' /\ depth'[creator'[u].by] < MaxChildDepth
        BY <2>4, <2>6, <3>1, <3>4, <1>f DEF EnginesInv, EnginesOK, AtStep, Alive, Engines
      <3> QED
        BY <2>1, <2>6, <3>1, <3>2, <3>3, <3>5, <3>6 DEF EnginesInv, EnginesOK, AtStep, Alive, Engines
    <2>9. (Children \ dropped)' = (Children \ dropped) \cup {e} /\ e \notin Children \ dropped
      BY <2>1, <2>3, <2>6 DEF Children, Engines, EnginesInv, EnginesOK, TheRoot
    <2>10. Cardinality((Children \ dropped)') = Cardinality(Children \ dropped) + 1
      BY <2>9, LivingFinite, FS_AddElement DEF EnginesInv
    <2>11. /\ Number(creator', {"addTotal"}) = Number(creator, {"addTotal"}) - 1
           /\ Number(creator', {"total", "addLive"}) = Number(creator, {"total", "addLive"})
           /\ Number(creator', {"addLive", "addTotal"}) = Number(creator, {"addLive", "addTotal"}) - 1
           /\ Number(creator', Race) = Number(creator, Race) - 1
      BY <2>5, <1>n DEF Moved
    <2>13. /\ Number(creator, {"addTotal"}) \in Nat /\ Number(creator, Race) \in Nat
           /\ Number(creator, {"addLive", "addTotal"}) \in Nat
           /\ crowd \in Nat /\ crowd' = crowd
      BY <1>5, <1>n DEF AddTotal, EnginesInv, CountersOK
    <2>14. liveChildren' = Cardinality((Children \ dropped)') + Number(creator', {"addTotal"})
      BY <2>6, <2>10, <2>11, <2>13, <1>l DEF EnginesInv, CountersOK
    <2>15. totalDescendants' + Number(creator', {"addLive", "addTotal"})
               <= MaxTotalDescendants + Overrun'
      BY <2>1, <2>6, <2>11, <2>13 DEF EnginesInv, CountersOK
    <2>12. CountersOK'
      BY <2>6, <2>11, <2>13, <2>14, <2>15 DEF EnginesInv, CountersOK
    <2> QED
      BY <2>8, <2>12 DEF EnginesInv
  <1>6. ASSUME NEW e \in DOMAIN depth, DropEngine(e)
        PROVE  EnginesInv'
    <2>1. EnginesOK'
      BY <1>6 DEF DropEngine, EnginesInv, EnginesOK, Engines, AtStep, Alive
    <2>2. CASE e = TheRoot
      <3>1. (Children \ dropped)' = Children \ dropped /\ ~ (depth[e] > 0)
        BY <1>6, <2>2 DEF DropEngine, Children, Engines, EnginesInv, EnginesOK
      <3> QED
        BY <1>6, <2>1, <3>1 DEF DropEngine, EnginesInv, CountersOK
    <2>3. CASE e # TheRoot
      <3>1. /\ (Children \ dropped)' = (Children \ dropped) \ {e} /\ depth[e] > 0
            /\ e \in Children \ dropped
        BY <1>6, <2>3 DEF DropEngine, Children, Engines, EnginesInv, EnginesOK, Alive
      <3>2. Cardinality((Children \ dropped)') = Cardinality(Children \ dropped) - 1
        BY <3>1, LivingFinite, FS_RemoveElement DEF EnginesInv
      <3>3. liveChildren' = liveChildren - 1
        BY <1>6, <3>1 DEF DropEngine
      <3> QED
        BY <1>6, <2>1, <3>2, <3>3, <1>n, <1>l DEF DropEngine, EnginesInv, CountersOK, Moved
    <2> QED
      BY <2>2, <2>3
  <1>7. CASE UNCHANGED engineVars
    BY <1>7 DEF engineVars, EnginesInv, EnginesOK, CountersOK, Engines, Children, Alive, AtStep
  <1> QED
    BY <1>1, <1>2, <1>3, <1>4, <1>5, <1>6, <1>7 DEF EnginesNext

\* SubagentBounds, for any number of threads and any bounds: the depth is never
\* exceeded, the two counters by no more creations than raced one another, hence
\* not at all when they never do, and the live counter is that of the
\* sub-engines alive.
THEOREM FanOutIsBounded == EnginesSpec => []FanOutBounded
PROOF
  <1>1. EnginesInit => EnginesInv
    <2> SUFFICES ASSUME EnginesInit PROVE EnginesInv
      OBVIOUS
    <2>1. /\ Engines = {0} /\ 0..0 = {0} /\ Children = {} /\ dropped = {}
          /\ totalDescendants = 0 /\ liveChildren = 0
          /\ depth \in [Engines -> 0..MaxChildDepth] /\ depth[0] = 0
      BY EnginesAssumption DEF EnginesInit, Engines, Children, TheRoot
    <2>2. \A steps : "idle" \notin steps => Number(creator, steps) = 0
      <3> TAKE steps
      <3> HAVE "idle" \notin steps
      <3>1. At(creator, steps) = {}
        BY DEF EnginesInit, At, NoCreator
      <3> QED
        BY <3>1, FS_EmptySet DEF Number
    <2>3. EnginesOK
      BY <2>1 DEF EnginesInit, EnginesOK, AtStep, NoCreator, CreatorSteps, TheRoot
    <2>4. Cardinality(Children \ dropped) = 0
      BY <2>1, FS_EmptySet
    <2>6. CountersOK
      BY <2>1, <2>2, <2>4, EnginesAssumption DEF CountersOK, EnginesInit, Overrun, Race
    <2> QED
      BY <2>3, <2>6 DEF EnginesInv
  <1>2. EnginesInv => FanOutBounded
    <2> SUFFICES ASSUME EnginesInv PROVE FanOutBounded
      OBVIOUS
    <2>1. children = Children
      BY DEF children, EnginesInv, EnginesOK, Engines, Children
    <2>2. {t \in Threads : AtStep(t, "addTotal")} = At(creator, {"addTotal"})
      BY DEF At, AtStep
    <2>3. totalDescendants \in Nat /\ Children = 1..totalDescendants
      BY DEF EnginesInv, EnginesOK, Children, Engines, TheRoot
    <2>4. Cardinality(Children) = totalDescendants
      BY <2>3, FS_Interval
    <2>5. \A steps : Number(creator, steps) \in Nat
      BY NumberType
    <2>9. Overrun \in Nat
      BY DEF EnginesInv, CountersOK, Overrun
    <2>6. Cardinality(Children \ dropped) \in Nat
      BY LivingFinite DEF EnginesInv
    <2>7. /\ liveChildren = Cardinality(Children \ dropped) + Cardinality(At(creator, {"addTotal"}))
          /\ liveChildren <= MaxLiveChildren + Overrun
          /\ Cardinality(Children) <= MaxTotalDescendants + Overrun
      BY <2>3, <2>4, <2>5, <2>6, <2>9, EnginesAssumption DEF EnginesInv, CountersOK, Number
    <2>8. \A e \in DOMAIN depth : depth[e] <= MaxChildDepth
      BY EnginesAssumption DEF EnginesInv, EnginesOK, Engines
    <2> QED
      BY <2>1, <2>2, <2>7, <2>8 DEF FanOutBounded
  <1> QED
    BY <1>1, <1>2, EnginesStep, PTL DEF EnginesSpec

-----------------------------------------------------------------------------
(* Extension points. *)
PointSpec == PointInit /\ [][PointNext]_pointVars

PointTypes ==
    /\ entries \in [Names -> Values \cup {NoValue}]
    /\ refs \in [Holders -> SUBSET Values]
    /\ leaving \in [Holders -> Names \cup {NoValue}]
    /\ lately \in [Holders -> SUBSET Values]

PointInv == PointTypes /\ RemovedWhileUnused

Slots(e, v) == {n \in Names : e[n] = v}
Referring(r, v) == {h \in Holders : v \in r[h]}
Counted(e, r, v) == Cardinality(Slots(e, v)) + Cardinality(Referring(r, v))

\* An instance has no more references than before if none was added, or if a
\* slot gave its own to a holder.
LEMMA CountKept ==
  ASSUME NEW e, NEW r, NEW e1, NEW r1, NEW v,
         \/ Slots(e1, v) \subseteq Slots(e, v) /\ Referring(r1, v) \subseteq Referring(r, v)
         \/ \E n \in Slots(e, v), h \in Holders :
                /\ Slots(e1, v) \subseteq Slots(e, v) \ {n}
                /\ Referring(r1, v) \subseteq Referring(r, v) \cup {h}
  PROVE  Counted(e, r, v) \in Nat /\ Counted(e1, r1, v) \in Nat
         /\ Counted(e1, r1, v) <= Counted(e, r, v)
PROOF
  <1> DEFINE S == Slots(e, v)
             R == Referring(r, v)
             S1 == Slots(e1, v)
             R1 == Referring(r1, v)
  <1>1. IsFiniteSet(S) /\ IsFiniteSet(R) /\ IsFiniteSet(S1) /\ IsFiniteSet(R1)
    BY ExtensionPointAssumption, FS_Subset DEF Slots, Referring
  <1>2. \/ S1 \subseteq S /\ R1 \subseteq R
        \/ \E n \in S, h \in Holders : S1 \subseteq S \ {n} /\ R1 \subseteq R \cup {h}
    OBVIOUS
  <1>3. Counted(e, r, v) = Cardinality(S) + Cardinality(R)
        /\ Counted(e1, r1, v) = Cardinality(S1) + Cardinality(R1)
    BY DEF Counted
  <1> HIDE DEF S, R, S1, R1
  <1>4. /\ Cardinality(S) \in Nat /\ Cardinality(R) \in Nat
        /\ Cardinality(S1) \in Nat /\ Cardinality(R1) \in Nat
    BY <1>1, FS_CardinalityType
  <1>5. CASE S1 \subseteq S /\ R1 \subseteq R
    <2>1. Cardinality(S1) <= Cardinality(S) /\ Cardinality(R1) <= Cardinality(R)
      BY <1>1, <1>5, FS_Subset
    <2> QED
      BY <1>3, <1>4, <2>1
  <1>6. CASE \E n \in S, h \in Holders : S1 \subseteq S \ {n} /\ R1 \subseteq R \cup {h}
    <2>1. PICK n \in S, h \in Holders : S1 \subseteq S \ {n} /\ R1 \subseteq R \cup {h}
      BY <1>6
    <2>2. IsFiniteSet(S \ {n}) /\ Cardinality(S \ {n}) = Cardinality(S) - 1
      BY <1>1, <2>1, FS_RemoveElement
    <2>3. Cardinality(S1) <= Cardinality(S) - 1
      BY <2>1, <2>2, FS_Subset
    <2>4. IsFiniteSet(R \cup {h}) /\ Cardinality(R \cup {h}) <= Cardinality(R) + 1
      <3>1. IsFiniteSet(R \cup {h}) /\ (h \notin R => Cardinality(R \cup {h}) = Cardinality(R) + 1)
        BY <1>1, FS_AddElement
      <3>2. h \in R => R \cup {h} = R
        OBVIOUS
      <3> QED
        BY <1>4, <3>1, <3>2
    <2>5. Cardinality(R1) <= Cardinality(R \cup {h}) /\ Cardinality(R \cup {h}) \in Nat
      BY <2>1, <2>4, FS_Subset, FS_CardinalityType
    <2> QED
      BY <1>3, <1>4, <2>3, <2>4, <2>5
  <1> QED
    BY <1>2, <1>5, <1>6

\* A step that adds no reference to what an unregister has checked, or notices
\* the instance for it, keeps the property.
LEMMA UnusedKept ==
  ASSUME PointInv, PointTypes',
         \A h \in Holders :
             leaving'[h] # NoValue =>
                 /\ leaving'[h] = leaving[h] /\ lately[h] \subseteq lately'[h]
                 /\ \/ entries'[leaving[h]] \in lately'[h] \cup {NoValue}
                    \/ /\ entries'[leaving[h]] = entries[leaving[h]]
                       /\ Counted(entries', refs', entries[leaving[h]])
                              <= Counted(entries, refs, entries[leaving[h]])
  PROVE  PointInv'
PROOF
  <1> SUFFICES ASSUME NEW h \in Holders, leaving'[h] # NoValue,
                      entries'[leaving'[h]] # NoValue,
                      Counted(entries', refs', entries'[leaving'[h]]) > 1
               PROVE  entries'[leaving'[h]] \in lately'[h]
    BY DEF PointInv, RemovedWhileUnused, Free, Present, StrongCount, Counted, Slots, Referring
  <1>1. \A v : Counted(entries, refs, v) \in Nat /\ Counted(entries', refs', v) \in Nat
    BY CountKept
  <1>2. CASE entries'[leaving[h]] \in lately'[h] \cup {NoValue}
    BY <1>2
  <1>3. CASE /\ entries'[leaving[h]] = entries[leaving[h]]
             /\ Counted(entries', refs', entries[leaving[h]])
                    <= Counted(entries, refs, entries[leaving[h]])
    <2>1. Counted(entries, refs, entries[leaving[h]]) > 1
      BY <1>1, <1>3
    <2>2. entries[leaving[h]] \in lately[h]
      BY <1>3, <2>1 DEF PointInv, RemovedWhileUnused, Free, Present, StrongCount, Counted,
                        Slots, Referring
    <2> QED
      BY <1>3, <2>2
  <1> QED
    BY <1>2, <1>3

\* Every operation of the map keeps it.
LEMMA PointStep == PointInv /\ [PointNext]_pointVars => PointInv'
PROOF
  <1> SUFFICES ASSUME PointInv, [PointNext]_pointVars PROVE PointInv'
    OBVIOUS
  <1> USE ExtensionPointAssumption
  <1>t. PointTypes
    BY DEF PointInv
  <1>1. ASSUME NEW h \in Holders, NEW v \in Values, Construct(h, v)
        PROVE  PointInv'
    <2>1. PointTypes'
      BY <1>t, <1>1 DEF PointTypes, Construct, Acquire
    <2>2. Slots(entries, v) = {}
      <3>1. IsFiniteSet(Slots(entries, v)) /\ IsFiniteSet(Referring(refs, v))
        BY FS_Subset DEF Slots, Referring
      <3>2. /\ Cardinality(Slots(entries, v)) \in Nat
            /\ Cardinality(Referring(refs, v)) \in Nat
        BY <3>1, FS_CardinalityType
      <3>3. Cardinality(Slots(entries, v)) + Cardinality(Referring(refs, v)) = 0
        BY <1>1 DEF Construct, StrongCount, Slots, Referring
      <3>4. Cardinality(Slots(entries, v)) = 0
        BY <3>2, <3>3
      <3> QED
        BY <3>1, <3>4, FS_EmptySet
    <2>3. ASSUME NEW k \in Holders, leaving[k] # NoValue
          PROVE  Counted(entries', refs', entries[leaving[k]])
                     <= Counted(entries, refs, entries[leaving[k]])
      <3>1. entries[leaving[k]] # v
        BY <1>t, <2>2, <2>3 DEF Slots, PointTypes
      <3>2. Slots(entries', entries[leaving[k]]) \subseteq Slots(entries, entries[leaving[k]])
        BY <1>1 DEF Construct
      <3>3. Referring(refs', entries[leaving[k]]) \subseteq Referring(refs, entries[leaving[k]])
        BY <1>t, <1>1, <3>1 DEF Construct, Acquire, Referring, PointTypes
      <3> QED
        BY <3>2, <3>3, CountKept
    <2> QED
      BY <1>1, <2>1, <2>3, UnusedKept DEF Construct
  <1>2. ASSUME NEW h \in Holders, NEW v \in Values, Release(h, v)
        PROVE  PointInv'
    <2>1. PointTypes'
      BY <1>t, <1>2 DEF PointTypes, Release
    <2>2. ASSUME NEW w
          PROVE  Counted(entries', refs', w) <= Counted(entries, refs, w)
      <3>1. Slots(entries', w) \subseteq Slots(entries, w)
        BY <1>2 DEF Release
      <3>2. Referring(refs', w) \subseteq Referring(refs, w)
        BY <1>t, <1>2 DEF Release, Referring, PointTypes
      <3> QED
        BY <3>1, <3>2, CountKept
    <2> QED
      BY <1>2, <2>1, <2>2, UnusedKept DEF Release
  <1>3. ASSUME NEW h \in Holders, NEW n \in Names, NEW v \in Values, Put(h, n, v)
        PROVE  PointInv'
    <2>1. PICK kept \in {{}, {v}} :
              refs' = [refs EXCEPT ![h] = (@ \ {v}) \cup kept \cup ({entries[n]} \ {NoValue})]
      BY <1>3 DEF Put
    <2>2. PointTypes'
      <3>1. entries' \in [Names -> Values \cup {NoValue}] /\ leaving' = leaving
        BY <1>t, <1>3 DEF PointTypes, Put
      <3>2. refs' \in [Holders -> SUBSET Values]
        BY <1>t, <2>1 DEF PointTypes
      <3>3. lately' \in [Holders -> SUBSET Values]
        BY <1>t, <1>3 DEF PointTypes, Put, Notice
      <3> QED
        BY <1>t, <3>1, <3>2, <3>3 DEF PointTypes
    <2>3. ASSUME NEW w \in Values, w # v
          PROVE  Counted(entries', refs', w) <= Counted(entries, refs, w)
      <3>1. CASE entries[n] = w
        <4>1. n \in Slots(entries, w)
          BY <3>1 DEF Slots
        <4>2. Slots(entries', w) \subseteq Slots(entries, w) \ {n}
          BY <1>t, <1>3, <2>3 DEF Put, Slots, PointTypes
        <4>3. Referring(refs', w) \subseteq Referring(refs, w) \cup {h}
          BY <1>t, <2>1 DEF Referring, PointTypes
        <4> QED
          BY <4>1, <4>2, <4>3, CountKept
      <3>2. CASE entries[n] # w
        <4>1. Slots(entries', w) \subseteq Slots(entries, w)
          BY <1>t, <1>3, <2>3 DEF Put, Slots, PointTypes
        <4>2. Referring(refs', w) \subseteq Referring(refs, w)
          BY <1>t, <2>1, <2>3, <3>2 DEF Referring, PointTypes
        <4> QED
          BY <4>1, <4>2, CountKept
      <3> QED
        BY <3>1, <3>2
    <2>4. ASSUME NEW k \in Holders, leaving'[k] # NoValue
          PROVE  /\ leaving'[k] = leaving[k] /\ lately[k] \subseteq lately'[k] /\ v \in lately'[k]
                 /\ \/ entries'[leaving[k]] \in {v, NoValue}
                    \/ /\ entries'[leaving[k]] = entries[leaving[k]]
                       /\ entries[leaving[k]] \in Values \ {v}
      <3>1. leaving'[k] = leaving[k] /\ leaving[k] \in Names
        BY <1>t, <1>3, <2>4 DEF Put, PointTypes
      <3>2. lately'[k] = lately[k] \cup {v}
        BY <1>t, <1>3, <2>4, <3>1 DEF Put, Notice, Free, PointTypes
      <3>3. \/ entries'[leaving[k]] = v
            \/ entries'[leaving[k]] = entries[leaving[k]]
        BY <1>t, <1>3, <3>1 DEF Put, PointTypes
      <3> QED
        BY <1>t, <3>1, <3>2, <3>3 DEF PointTypes
    <2> QED
      BY <2>2, <2>3, <2>4, UnusedKept
  <1>4. ASSUME NEW h \in Holders, NEW n \in Names, Get(h, n)
        PROVE  PointInv'
    <2> DEFINE v == entries[n]
    <2>1. v \in Values
      BY <1>t, <1>4 DEF Get, Present, PointTypes
    <2>2. PointTypes'
      BY <1>t, <1>4, <2>1 DEF PointTypes, Get, Acquire, Notice
    <2>3. ASSUME NEW w \in Values, w # v
          PROVE  Counted(entries', refs', w) <= Counted(entries, refs, w)
      <3>1. Slots(entries', w) \subseteq Slots(entries, w)
        BY <1>4 DEF Get
      <3>2. Referring(refs', w) \subseteq Referring(refs, w)
        BY <1>t, <1>4, <2>3 DEF Get, Acquire, Referring, PointTypes
      <3> QED
        BY <3>1, <3>2, CountKept
    <2>4. ASSUME NEW k \in Holders, leaving'[k] # NoValue
          PROVE  /\ leaving'[k] = leaving[k] /\ lately[k] \subseteq lately'[k] /\ v \in lately'[k]
                 /\ entries'[leaving[k]] = entries[leaving[k]]
                 /\ entries[leaving[k]] \in Values \cup {NoValue}
      BY <1>t, <1>4, <2>4 DEF Get, Notice, Free, PointTypes
    <2> HIDE DEF v
    <2> QED
      BY <2>2, <2>3, <2>4, UnusedKept
  <1>5. ASSUME NEW h \in Holders, NEW n \in Names, CheckUnused(h, n)
        PROVE  PointInv'
    <2>1. PointTypes'
      BY <1>t, <1>5 DEF PointTypes, CheckUnused
    <2>2. \A k \in Holders \ {h} : leaving'[k] = leaving[k] /\ lately'[k] = lately[k]
      BY <1>t, <1>5 DEF PointTypes, CheckUnused
    <2>3. leaving'[h] = n /\ entries' = entries /\ refs' = refs
      BY <1>t, <1>5 DEF PointTypes, CheckUnused
    <2>4. \A v : StrongCount(v)' = StrongCount(v)
      BY <2>3 DEF StrongCount
    <2>5. ~InUse(n)
      BY <1>5 DEF CheckUnused
    <2> QED
      BY <2>1, <2>2, <2>3, <2>4, <2>5
         DEF PointInv, RemovedWhileUnused, InUse, Free, Present
  <1>6. ASSUME NEW h \in Holders, RemoveEntry(h)
        PROVE  PointInv'
    <2> DEFINE n == leaving[h]
               v == entries[n]
    <2>1. n \in Names /\ v \in Values \cup {NoValue}
      BY <1>t, <1>6 DEF RemoveEntry, Free, PointTypes
    <2>2. /\ entries' = [entries EXCEPT ![n] = NoValue]
          /\ refs' = [refs EXCEPT ![h] = @ \cup ({v} \ {NoValue})]
          /\ leaving' = [leaving EXCEPT ![h] = NoValue] /\ lately' = lately
      BY <1>6 DEF RemoveEntry, Acquire
    <2> HIDE DEF n, v
    <2>3. PointTypes'
      BY <1>t, <2>1, <2>2 DEF PointTypes
    <2>4. ASSUME NEW w \in Values
          PROVE  Counted(entries', refs', w) <= Counted(entries, refs, w)
      <3>1. CASE v = w
        <4>1. n \in Slots(entries, w)
          BY <2>1, <3>1 DEF Slots, v
        <4>2. Slots(entries', w) \subseteq Slots(entries, w) \ {n}
          BY <1>t, <2>1, <2>2, <2>4 DEF Slots, PointTypes
        <4>3. Referring(refs', w) \subseteq Referring(refs, w) \cup {h}
          BY <1>t, <2>2 DEF Referring, PointTypes
        <4> QED
          BY <4>1, <4>2, <4>3, CountKept
      <3>2. CASE v # w
        <4>1. Slots(entries', w) \subseteq Slots(entries, w)
          BY <1>t, <2>1, <2>2, <2>4 DEF Slots, PointTypes
        <4>2. Referring(refs', w) \subseteq Referring(refs, w)
          BY <1>t, <2>2, <3>2 DEF Referring, PointTypes
        <4> QED
          BY <4>1, <4>2, CountKept
      <3> QED
        BY <3>1, <3>2
    <2>5. ASSUME NEW k \in Holders, leaving'[k] # NoValue
          PROVE  /\ leaving'[k] = leaving[k] /\ lately[k] \subseteq lately'[k]
                 /\ \/ entries'[leaving[k]] = NoValue
                    \/ /\ entries'[leaving[k]] = entries[leaving[k]]
                       /\ entries[leaving[k]] \in Values
      BY <1>t, <2>1, <2>2, <2>5 DEF PointTypes
    <2> QED
      BY <2>3, <2>4, <2>5, UnusedKept
  <1>7. CASE UNCHANGED pointVars
    BY <1>7 DEF pointVars, PointInv, PointTypes, RemovedWhileUnused, Free, Present, StrongCount
  <1> QED
    BY <1>1, <1>2, <1>3, <1>4, <1>5, <1>6, <1>7 DEF PointNext, Register, Replace

\* What unregister removes was not in use when it looked, unless somebody got
\* hold of the instance in between: for any tasks, names and instances.
THEOREM RemovalIsChecked == PointSpec => []RemovedWhileUnused
PROOF
  <1>1. PointInit => PointInv
    BY DEF PointInit, PointInv, PointTypes, RemovedWhileUnused, Free
  <1>2. PointInv => RemovedWhileUnused
    BY DEF PointInv
  <1> QED
    BY <1>1, <1>2, PointStep, PTL DEF PointSpec

-----------------------------------------------------------------------------
(* Least counterexamples. *)
\* A set of numbers that is not empty has a least element: what stands for an
\* induction below.
LEMMA LeastExists ==
    ASSUME NEW S \in SUBSET Nat, S # {}
    PROVE  \E i \in S : \A j \in S : i <= j
  <1>1. IsWellFoundedOn(OpToRel(<, Nat), Nat)
    BY NatLessThanWellFounded
  <1>2. PICK i \in S : \A j \in S : ~ (<<j, i>> \in OpToRel(<, Nat))
    BY <1>1, WFMin
  <1>3. \A j \in S : ~ (j < i)
    BY <1>2 DEF OpToRel
  <1> QED
    BY <1>3

\* What holds of 0, and of each number up to n behind one it holds of, holds of
\* all of them; the property is the set it defines.
LEMMA Climb ==
    ASSUME NEW n \in Nat, NEW S, 0 \in S, \A i \in 1..n : i - 1 \in S => i \in S
    PROVE  0..n \subseteq S
  <1> DEFINE B == (0..n) \ S
  <1>1. SUFFICES ASSUME B # {} PROVE FALSE
    OBVIOUS
  <1>2. PICK i \in B : \A j \in B : i <= j
    <2>1. B \in SUBSET Nat
      OBVIOUS
    <2> HIDE DEF B
    <2> QED
      BY <1>1, <2>1, LeastExists
  <1>3. i \in 1..n /\ i - 1 \in 0..n /\ ~(i <= i - 1)
    OBVIOUS
  <1>4. i - 1 \in S
    BY <1>2, <1>3
  <1> QED
    BY <1>3, <1>4

\* A step for each number can be repeated.
Iterates(f, n, V, a, step) == f \in [0..n -> V] /\ f[0] = a /\ \A i \in 1..n : f[i] = step[i][f[i - 1]]

LEMMA IteratesExist ==
    ASSUME NEW V, NEW a \in V, NEW n \in Nat, NEW step \in [1..n -> [V -> V]]
    PROVE  \E f : Iterates(f, n, V, a, step)
  <1> DEFINE S == {m \in 0..n : \E f : Iterates(f, m, V, a, step)}
  <1>1. 0 \in S
    <2>1. Iterates([i \in 0..0 |-> a], 0, V, a, step)
      BY DEF Iterates
    <2> QED
      BY <2>1
  <1>2. ASSUME NEW m \in 1..n, m - 1 \in S PROVE m \in S
    <2>1. PICK g : Iterates(g, m - 1, V, a, step)
      BY <1>2
    <2> DEFINE f == [i \in 0..m |-> IF i = m THEN step[m][g[m - 1]] ELSE g[i]]
    <2>2. m \in Nat /\ m \in 1..n /\ m # 0 /\ 0 \in 0..m /\ m \in 0..m
      OBVIOUS
    <2>3. \A i \in 0..m : i = m \/ (i \in 0..(m - 1) /\ i # m)
      BY <2>2
    <2>4. \A i \in 1..m : i \in 0..m /\ i - 1 \in 0..m /\ i - 1 # m /\ (i = m \/ i \in 1..(m - 1))
      BY <2>2
    <2>5. g[m - 1] \in V /\ step[m] \in [V -> V]
      <3>1. m - 1 \in 0..(m - 1)
        BY <2>2
      <3> QED
        BY <2>1, <2>2, <3>1 DEF Iterates
    <2>6. step[m][g[m - 1]] \in V
      BY <2>5
    <2>7. f \in [0..m -> V]
      BY <2>1, <2>3, <2>6 DEF Iterates
    <2>8. f[0] = a
      <3>1. 0 \in 0..(m - 1)
        BY <2>2
      <3> QED
        BY <2>1, <2>2 DEF Iterates
    <2>9. ASSUME NEW i \in 1..m PROVE f[i] = step[i][f[i - 1]]
      <3>1. f[i - 1] = g[i - 1]
        BY <2>4
      <3>2. CASE i = m
        BY <2>2, <3>1, <3>2
      <3>3. CASE i # m
        <4>1. f[i] = g[i] /\ i \in 1..(m - 1)
          BY <2>4, <3>3
        <4>2. g[i] = step[i][g[i - 1]]
          BY <2>1, <4>1 DEF Iterates
        <4> QED
          BY <3>1, <4>1, <4>2
      <3> QED
        BY <3>2, <3>3
    <2> HIDE DEF f
    <2>10. Iterates(f, m, V, a, step)
      BY <2>7, <2>8, <2>9 DEF Iterates
    <2> QED
      BY <2>10
  <1>3. n \in 0..n
    OBVIOUS
  <1> HIDE DEF S
  <1>4. n \in S
    BY <1>1, <1>2, <1>3, Climb
  <1> QED
    BY <1>4 DEF S

-----------------------------------------------------------------------------
(* A streamed model call: for any replies the formats of the providers        *)
(* allow, cut into chunks anywhere.                                           *)
StreamSpec == StreamInit /\ [][StreamNext]_streamVars

\* The positions of a set up to each number, in order.
Listed(n, S) ==
    LET list[i \in 0..n] == IF i = 0 THEN <<>> ELSE IF i \in S THEN Append(list[i - 1], i) ELSE list[i - 1]
    IN  list

Listing(f, n, S) ==
    /\ f \in [0..n -> Seq(Nat)] /\ f[0] = <<>>
    /\ \A i \in 1..n : f[i] = IF i \in S THEN Append(f[i - 1], i) ELSE f[i - 1]

\* The recursive definition has a value, which is the one its equation gives.
LEMMA ListedIs ==
    ASSUME NEW n \in Nat, NEW S
    PROVE  Listing(Listed(n, S), n, S)
  <1> DEFINE Next(f) == [i \in 0..n |-> IF i = 0 THEN <<>>
                                        ELSE IF i \in S THEN Append(f[i - 1], i) ELSE f[i - 1]]
             step == [i \in 1..n |-> [v \in Seq(Nat) |-> IF i \in S THEN Append(v, i) ELSE v]]
             w == CHOOSE f : f = Next(f)
  <1>2. Listed(n, S) = w
    BY DEF Listed
  <1>3. \A i \in 0..n : i = 0 \/ (i \in 1..n /\ i # 0)
    OBVIOUS
  <1>4. \A i \in 1..n : i \in 0..n /\ i # 0 /\ i - 1 \in 0..n /\ i \in Nat
    OBVIOUS
  <1>5. \E f : f = Next(f)
    <2>1. \A i \in 1..n : \A v \in Seq(Nat) : Append(v, i) \in Seq(Nat)
      BY <1>4
    <2>2. step \in [1..n -> [Seq(Nat) -> Seq(Nat)]]
      BY <2>1
    <2>3. \A i \in 1..n : \A v \in Seq(Nat) : step[i][v] = IF i \in S THEN Append(v, i) ELSE v
      OBVIOUS
    <2>4. <<>> \in Seq(Nat)
      OBVIOUS
    <2> HIDE DEF step
    <2>5. PICK f : Iterates(f, n, Seq(Nat), <<>>, step)
      BY <2>2, <2>4, IteratesExist
    <2>6. f \in [0..n -> Seq(Nat)] /\ f[0] = <<>> /\ \A i \in 1..n : f[i] = step[i][f[i - 1]]
      BY <2>5 DEF Iterates
    <2>7. \A i \in 1..n : f[i - 1] \in Seq(Nat)
      BY <1>4, <2>6
    <2>8. \A i \in 1..n : f[i] = IF i \in S THEN Append(f[i - 1], i) ELSE f[i - 1]
      BY <2>3, <2>6, <2>7
    <2>9. f = Next(f)
      BY <1>3, <2>6, <2>8
    <2> QED
      BY <2>9
  <1>6. w = Next(w)
    BY <1>5
  <1> HIDE DEF w
  <1>7. 0 \in 0..n /\ DOMAIN w = 0..n
    <2>1. DOMAIN w = 0..n
      BY <1>6
    <2> QED
      BY <2>1
  <1>8. w[0] = <<>> /\ \A i \in 1..n : w[i] = IF i \in S THEN Append(w[i - 1], i) ELSE w[i - 1]
    BY <1>4, <1>6, <1>7
  <1> DEFINE G == {i \in 0..n : w[i] \in Seq(Nat)}
  <1>9. 0 \in G
    BY <1>7, <1>8
  <1>10. ASSUME NEW i \in 1..n, i - 1 \in G PROVE i \in G
    <2>1. w[i - 1] \in Seq(Nat) /\ Append(w[i - 1], i) \in Seq(Nat)
      BY <1>4, <1>10
    <2> QED
      BY <1>4, <1>8, <2>1
  <1> HIDE DEF G
  <1>11. 0..n \subseteq G
    BY <1>9, <1>10, Climb
  <1>12. \A i \in 0..n : w[i] \in Seq(Nat)
    BY <1>11 DEF G
  <1>13. w = [i \in 0..n |-> w[i]]
    BY <1>6
  <1>14. w \in [0..n -> Seq(Nat)]
    BY <1>12, <1>13
  <1> QED
    BY <1>2, <1>8, <1>14 DEF Listing

\* Nothing is listed before the first position of the set.
LEMMA ListedNone ==
    ASSUME NEW n \in Nat, NEW S, NEW k \in 0..n, \A i \in S : ~(i <= k)
    PROVE  Listed(n, S)[k] = <<>>
  <1> DEFINE f == Listed(n, S)
             G == {i \in 0..k : f[i] = <<>>}
  <1>1. f[0] = <<>> /\ \A i \in 1..n : f[i] = IF i \in S THEN Append(f[i - 1], i) ELSE f[i - 1]
    BY ListedIs DEF Listing
  <1> HIDE DEF f
  <1>2. \A i \in 1..k : i \in 1..n /\ i \notin S /\ i \in 0..k
    OBVIOUS
  <1>3. 0 \in G
    BY <1>1
  <1>4. \A i \in 1..k : i - 1 \in G => i \in G
    BY <1>1, <1>2
  <1> HIDE DEF G
  <1>5. k \in Nat /\ k \in 0..k
    OBVIOUS
  <1>6. 0..k \subseteq G
    BY <1>3, <1>4, <1>5, Climb
  <1> QED
    BY <1>5, <1>6 DEF G, f

Before(r, kind, k) == {n \in Blocks(r, kind) : n <= k}
Fragments(r, c) == {n \in Blocks(r, "args") : r[n].id = c}

\* What the first k blocks of a reply say.
SaidText(r, k) == Listed(Len(r), Blocks(r, "text"))[k]
SaidOf(r, k, c) == Listed(Len(r), Fragments(r, c))[k]
SaidCalls(r, k) == [c \in {r[n].id : n \in Before(r, "start", k)} |-> SaidOf(r, k, c)]
SaidFinish(r, k) == IF Before(r, "ToolCalls", k) # {} THEN "ToolCalls" ELSE "Stop"
Message(text, calls, finish) == [text |-> text, calls |-> calls, finish |-> finish]
SaidBy(r, k) == Message(SaidText(r, k), SaidCalls(r, k), SaidFinish(r, k))

\* The formats of the providers, clause by clause.
LEMMA Formats ==
    ASSUME NEW server, NEW r, Proper(server, r)
    PROVE  /\ r \in Seq([kind : BlockKinds, index : Nat, id : STRING])
           /\ Len(r) \in Nat /\ DOMAIN r = 1..Len(r)
           /\ \A n \in DOMAIN r : r[n].kind \in BlockKinds /\ r[n].index \in Nat /\ r[n].id \in STRING
           /\ \A m, n \in Blocks(r, "start") : m # n => r[m].id # r[n].id /\ r[m].index # r[n].index
           /\ \A n \in Blocks(r, "args") :
                \E m \in Blocks(r, "start") : m < n /\ r[m].id = r[n].id /\ r[m].index = r[n].index
           /\ \A n \in Blocks(r, "ToolCalls") \cup Blocks(r, "Stop"), m \in DOMAIN r :
                n < m => r[m].kind \in {"other", "comment"}
           /\ server = "openai" => Blocks(r, "stop") = {}
  <1>1. r \in Seq([kind : BlockKinds, index : Nat, id : STRING])
    BY DEF Proper
  <1>2. Len(r) \in Nat /\ DOMAIN r = 1..Len(r)
    BY <1>1
  <1>3. ASSUME NEW n \in DOMAIN r PROVE r[n].kind \in BlockKinds /\ r[n].index \in Nat /\ r[n].id \in STRING
    <2> DEFINE R == [kind : BlockKinds, index : Nat, id : STRING]
    <2>1. r[n] \in R
      <3> HIDE DEF R
      <3>1. r \in Seq(R)
        BY <1>1 DEF R
      <3> QED
        BY <1>2, <3>1
    <2> QED
      BY <2>1
  <1> QED
    BY <1>1, <1>2, <1>3 DEF Proper

\* A message with one part changed.
LEMMA MessageParts ==
    ASSUME NEW a, NEW b, NEW c
    PROVE  /\ Message(a, b, c).text = a /\ Message(a, b, c).calls = b /\ Message(a, b, c).finish = c
           /\ \A d : [Message(a, b, c) EXCEPT !.text = Append(@, d)] = Message(Append(a, d), b, c)
           /\ \A d : [Message(a, b, c) EXCEPT !.calls = d] = Message(a, d, c)
           /\ \A d : [Message(a, b, c) EXCEPT !.finish = d] = Message(a, b, d)
  BY DEF Message

LEMMA BeforeGrows ==
    ASSUME NEW server, NEW r, Proper(server, r), NEW k \in 1..Len(r), NEW kind
    PROVE  Before(r, kind, k) = Before(r, kind, k - 1) \cup (IF r[k].kind = kind THEN {k} ELSE {})
  <1>1. DOMAIN r = 1..Len(r) /\ Len(r) \in Nat
    BY Formats
  <1>2. \A n \in 1..Len(r) : n <= k <=> (n <= k - 1 \/ n = k)
    BY <1>1
  <1> QED
    BY <1>1, <1>2 DEF Before, Blocks

LEMMA BeforeSteps ==
    ASSUME NEW server, NEW r, Proper(server, r), NEW k \in 1..Len(r)
    PROVE  \A kind : /\ r[k].kind # kind => Before(r, kind, k) = Before(r, kind, k - 1)
                     /\ r[k].kind = kind => Before(r, kind, k) = Before(r, kind, k - 1) \cup {k}
  <1> TAKE kind
  <1>1. Before(r, kind, k) = Before(r, kind, k - 1) \cup (IF r[k].kind = kind THEN {k} ELSE {})
    BY BeforeGrows
  <1> QED
    BY <1>1

LEMMA BeforeAll ==
    ASSUME NEW server, NEW r, Proper(server, r), NEW kind
    PROVE  Before(r, kind, Len(r)) = Blocks(r, kind) /\ Before(r, kind, 0) = {}
  <1>1. DOMAIN r = 1..Len(r) /\ Len(r) \in Nat
    BY Formats
  <1>2. \A n \in 1..Len(r) : n <= Len(r) /\ ~(n <= 0)
    BY <1>1
  <1> QED
    BY <1>1, <1>2 DEF Before, Blocks

LEMMA ListedGrows ==
    ASSUME NEW n \in Nat, NEW S, NEW k \in 1..n
    PROVE  /\ k \in S => Listed(n, S)[k] = Append(Listed(n, S)[k - 1], k)
           /\ k \notin S => Listed(n, S)[k] = Listed(n, S)[k - 1]
           /\ Listed(n, S)[k] \in Seq(Nat) /\ Listed(n, S)[k - 1] \in Seq(Nat)
  <1>1. Listing(Listed(n, S), n, S)
    BY ListedIs
  <1>2. k \in 0..n /\ k - 1 \in 0..n
    OBVIOUS
  <1> QED
    BY <1>1, <1>2 DEF Listing

LEMMA Saying ==
    ASSUME NEW server, NEW r, Proper(server, r), NEW k \in 1..Len(r)
    PROVE  /\ r[k].kind = "text" =>
                SaidBy(r, k) = Message(Append(SaidText(r, k - 1), k), SaidCalls(r, k - 1), SaidFinish(r, k - 1))
           /\ r[k].kind = "start" =>
                SaidBy(r, k) = Message(SaidText(r, k - 1),
                                       [c \in DOMAIN SaidCalls(r, k - 1) \cup {r[k].id} |->
                                           IF c = r[k].id THEN <<>> ELSE SaidCalls(r, k - 1)[c]],
                                       SaidFinish(r, k - 1))
           /\ r[k].kind = "args" =>
                /\ r[k].id \in DOMAIN SaidCalls(r, k - 1)
                /\ SaidBy(r, k) = Message(SaidText(r, k - 1),
                                          [SaidCalls(r, k - 1) EXCEPT ![r[k].id] = Append(@, k)],
                                          SaidFinish(r, k - 1))
           /\ r[k].kind \in {"stop", "other", "comment"} => SaidBy(r, k) = SaidBy(r, k - 1)
           /\ r[k].kind \in {"ToolCalls", "Stop"} =>
                SaidBy(r, k) = Message(SaidText(r, k - 1), SaidCalls(r, k - 1), r[k].kind)
  <1> DEFINE b == r[k]
             S == {r[n].id : n \in Before(r, "start", k - 1)}
             T == {r[n].id : n \in Before(r, "start", k)}
  <1>1. /\ Len(r) \in Nat /\ DOMAIN r = 1..Len(r) /\ k \in DOMAIN r
        /\ \A m, n \in Blocks(r, "start") : m # n => r[m].id # r[n].id /\ r[m].index # r[n].index
        /\ \A n \in Blocks(r, "args") :
             \E m \in Blocks(r, "start") : m < n /\ r[m].id = r[n].id /\ r[m].index = r[n].index
        /\ \A n \in Blocks(r, "ToolCalls") \cup Blocks(r, "Stop"), m \in DOMAIN r :
             n < m => r[m].kind \in {"other", "comment"}
    BY Formats
  <1>2. k \in 1..Len(r) /\ k \in Nat /\ k - 1 \in Nat /\ \A n \in 1..Len(r) : n <= k - 1 <=> n < k
    BY <1>1
  <1>3. SaidText(r, k) = IF b.kind = "text" THEN Append(SaidText(r, k - 1), k) ELSE SaidText(r, k - 1)
    <2>1. k \in Blocks(r, "text") <=> b.kind = "text"
      BY <1>1 DEF Blocks
    <2> DEFINE P == Blocks(r, "text")
    <2>2. /\ k \in P => Listed(Len(r), P)[k] = Append(Listed(Len(r), P)[k - 1], k)
          /\ k \notin P => Listed(Len(r), P)[k] = Listed(Len(r), P)[k - 1]
      <3>1. Len(r) \in Nat /\ k \in 1..Len(r)
        BY <1>1
      <3> HIDE DEF P
      <3> QED
        BY <3>1, ListedGrows
    <2> HIDE DEF b
    <2> QED
      BY <2>1, <2>2 DEF SaidText
  <1>4. ASSUME NEW c
        PROVE  SaidOf(r, k, c) = IF b.kind = "args" /\ b.id = c THEN Append(SaidOf(r, k - 1, c), k)
                                 ELSE SaidOf(r, k - 1, c)
    <2>1. k \in Fragments(r, c) <=> b.kind = "args" /\ b.id = c
      BY <1>1 DEF Fragments, Blocks
    <2> DEFINE P == Fragments(r, c)
    <2>2. /\ k \in P => Listed(Len(r), P)[k] = Append(Listed(Len(r), P)[k - 1], k)
          /\ k \notin P => Listed(Len(r), P)[k] = Listed(Len(r), P)[k - 1]
      <3>1. Len(r) \in Nat /\ k \in 1..Len(r)
        BY <1>1
      <3> HIDE DEF P
      <3> QED
        BY <3>1, ListedGrows
    <2> HIDE DEF b
    <2> QED
      BY <2>1, <2>2 DEF SaidOf
  <1>5. T = S \cup (IF b.kind = "start" THEN {b.id} ELSE {})
    <2>1. Before(r, "start", k) = Before(r, "start", k - 1) \cup (IF b.kind = "start" THEN {k} ELSE {})
      BY <1>2, BeforeGrows
    <2> QED
      BY <2>1
  <1>6. b.kind = "start" => b.id \notin S /\ SaidOf(r, k, b.id) = <<>>
    <2> SUFFICES ASSUME b.kind = "start" PROVE b.id \notin S /\ SaidOf(r, k, b.id) = <<>>
      OBVIOUS
    <2>1. k \in Blocks(r, "start")
      BY <1>1 DEF Blocks
    <2>2. ASSUME NEW n \in Before(r, "start", k - 1) PROVE r[n].id # b.id
      <3>1. n \in Blocks(r, "start") /\ n # k
        BY <1>1, <1>2 DEF Before, Blocks
      <3> QED
        BY <1>1, <2>1, <3>1
    <2>3. ASSUME NEW n \in Fragments(r, b.id) PROVE ~(n <= k)
      <3>1. n \in Blocks(r, "args") /\ r[n].id = b.id /\ n \in 1..Len(r)
        BY <1>1 DEF Fragments, Blocks
      <3>2. PICK m \in Blocks(r, "start") : m < n /\ r[m].id = r[n].id
        BY <1>1, <3>1
      <3>3. m = k
        BY <1>1, <2>1, <3>1, <3>2
      <3> QED
        BY <1>2, <3>1, <3>2, <3>3
    <2>4. k \in 0..Len(r)
      BY <1>2
    <2>5. SaidOf(r, k, b.id) = <<>>
      BY <1>1, <2>3, <2>4, ListedNone DEF SaidOf
    <2> QED
      BY <2>2, <2>5
  <1>7. b.kind = "args" => b.id \in S
    <2> SUFFICES ASSUME b.kind = "args" PROVE b.id \in S
      OBVIOUS
    <2>1. k \in Blocks(r, "args")
      BY <1>1 DEF Blocks
    <2>2. PICK m \in Blocks(r, "start") : m < k /\ r[m].id = b.id
      BY <1>1, <2>1
    <2>3. m \in 1..Len(r)
      BY <1>1, <2>2 DEF Blocks
    <2> QED
      BY <1>2, <2>2, <2>3 DEF Before
  <1>8. SaidFinish(r, k) = IF b.kind \in {"ToolCalls", "Stop"} THEN b.kind ELSE SaidFinish(r, k - 1)
    <2>1. Before(r, "ToolCalls", k) = Before(r, "ToolCalls", k - 1) \cup (IF b.kind = "ToolCalls" THEN {k} ELSE {})
      BY <1>2, BeforeGrows
    <2>2. b.kind = "Stop" => Before(r, "ToolCalls", k - 1) = {}
      <3> SUFFICES ASSUME b.kind = "Stop", NEW n \in Before(r, "ToolCalls", k - 1) PROVE FALSE
        OBVIOUS
      <3>1. n \in Blocks(r, "ToolCalls") /\ n < k
        BY <1>1, <1>2 DEF Before, Blocks
      <3> QED
        BY <1>1, <3>1
    <2> QED
      BY <2>1, <2>2 DEF SaidFinish
  <1> DEFINE s == SaidBy(r, k - 1)
             t == SaidBy(r, k)
  <1>9. /\ s = Message(s.text, s.calls, s.finish) /\ t = Message(t.text, t.calls, t.finish)
        /\ s.text = SaidText(r, k - 1) /\ s.calls = SaidCalls(r, k - 1) /\ s.finish = SaidFinish(r, k - 1)
        /\ t.text = SaidText(r, k) /\ t.calls = SaidCalls(r, k) /\ t.finish = SaidFinish(r, k)
    BY DEF SaidBy, Message
  <1>10. /\ s.calls = [c \in S |-> SaidOf(r, k - 1, c)]
         /\ t.calls = [c \in T |-> SaidOf(r, k, c)]
    BY <1>9 DEF SaidCalls
  <1> HIDE DEF s, t, S, T
  <1>11. b.kind = "start" =>
            t.calls = [c \in DOMAIN s.calls \cup {b.id} |-> IF c = b.id THEN <<>> ELSE s.calls[c]]
    BY <1>4, <1>5, <1>6, <1>10
  <1>12. b.kind = "args" => b.id \in DOMAIN s.calls /\ t.calls = [s.calls EXCEPT ![b.id] = Append(@, k)]
    <2> SUFFICES ASSUME b.kind = "args"
                 PROVE  b.id \in DOMAIN s.calls /\ t.calls = [s.calls EXCEPT ![b.id] = Append(@, k)]
      OBVIOUS
    <2>1. T = S /\ b.id \in S /\ DOMAIN s.calls = S
      BY <1>5, <1>7, <1>10
    <2>2. t.calls = [c \in S |-> IF c = b.id THEN Append(s.calls[c], k) ELSE s.calls[c]]
      BY <1>4, <1>10, <2>1
    <2> QED
      BY <1>10, <2>1, <2>2
  <1>13. b.kind \notin {"start", "args"} => t.calls = s.calls
    BY <1>4, <1>5, <1>10
  <1>14. b.kind # "text" => t.text = s.text
    BY <1>3, <1>9
  <1>15. b.kind = "text" => t.text = Append(s.text, k)
    BY <1>3, <1>9
  <1>16. b.kind \notin {"ToolCalls", "Stop"} => t.finish = s.finish
    BY <1>8, <1>9
  <1>17. b.kind \in {"ToolCalls", "Stop"} => t.finish = b.kind
    BY <1>8, <1>9
  <1> HIDE DEF b
  <1>18. b.kind = "text" => t = Message(Append(s.text, k), s.calls, s.finish)
    BY <1>9, <1>13, <1>15, <1>16
  <1>19. b.kind = "start" =>
            t = Message(s.text, [c \in DOMAIN s.calls \cup {b.id} |-> IF c = b.id THEN <<>> ELSE s.calls[c]], s.finish)
    BY <1>9, <1>11, <1>14, <1>16
  <1>20. b.kind = "args" => b.id \in DOMAIN s.calls
                            /\ t = Message(s.text, [s.calls EXCEPT ![b.id] = Append(@, k)], s.finish)
    BY <1>9, <1>12, <1>14, <1>16
  <1>21. b.kind \in {"stop", "other", "comment"} => t = s
    BY <1>9, <1>13, <1>14, <1>16
  <1>22. b.kind \in {"ToolCalls", "Stop"} => t = Message(s.text, s.calls, b.kind)
    BY <1>9, <1>13, <1>14, <1>17
  <1> QED
    BY <1>9, <1>18, <1>19, <1>20, <1>21, <1>22 DEF s, t, b

\* A complete answer is what all its blocks say.
LEMMA IntendedIs ==
    ASSUME NEW server, Proper(server, reply)
    PROVE  Intended = SaidBy(reply, Len(reply))
  <1>1. \A S : InOrder(S) = Listed(Len(reply), S)[Len(reply)]
    BY DEF InOrder, Listed
  <1>2. /\ Before(reply, "start", Len(reply)) = Blocks(reply, "start")
        /\ Before(reply, "ToolCalls", Len(reply)) = Blocks(reply, "ToolCalls")
    BY BeforeAll
  <1> QED
    BY <1>1, <1>2 DEF Intended, SaidBy, SaidText, SaidOf, SaidCalls, SaidFinish, Message, Fragments

\* OpenAI's calls are given up by the adapter once they are complete.
Ended(server, r, k) == server = "openai" /\ Before(r, "ToolCalls", k) # {}
Stopped(r, k) == {n \in Before(r, "start", k) : \E e \in Before(r, "stop", k) : r[e].index = r[n].index}
CallRecord == [index : Nat, id : STRING, args : Seq(Nat)]
CallSaid(r, n, m) == [index |-> r[n].index, id |-> r[n].id, args |-> m.calls[r[n].id]]

\* The calls in progress are those started, each with the fragments of its own;
\* for Anthropic a call's index is its place among them.
ToolsOK(server, r, k, ts, m) ==
    /\ ts \in Seq(CallRecord)
    /\ Ended(server, r, k) => ts = <<>>
    /\ ~Ended(server, r, k) =>
         /\ \A n \in Before(r, "start", k) : \E j \in DOMAIN ts : ts[j] = CallSaid(r, n, m)
         /\ \A j \in DOMAIN ts : \E n \in Before(r, "start", k) : ts[j] = CallSaid(r, n, m)
         /\ \A i, j \in DOMAIN ts : ts[i].index = ts[j].index => i = j
    /\ server # "openai" =>
         /\ Len(ts) = Cardinality(Before(r, "start", k))
         /\ \A j \in DOMAIN ts : ts[j].index = j - 1

\* Subscribers hear of a call when it is stopped, and of OpenAI's at the end.
ToldCalls(server, r, k, m) ==
    IF server = "openai" THEN (IF Ended(server, r, k) THEN CallsOf(m) ELSE {})
    ELSE {[id |-> r[n].id, args |-> m.calls[r[n].id]] : n \in Stopped(r, k)}

AnswerOK(server, r, k, ts, m, t) ==
    /\ m = SaidBy(r, k)
    /\ ToolsOK(server, r, k, ts, m)
    /\ t = [text |-> m.text, calls |-> ToldCalls(server, r, k, m)]

\* What the first k - 1 blocks leave when the next changes nothing of the calls.
LEMMA ToolsStay ==
    ASSUME NEW server, NEW r, NEW k, NEW ts, NEW m, NEW n,
           ToolsOK(server, r, k - 1, ts, m), n.calls = m.calls,
           Before(r, "start", k) = Before(r, "start", k - 1),
           Ended(server, r, k) <=> Ended(server, r, k - 1)
    PROVE  ToolsOK(server, r, k, ts, n)
  BY DEF ToolsOK, CallSaid

LEMMA ToldStays ==
    ASSUME NEW server, NEW r, NEW k, NEW m, NEW n, n.calls = m.calls,
           Before(r, "start", k) = Before(r, "start", k - 1),
           Before(r, "stop", k) = Before(r, "stop", k - 1),
           Ended(server, r, k) <=> Ended(server, r, k - 1)
    PROVE  ToldCalls(server, r, k, n) = ToldCalls(server, r, k - 1, m)
  <1>1. CallsOf(n) = CallsOf(m)
    BY DEF CallsOf
  <1>2. Stopped(r, k) = Stopped(r, k - 1)
    BY DEF Stopped
  <1> QED
    BY <1>1, <1>2 DEF ToldCalls

LEMMA NothingEnded ==
    ASSUME NEW server, NEW r, Proper(server, r), NEW k \in 1..Len(r), r[k].kind \notin {"other", "comment"}
    PROVE  Before(r, "ToolCalls", k - 1) = {} /\ ~Ended(server, r, k - 1)
  <1>1. /\ DOMAIN r = 1..Len(r) /\ Len(r) \in Nat
        /\ \A n \in Blocks(r, "ToolCalls") \cup Blocks(r, "Stop"), i \in DOMAIN r :
             n < i => r[i].kind \in {"other", "comment"}
    BY Formats
  <1>2. ASSUME NEW n \in Before(r, "ToolCalls", k - 1) PROVE FALSE
    <2>1. n \in Blocks(r, "ToolCalls") /\ n \in 1..Len(r) /\ n <= k - 1
      BY <1>1 DEF Before, Blocks
    <2>2. n < k
      BY <1>1, <2>1
    <2> QED
      BY <1>1, <2>1, <2>2
  <1> QED
    BY <1>2 DEF Ended

LEMMA TextKeeps ==
    ASSUME NEW server, NEW r, Proper(server, r), NEW k \in 1..Len(r), NEW ts, NEW m, NEW t,
           AnswerOK(server, r, k - 1, ts, m, t), r[k].kind = "text"
    PROVE  AnswerOK(server, r, k, ts, [m EXCEPT !.text = Append(@, k)], [t EXCEPT !.text = Append(@, k)])
  <1> DEFINE n == [m EXCEPT !.text = Append(@, k)]
             u == [t EXCEPT !.text = Append(@, k)]
  <1>1. /\ Before(r, "start", k) = Before(r, "start", k - 1)
        /\ Before(r, "stop", k) = Before(r, "stop", k - 1)
        /\ Before(r, "ToolCalls", k) = Before(r, "ToolCalls", k - 1)
    BY BeforeSteps
  <1> DEFINE a == SaidText(r, k - 1)
             b == SaidCalls(r, k - 1)
             d == SaidFinish(r, k - 1)
  <1>2. m = Message(a, b, d) /\ m.text = a /\ m.calls = b
    BY MessageParts DEF AnswerOK, SaidBy
  <1> HIDE DEF a, b, d
  <1>3. n = Message(Append(a, k), b, d) /\ n.calls = m.calls /\ n.text = Append(m.text, k)
    BY <1>2, MessageParts
  <1>4. n = SaidBy(r, k)
    <2> HIDE DEF n
    <2> QED
      BY <1>3, Saying DEF a, b, d
  <1>5. Ended(server, r, k) <=> Ended(server, r, k - 1)
    BY <1>1 DEF Ended
  <1> HIDE DEF n
  <1>6. ToolsOK(server, r, k, ts, n)
    BY <1>1, <1>3, <1>5, ToolsStay DEF AnswerOK
  <1>7. ToldCalls(server, r, k, n) = ToldCalls(server, r, k - 1, m)
    BY <1>1, <1>3, <1>5, ToldStays
  <1>8. u = [text |-> Append(m.text, k), calls |-> ToldCalls(server, r, k - 1, m)]
    <2>1. t = [text |-> m.text, calls |-> ToldCalls(server, r, k - 1, m)]
      BY DEF AnswerOK
    <2> DEFINE x == m.text
               y == ToldCalls(server, r, k - 1, m)
    <2> HIDE DEF x, y, n
    <2>2. t = [text |-> x, calls |-> y]
      BY <2>1 DEF x, y
    <2>3. u = [text |-> Append(x, k), calls |-> y]
      BY <2>2
    <2> QED
      BY <2>3 DEF x, y
  <1> QED
    BY <1>3, <1>4, <1>6, <1>7, <1>8 DEF AnswerOK, n

\* The end of an answer, a block that says nothing, and one that is passed over.
LEMMA QuietKeeps ==
    ASSUME NEW server, NEW r, Proper(server, r), NEW k \in 1..Len(r), NEW ts, NEW m, NEW t,
           AnswerOK(server, r, k - 1, ts, m, t), r[k].kind \in {"other", "comment"}
    PROVE  AnswerOK(server, r, k, ts, m, t)
  <1>1. /\ Before(r, "start", k) = Before(r, "start", k - 1)
        /\ Before(r, "stop", k) = Before(r, "stop", k - 1)
        /\ Before(r, "ToolCalls", k) = Before(r, "ToolCalls", k - 1)
    BY BeforeSteps
  <1>2. m = SaidBy(r, k)
    BY Saying DEF AnswerOK
  <1>3. Ended(server, r, k) <=> Ended(server, r, k - 1)
    BY <1>1 DEF Ended
  <1>4. ToolsOK(server, r, k, ts, m)
    BY <1>1, <1>3, ToolsStay DEF AnswerOK
  <1>5. ToldCalls(server, r, k, m) = ToldCalls(server, r, k - 1, m)
    BY <1>1, <1>3, ToldStays
  <1> QED
    BY <1>2, <1>4, <1>5 DEF AnswerOK

LEMMA EndKeeps ==
    ASSUME NEW server, NEW r, Proper(server, r), NEW k \in 1..Len(r), NEW ts, NEW m, NEW t,
           AnswerOK(server, r, k - 1, ts, m, t), r[k].kind \in {"ToolCalls", "Stop"},
           ~(server = "openai" /\ r[k].kind = "ToolCalls")
    PROVE  AnswerOK(server, r, k, ts, [m EXCEPT !.finish = r[k].kind], t)
  <1> DEFINE n == [m EXCEPT !.finish = r[k].kind]
  <1>1. /\ Before(r, "start", k) = Before(r, "start", k - 1)
        /\ Before(r, "stop", k) = Before(r, "stop", k - 1)
        /\ r[k].kind # "ToolCalls" => Before(r, "ToolCalls", k) = Before(r, "ToolCalls", k - 1)
    BY BeforeSteps
  <1> DEFINE a == SaidText(r, k - 1)
             b == SaidCalls(r, k - 1)
             d == SaidFinish(r, k - 1)
  <1>2. m = Message(a, b, d) /\ m.text = a /\ m.calls = b
    BY MessageParts DEF AnswerOK, SaidBy
  <1> HIDE DEF a, b, d
  <1>3. n = Message(a, b, r[k].kind) /\ n.calls = m.calls /\ n.text = m.text
    BY <1>2, MessageParts
  <1>4. n = SaidBy(r, k)
    <2> HIDE DEF n
    <2> QED
      BY <1>3, Saying DEF a, b, d
  <1>5. Ended(server, r, k) <=> Ended(server, r, k - 1)
    BY <1>1 DEF Ended
  <1> HIDE DEF n
  <1>6. ToolsOK(server, r, k, ts, n)
    BY <1>1, <1>3, <1>5, ToolsStay DEF AnswerOK
  <1>7. ToldCalls(server, r, k, n) = ToldCalls(server, r, k - 1, m)
    BY <1>1, <1>3, <1>5, ToldStays
  <1> QED
    BY <1>3, <1>4, <1>6, <1>7 DEF AnswerOK, n

HandedOver(ts) == {[id |-> ts[j].id, args |-> ts[j].args] : j \in DOMAIN ts}

\* With the reason, OpenAI's calls are handed over as they stand.
LEMMA HandOverKeeps ==
    ASSUME NEW server, NEW r, Proper(server, r), NEW k \in 1..Len(r), NEW ts, NEW m, NEW t,
           AnswerOK(server, r, k - 1, ts, m, t), r[k].kind = "ToolCalls", server = "openai"
    PROVE  AnswerOK(server, r, k, <<>>, [m EXCEPT !.finish = r[k].kind],
                    [t EXCEPT !.calls = @ \cup HandedOver(ts)])
  <1> DEFINE n == [m EXCEPT !.finish = r[k].kind]
             given == HandedOver(ts)
  <1>1. /\ Before(r, "start", k) = Before(r, "start", k - 1)
        /\ k \in Before(r, "ToolCalls", k)
    <2>1. \A kind : /\ r[k].kind # kind => Before(r, kind, k) = Before(r, kind, k - 1)
                    /\ r[k].kind = kind => Before(r, kind, k) = Before(r, kind, k - 1) \cup {k}
      BY BeforeSteps
    <2> QED
      BY <2>1
  <1> DEFINE a == SaidText(r, k - 1)
             b == SaidCalls(r, k - 1)
             d == SaidFinish(r, k - 1)
  <1>2. m = Message(a, b, d) /\ m.text = a /\ m.calls = b
    BY MessageParts DEF AnswerOK, SaidBy
  <1> HIDE DEF a, b, d
  <1>3. n = Message(a, b, r[k].kind) /\ n.calls = m.calls /\ n.text = m.text
    BY <1>2, MessageParts
  <1>4. n = SaidBy(r, k)
    <2> HIDE DEF n
    <2> QED
      BY <1>3, Saying DEF a, b, d
  <1>5. Ended(server, r, k) /\ ~Ended(server, r, k - 1)
    BY <1>1, NothingEnded DEF Ended
  <1>6. t = [text |-> m.text, calls |-> {}]
    BY <1>5 DEF AnswerOK, ToldCalls
  <1>7. /\ \A i \in Before(r, "start", k - 1) : \E j \in DOMAIN ts : ts[j] = CallSaid(r, i, m)
        /\ \A j \in DOMAIN ts : \E i \in Before(r, "start", k - 1) : ts[j] = CallSaid(r, i, m)
    BY <1>5 DEF AnswerOK, ToolsOK
  <1>8. DOMAIN m.calls = {r[i].id : i \in Before(r, "start", k - 1)}
    BY <1>2 DEF b, SaidCalls
  <1>9. given = CallsOf(m)
    <2>1. ASSUME NEW j \in DOMAIN ts PROVE [id |-> ts[j].id, args |-> ts[j].args] \in CallsOf(m)
      <3>1. PICK i \in Before(r, "start", k - 1) : ts[j] = CallSaid(r, i, m)
        BY <1>7
      <3>2. ts[j].id = r[i].id /\ ts[j].args = m.calls[r[i].id]
        BY <3>1 DEF CallSaid
      <3> QED
        BY <1>8, <3>2 DEF CallsOf
    <2>2. ASSUME NEW c \in DOMAIN m.calls PROVE [id |-> c, args |-> m.calls[c]] \in given
      <3>1. PICK i \in Before(r, "start", k - 1) : c = r[i].id
        BY <1>8
      <3>2. PICK j \in DOMAIN ts : ts[j] = CallSaid(r, i, m)
        BY <1>7
      <3>3. ts[j].id = c /\ ts[j].args = m.calls[c]
        BY <3>1, <3>2 DEF CallSaid
      <3> QED
        BY <3>3 DEF HandedOver
    <2>3. given \subseteq CallsOf(m)
      BY <2>1 DEF HandedOver
    <2>4. CallsOf(m) \subseteq given
      BY <2>2 DEF CallsOf
    <2> QED
      BY <2>3, <2>4
  <1>10. CallsOf(n) = CallsOf(m)
    BY <1>3 DEF CallsOf
  <1>11. [t EXCEPT !.calls = @ \cup given] = [text |-> n.text, calls |-> ToldCalls(server, r, k, n)]
    <2> HIDE DEF given, n
    <2>1. ToldCalls(server, r, k, n) = given
      BY <1>5, <1>9, <1>10 DEF ToldCalls
    <2>2. [t EXCEPT !.calls = @ \cup given] = [text |-> m.text, calls |-> given]
      BY <1>6
    <2> QED
      BY <1>3, <2>1, <2>2
  <1>12. ToolsOK(server, r, k, <<>>, n)
    <2>1. <<>> \in Seq(CallRecord)
      OBVIOUS
    <2> QED
      BY <1>5, <2>1 DEF ToolsOK
  <1> QED
    BY <1>4, <1>11, <1>12 DEF AnswerOK

LEMMA Numbered ==
    ASSUME NEW server, NEW r, Proper(server, r), server # "openai"
    PROVE  /\ CallsComeFirst(r) =>
                \A n \in Blocks(r, "start") : r[n].index = Cardinality({i \in Blocks(r, "start") : i < n})
           /\ \A e \in Blocks(r, "stop") :
                \/ /\ \E i \in Blocks(r, "start") : i < e /\ r[i].id = r[e].id /\ r[i].index = r[e].index
                   /\ \A a \in Blocks(r, "args") : r[a].id = r[e].id /\ r[a].index = r[e].index => a < e
                \/ \A i \in Blocks(r, "start") : r[i].index # r[e].index
           /\ \A i \in Blocks(r, "start"), f \in Blocks(r, "ToolCalls") :
                \E e \in Blocks(r, "stop") : e < f /\ r[i].id = r[e].id /\ r[i].index = r[e].index
  <1> DEFINE Calls == Blocks(r, "start")
             Same(i, n) == r[i].id = r[n].id /\ r[i].index = r[n].index
  <1>1. /\ CallsComeFirst(r) => \A n \in Calls : r[n].index = Cardinality({i \in Calls : i < n})
        /\ \A n \in Blocks(r, "stop") :
             \/ /\ \E i \in Calls : i < n /\ Same(i, n)
                /\ \A k \in Blocks(r, "args") : Same(k, n) => k < n
             \/ \A i \in Calls : r[i].index # r[n].index
        /\ \A i \in Calls, k \in Blocks(r, "ToolCalls") : \E n \in Blocks(r, "stop") : n < k /\ Same(i, n)
    BY DEF Proper
  <1> QED
    BY <1>1

LEMMA StartsFinite ==
    ASSUME NEW server, NEW r, Proper(server, r), NEW k \in 1..Len(r), r[k].kind = "start"
    PROVE  /\ Before(r, "start", k - 1) = {i \in Blocks(r, "start") : i < k}
           /\ Cardinality(Before(r, "start", k - 1)) \in Nat
           /\ Cardinality(Before(r, "start", k)) = Cardinality(Before(r, "start", k - 1)) + 1
  <1>1. DOMAIN r = 1..Len(r) /\ Len(r) \in Nat
    BY Formats
  <1>2. \A i \in 1..Len(r) : i <= k - 1 <=> i < k
    BY <1>1
  <1>3. Before(r, "start", k - 1) = {i \in Blocks(r, "start") : i < k}
    BY <1>1, <1>2 DEF Before, Blocks
  <1>4. k \notin Before(r, "start", k - 1)
    BY <1>1, <1>3
  <1>5. IsFiniteSet(Before(r, "start", k - 1))
    <2>1. IsFiniteSet(1..Len(r))
      BY <1>1, FS_Interval
    <2>2. Before(r, "start", k - 1) \subseteq 1..Len(r)
      BY <1>1 DEF Before, Blocks
    <2> QED
      BY <2>1, <2>2, FS_Subset
  <1>6. Before(r, "start", k) = Before(r, "start", k - 1) \cup {k}
    BY BeforeSteps
  <1> QED
    BY <1>3, <1>4, <1>5, <1>6, FS_AddElement, FS_CardinalityType

Begun(calls, id) == [c \in DOMAIN calls \cup {id} |-> IF c = id THEN <<>> ELSE calls[c]]

\* A call that is started is in progress, with nothing said of it so far.
LEMMA StartKeeps ==
    ASSUME NEW server, NEW r, Proper(server, r), NEW k \in 1..Len(r), NEW ts, NEW m, NEW t,
           AnswerOK(server, r, k - 1, ts, m, t), r[k].kind = "start",
           server = "openai" \/ CallsComeFirst(r)
    PROVE  AnswerOK(server, r, k, Append(ts, [index |-> r[k].index, id |-> r[k].id, args |-> <<>>]),
                    [m EXCEPT !.calls = Begun(@, r[k].id)], t)
  <1> DEFINE new == [index |-> r[k].index, id |-> r[k].id, args |-> <<>>]
             us == Append(ts, new)
             calls == Begun(m.calls, r[k].id)
             n == [m EXCEPT !.calls = Begun(@, r[k].id)]
             S == Before(r, "start", k - 1)
             T == Before(r, "start", k)
  <1> DEFINE a == SaidText(r, k - 1)
             b == SaidCalls(r, k - 1)
             d == SaidFinish(r, k - 1)
  <1>1. m = Message(a, b, d) /\ m.text = a /\ m.calls = b
    BY MessageParts DEF AnswerOK, SaidBy
  <1>2. n = Message(a, calls, d)
    <2>1. n = [m EXCEPT !.calls = calls]
      OBVIOUS
    <2> HIDE DEF n, calls, a, b, d
    <2> QED
      BY <1>1, <2>1, MessageParts
  <1>3. n = SaidBy(r, k)
    <2> HIDE DEF n, a, b, d
    <2>1. calls = [c \in DOMAIN b \cup {r[k].id} |-> IF c = r[k].id THEN <<>> ELSE b[c]]
      BY <1>1 DEF Begun
    <2> HIDE DEF calls
    <2> QED
      BY <1>2, <2>1, Saying DEF a, b, d
  <1>4. n.text = m.text /\ n.calls = calls
    <2> HIDE DEF n, calls, a, b, d
    <2> QED
      BY <1>1, <1>2, MessageParts
  <1>5. DOMAIN m.calls = {r[i].id : i \in S}
    BY <1>1 DEF SaidCalls
  <1> HIDE DEF a, b, d, n
  <1>6. /\ T = S \cup {k} /\ k \in T
        /\ Before(r, "stop", k) = Before(r, "stop", k - 1)
        /\ Before(r, "ToolCalls", k) = Before(r, "ToolCalls", k - 1)
        /\ ~Ended(server, r, k - 1) /\ ~Ended(server, r, k)
    <2>1. \A kind : /\ r[k].kind # kind => Before(r, kind, k) = Before(r, kind, k - 1)
                    /\ r[k].kind = kind => Before(r, kind, k) = Before(r, kind, k - 1) \cup {k}
      BY BeforeSteps
    <2>2. Before(r, "ToolCalls", k - 1) = {}
      BY NothingEnded
    <2> QED
      BY <2>1, <2>2 DEF Ended
  <1>7. /\ DOMAIN r = 1..Len(r) /\ Len(r) \in Nat /\ k \in Blocks(r, "start")
        /\ r[k].index \in Nat /\ r[k].id \in STRING
        /\ \A i, j \in Blocks(r, "start") : i # j => r[i].id # r[j].id /\ r[i].index # r[j].index
    BY Formats DEF Blocks
  <1>8. ASSUME NEW i \in S PROVE /\ i \in Blocks(r, "start") /\ i < k /\ i # k
                                /\ r[i].id # r[k].id /\ r[i].index # r[k].index
                                /\ r[i].id \in DOMAIN m.calls /\ calls[r[i].id] = m.calls[r[i].id]
                                /\ CallSaid(r, i, n) = CallSaid(r, i, m)
    <2>1. S = {j \in Blocks(r, "start") : j < k}
      BY StartsFinite
    <2>2. i \in Blocks(r, "start") /\ i < k /\ i # k
      <3> HIDE DEF S
      <3>1. i \in Blocks(r, "start") /\ i < k
        BY <2>1
      <3>2. i \in Nat
        BY <1>7, <3>1 DEF Blocks
      <3> QED
        BY <3>1, <3>2
    <2>3. r[i].id # r[k].id /\ r[i].index # r[k].index
      BY <1>7, <2>2
    <2>4. r[i].id \in DOMAIN m.calls
      BY <1>5
    <2>5. calls[r[i].id] = m.calls[r[i].id]
      BY <2>3, <2>4 DEF Begun
    <2> HIDE DEF calls
    <2> QED
      BY <1>4, <2>2, <2>3, <2>4, <2>5 DEF CallSaid
  <1>9. CallSaid(r, k, n) = new
    BY <1>4 DEF CallSaid, Begun
  <1>10. /\ ts \in Seq(CallRecord) /\ new \in CallRecord
         /\ \A i \in S : \E j \in DOMAIN ts : ts[j] = CallSaid(r, i, m)
         /\ \A j \in DOMAIN ts : \E i \in S : ts[j] = CallSaid(r, i, m)
         /\ \A i, j \in DOMAIN ts : ts[i].index = ts[j].index => i = j
         /\ server # "openai" => Len(ts) = Cardinality(S) /\ \A j \in DOMAIN ts : ts[j].index = j - 1
    <2>1. <<>> \in Seq(Nat)
      OBVIOUS
    <2> QED
      BY <1>6, <1>7, <2>1 DEF AnswerOK, ToolsOK, CallRecord
  <1> DEFINE l == Len(ts)
  <1>11. /\ l \in Nat /\ us \in Seq(CallRecord) /\ Len(us) = l + 1 /\ us[l + 1] = new
         /\ DOMAIN us = 1..(l + 1) /\ DOMAIN ts = 1..l
         /\ \A j \in 1..l : us[j] = ts[j]
    <2> HIDE DEF new
    <2> QED
      BY <1>10, AppendProperties
  <1>12. \A j \in 1..(l + 1) : j \in 1..l \/ j = l + 1
    BY <1>11
  <1>13. l + 1 \in 1..(l + 1) /\ \A j \in 1..l : j \in 1..(l + 1)
    BY <1>11
  <1>14. ASSUME NEW j \in 1..l PROVE ts[j].index # r[k].index
    <2>1. PICK i \in S : ts[j] = CallSaid(r, i, m)
      BY <1>10, <1>11
    <2>2. ts[j].index = r[i].index
      BY <2>1 DEF CallSaid
    <2> QED
      BY <1>8, <2>2
  <1> HIDE DEF S, T, us, calls, l
  <1>15. ToolsOK(server, r, k, us, n)
    <2>1. ASSUME NEW i \in T PROVE \E j \in DOMAIN us : us[j] = CallSaid(r, i, n)
      <3>1. CASE i = k
        BY <1>9, <1>11, <1>13, <3>1
      <3>2. CASE i \in S
        <4>1. PICK j \in 1..l : ts[j] = CallSaid(r, i, m)
          BY <1>10, <1>11, <3>2
        <4> QED
          BY <1>8, <1>11, <1>13, <3>2, <4>1
      <3> QED
        BY <1>6, <3>1, <3>2
    <2>2. ASSUME NEW j \in DOMAIN us PROVE \E i \in T : us[j] = CallSaid(r, i, n)
      <3>1. CASE j \in 1..l
        <4>1. PICK i \in S : ts[j] = CallSaid(r, i, m)
          BY <1>10, <1>11, <3>1
        <4> QED
          BY <1>6, <1>8, <1>11, <3>1, <4>1
      <3>2. CASE j = l + 1
        BY <1>6, <1>9, <1>11, <3>2
      <3> QED
        BY <1>11, <1>12, <3>1, <3>2
    <2>3. ASSUME NEW i \in DOMAIN us, NEW j \in DOMAIN us, us[i].index = us[j].index PROVE i = j
      <3>1. us[l + 1].index = r[k].index
        BY <1>11
      <3>2. (i \in 1..l \/ i = l + 1) /\ (j \in 1..l \/ j = l + 1)
        BY <1>11, <1>12
      <3> QED
        BY <1>10, <1>11, <1>14, <2>3, <3>1, <3>2
    <2>4. ASSUME server # "openai" PROVE Len(us) = Cardinality(T) /\ \A j \in DOMAIN us : us[j].index = j - 1
      <3>1. r[k].index = Cardinality(S)
        <4>1. r[k].index = Cardinality({i \in Blocks(r, "start") : i < k})
          BY <1>7, <2>4, Numbered
        <4> QED
          BY <4>1, StartsFinite DEF S
      <3>2. Cardinality(T) = Cardinality(S) + 1
        BY StartsFinite DEF S, T
      <3>3. l = Cardinality(S)
        BY <1>10, <2>4 DEF l
      <3>4. us[l + 1].index = r[k].index /\ (l + 1) - 1 = l
        BY <1>11
      <3>5. \A j \in 1..l : us[j].index = j - 1
        BY <1>10, <1>11, <2>4
      <3> QED
        BY <1>11, <1>12, <3>1, <3>2, <3>3, <3>4, <3>5
    <2> QED
      BY <1>6, <1>11, <2>1, <2>2, <2>3, <2>4 DEF ToolsOK, T
  <1>16. t = [text |-> n.text, calls |-> ToldCalls(server, r, k, n)]
    <2>1. t = [text |-> m.text, calls |-> ToldCalls(server, r, k - 1, m)]
      BY DEF AnswerOK
    <2>2. CASE server = "openai"
      BY <1>4, <1>6, <2>1, <2>2 DEF ToldCalls
    <2>3. CASE server # "openai"
      <3>1. ASSUME NEW e \in Before(r, "stop", k) PROVE r[e].index # r[k].index
        <4>1. e \in Blocks(r, "stop") /\ ~(k < e)
          BY <1>7 DEF Before, Blocks
        <4>2. \/ \E i \in Blocks(r, "start") : i < e /\ r[i].id = r[e].id /\ r[i].index = r[e].index
              \/ \A i \in Blocks(r, "start") : r[i].index # r[e].index
          BY <2>3, <4>1, Numbered
        <4> QED
          BY <1>7, <4>1, <4>2
      <3>2. Stopped(r, k) = Stopped(r, k - 1) /\ Stopped(r, k) \subseteq S
        BY <1>6, <3>1 DEF Stopped, S, T
      <3>3. \A i \in Stopped(r, k) : n.calls[r[i].id] = m.calls[r[i].id]
        BY <1>4, <1>8, <3>2
      <3>4. ToldCalls(server, r, k, n) = ToldCalls(server, r, k - 1, m)
        BY <2>3, <3>2, <3>3 DEF ToldCalls
      <3> QED
        BY <1>4, <2>1, <3>4
    <2> QED
      BY <2>2, <2>3
  <1> QED
    BY <1>3, <1>15, <1>16 DEF AnswerOK, n, us

\* Records with one part changed.
Call(index, id, args) == [index |-> index, id |-> id, args |-> args]
ToldOf(text, calls) == [text |-> text, calls |-> calls]
LEMMA FragmentAdded ==
    \A a, b, c, x : [Call(a, b, c) EXCEPT !.args = Append(@, x)] = Call(a, b, Append(c, x))
  BY DEF Call
LEMMA CallsAdded ==
    \A a, b, x : ToldOf(a, b).calls = b /\ [ToldOf(a, b) EXCEPT !.calls = x] = ToldOf(a, x)
  BY DEF ToldOf

\* A fragment reaches the call it is part of.
LEMMA ArgsKeeps ==
    ASSUME NEW server, NEW r, Proper(server, r), NEW k \in 1..Len(r), NEW ts, NEW m, NEW t,
           AnswerOK(server, r, k - 1, ts, m, t), r[k].kind = "args"
    PROVE  /\ {j \in DOMAIN ts : ts[j].index = r[k].index} # {}
           /\ \A j \in DOMAIN ts : ts[j].index = r[k].index =>
                AnswerOK(server, r, k, [ts EXCEPT ![j].args = Append(@, k)],
                         [m EXCEPT !.calls[ts[j].id] = Append(@, k)], t)
  <1> DEFINE S == Before(r, "start", k - 1)
             a == SaidText(r, k - 1)
             b == SaidCalls(r, k - 1)
             d == SaidFinish(r, k - 1)
  <1>1. m = Message(a, b, d) /\ m.text = a /\ m.calls = b
    BY MessageParts DEF AnswerOK, SaidBy
  <1>2. /\ Before(r, "start", k) = S
        /\ Before(r, "stop", k) = Before(r, "stop", k - 1)
        /\ ~Ended(server, r, k - 1) /\ ~Ended(server, r, k)
    <2>1. \A kind : r[k].kind # kind => Before(r, kind, k) = Before(r, kind, k - 1)
      BY BeforeSteps
    <2>2. Before(r, "ToolCalls", k - 1) = {}
      BY NothingEnded
    <2> QED
      BY <2>1, <2>2 DEF Ended
  <1>3. DOMAIN m.calls = {r[i].id : i \in S}
    BY <1>1 DEF SaidCalls
  <1>4. /\ DOMAIN r = 1..Len(r) /\ Len(r) \in Nat /\ k \in Blocks(r, "args") /\ k \in Nat
        /\ \A i, j \in Blocks(r, "start") : i # j => r[i].id # r[j].id /\ r[i].index # r[j].index
        /\ S \subseteq Blocks(r, "start")
    BY Formats DEF Blocks, Before
  <1>5. PICK i \in S : r[i].id = r[k].id /\ r[i].index = r[k].index
    <2>1. PICK i \in Blocks(r, "start") : i < k /\ r[i].id = r[k].id /\ r[i].index = r[k].index
      BY <1>4, Formats
    <2>2. i \in S
      BY <1>4, <2>1 DEF Before, Blocks
    <2> QED
      BY <2>1, <2>2
  <1>6. /\ ts \in Seq(CallRecord)
        /\ \A n \in S : \E j \in DOMAIN ts : ts[j] = CallSaid(r, n, m)
        /\ \A j \in DOMAIN ts : \E n \in S : ts[j] = CallSaid(r, n, m)
        /\ \A x, j \in DOMAIN ts : ts[x].index = ts[j].index => x = j
        /\ server # "openai" => Len(ts) = Cardinality(S) /\ \A j \in DOMAIN ts : ts[j].index = j - 1
    BY <1>2 DEF AnswerOK, ToolsOK
  <1> HIDE DEF S, a, b, d
  <1>7. PICK o \in DOMAIN ts : ts[o] = CallSaid(r, i, m)
    BY <1>6
  <1>8. ts[o].index = r[k].index /\ ts[o].id = r[k].id /\ ts[o].args = m.calls[r[k].id]
    BY <1>5, <1>7 DEF CallSaid
  <1>9. r[k].id \in DOMAIN m.calls
    BY <1>3, <1>5
  <1> SUFFICES AnswerOK(server, r, k, [ts EXCEPT ![o].args = Append(@, k)],
                        [m EXCEPT !.calls[ts[o].id] = Append(@, k)], t)
    BY <1>6, <1>8
  <1> DEFINE us == [ts EXCEPT ![o].args = Append(@, k)]
             n == [m EXCEPT !.calls[ts[o].id] = Append(@, k)]
             calls == [m.calls EXCEPT ![r[k].id] = Append(@, k)]
  <1>10. n = Message(a, calls, d) /\ n.text = m.text /\ n.calls = calls
    <2>1. n = [m EXCEPT !.calls = calls]
      BY <1>1, <1>8 DEF Message
    <2> HIDE DEF n, calls
    <2>2. n = Message(a, calls, d)
      BY <1>1, <2>1, MessageParts
    <2> QED
      BY <1>1, <2>2, MessageParts
  <1>11. n = SaidBy(r, k)
    <2> HIDE DEF n
    <2>1. calls = [b EXCEPT ![r[k].id] = Append(@, k)]
      BY <1>1
    <2> HIDE DEF calls
    <2> QED
      BY <1>10, <2>1, Saying DEF a, b, d
  <1>12. /\ \A c \in DOMAIN m.calls : c # r[k].id => calls[c] = m.calls[c]
         /\ calls[r[k].id] = Append(m.calls[r[k].id], k)
    BY <1>9
  <1> HIDE DEF n, calls
  <1>13. \A x \in S : x # i => CallSaid(r, x, n) = CallSaid(r, x, m)
    <2> SUFFICES ASSUME NEW x \in S, x # i PROVE CallSaid(r, x, n) = CallSaid(r, x, m)
      OBVIOUS
    <2>1. r[x].id # r[k].id /\ r[x].id \in DOMAIN m.calls
      BY <1>3, <1>4, <1>5
    <2> QED
      BY <1>10, <1>12, <2>1 DEF CallSaid
  <1>14. ts[o] \in CallRecord /\ ts[o] = [index |-> ts[o].index, id |-> ts[o].id, args |-> ts[o].args]
    <2>1. ts[o] \in CallRecord
      <3> HIDE DEF CallRecord
      <3> QED
        BY <1>6
    <2> QED
      BY <2>1 DEF CallRecord
  <1>15. CallSaid(r, i, n) = [ts[o] EXCEPT !.args = Append(@, k)]
    <2> DEFINE e == ts[o]
    <2> HIDE DEF e
    <2>1. e = Call(r[i].index, r[i].id, m.calls[r[k].id])
      BY <1>5, <1>7 DEF CallSaid, Call, e
    <2>2. [e EXCEPT !.args = Append(@, k)] = Call(r[i].index, r[i].id, Append(m.calls[r[k].id], k))
      BY <2>1, FragmentAdded
    <2>3. CallSaid(r, i, n) = Call(r[i].index, r[i].id, calls[r[k].id])
      BY <1>5, <1>10 DEF CallSaid, Call
    <2> QED
      BY <1>12, <2>2, <2>3 DEF e
  <1>16. /\ DOMAIN us = DOMAIN ts /\ Len(us) = Len(ts) /\ us \in Seq(CallRecord)
         /\ us[o] = CallSaid(r, i, n) /\ \A j \in DOMAIN ts : j # o => us[j] = ts[j]
         /\ \A j \in DOMAIN ts : us[j].index = ts[j].index
    <2> DEFINE e == [ts[o] EXCEPT !.args = Append(@, k)]
    <2>1. e \in CallRecord
      <3>1. ts[o].args \in Seq(Nat)
        BY <1>14 DEF CallRecord
      <3>2. Append(ts[o].args, k) \in Seq(Nat)
        BY <1>4, <3>1
      <3> QED
        BY <1>14, <3>2 DEF CallRecord
    <2>2. us = [ts EXCEPT ![o] = e]
      OBVIOUS
    <2>3. e.index = ts[o].index
      BY <1>14
    <2>4. e = CallSaid(r, i, n)
      BY <1>15
    <2> HIDE DEF e, us, CallRecord
    <2>5. us \in Seq(CallRecord) /\ Len(us) = Len(ts) /\ DOMAIN us = DOMAIN ts
      BY <1>6, <1>7, <2>1, <2>2, ExceptSeq
    <2>6. us[o] = e /\ \A j \in DOMAIN ts : j # o => us[j] = ts[j]
      BY <1>6, <1>7, <2>2
    <2> QED
      BY <2>3, <2>4, <2>5, <2>6
  <1> HIDE DEF us
  <1>17. ToolsOK(server, r, k, us, n)
    <2>1. ASSUME NEW x \in S PROVE \E j \in DOMAIN us : us[j] = CallSaid(r, x, n)
      <3>1. CASE x = i
        BY <1>7, <1>16, <3>1
      <3>2. CASE x # i
        <4>1. PICK j \in DOMAIN ts : ts[j] = CallSaid(r, x, m)
          BY <1>6
        <4>2. j # o
          <5>1. ts[j].index = r[x].index /\ r[x].index # r[i].index
            BY <1>4, <3>2, <4>1 DEF CallSaid
          <5> QED
            BY <1>5, <1>8, <5>1
        <4> QED
          BY <1>13, <1>16, <3>2, <4>1, <4>2
      <3> QED
        BY <3>1, <3>2
    <2>2. ASSUME NEW j \in DOMAIN us PROVE \E x \in S : us[j] = CallSaid(r, x, n)
      <3>1. CASE j = o
        BY <1>16, <3>1
      <3>2. CASE j # o
        <4>1. PICK x \in S : ts[j] = CallSaid(r, x, m)
          BY <1>6, <1>16
        <4>2. x # i
          <5>1. ts[j].index = r[x].index
            BY <4>1 DEF CallSaid
          <5>2. ts[j].index # ts[o].index
            <6>1. j \in DOMAIN ts /\ o \in DOMAIN ts
              BY <1>7, <1>16
            <6> QED
              BY <1>6, <3>2, <6>1
          <5> QED
            BY <1>5, <1>8, <5>1, <5>2
        <4> QED
          BY <1>13, <1>16, <3>2, <4>1, <4>2
      <3> QED
        BY <3>1, <3>2
    <2>3. \A x, j \in DOMAIN us : us[x].index = us[j].index => x = j
      BY <1>6, <1>16
    <2> QED
      BY <1>2, <1>6, <1>16, <2>1, <2>2, <2>3 DEF ToolsOK
  <1>18. t = [text |-> n.text, calls |-> ToldCalls(server, r, k, n)]
    <2>1. t = [text |-> m.text, calls |-> ToldCalls(server, r, k - 1, m)]
      BY DEF AnswerOK
    <2>2. CASE server = "openai"
      BY <1>2, <1>10, <2>1, <2>2 DEF ToldCalls
    <2>3. CASE server # "openai"
      <3>1. Stopped(r, k) = Stopped(r, k - 1) /\ Stopped(r, k) \subseteq S
        BY <1>2 DEF Stopped, S
      <3>2. i \notin Stopped(r, k)
        <4> SUFFICES ASSUME NEW e \in Before(r, "stop", k), r[e].index = r[i].index PROVE FALSE
          BY DEF Stopped
        <4>1. e \in Blocks(r, "stop") /\ e \in Nat /\ e <= k
          BY <1>4 DEF Before, Blocks
        <4>2. /\ \E x \in Blocks(r, "start") : x < e /\ r[x].id = r[e].id /\ r[x].index = r[e].index
              /\ \A x \in Blocks(r, "args") : r[x].id = r[e].id /\ r[x].index = r[e].index => x < e
          BY <1>4, <1>5, <2>3, <4>1, Numbered
        <4>3. r[e].id = r[i].id
          BY <1>4, <4>2
        <4>4. k < e
          BY <1>4, <1>5, <4>2, <4>3
        <4> QED
          BY <1>4, <4>1, <4>4
      <3>3. \A x \in Stopped(r, k) : n.calls[r[x].id] = m.calls[r[x].id]
        <4> SUFFICES ASSUME NEW x \in Stopped(r, k) PROVE n.calls[r[x].id] = m.calls[r[x].id]
          OBVIOUS
        <4>1. x \in S /\ x # i
          BY <3>1, <3>2
        <4>2. r[x].id # r[k].id /\ r[x].id \in DOMAIN m.calls
          BY <1>3, <1>4, <1>5, <4>1
        <4> QED
          BY <1>10, <1>12, <4>2
      <3>4. ToldCalls(server, r, k, n) = ToldCalls(server, r, k - 1, m)
        BY <2>3, <3>1, <3>3 DEF ToldCalls
      <3> QED
        BY <1>10, <2>1, <3>4
    <2> QED
      BY <2>2, <2>3
  <1> QED
    BY <1>11, <1>17, <1>18 DEF AnswerOK, n, us

\* A call that is stopped is told as it stands, and a block of text that is
\* stopped is none of the calls.
LEMMA StopKeeps ==
    ASSUME NEW server, NEW r, Proper(server, r), NEW k \in 1..Len(r), NEW ts, NEW m, NEW t,
           AnswerOK(server, r, k - 1, ts, m, t), r[k].kind = "stop"
    PROVE  AnswerOK(server, r, k, ts, m,
                    [t EXCEPT !.calls = @ \cup {[id |-> ts[j].id, args |-> ts[j].args] :
                                                 j \in {i \in DOMAIN ts : ts[i].index = r[k].index}}])
  <1> DEFINE S == Before(r, "start", k - 1)
             K == {i \in DOMAIN ts : ts[i].index = r[k].index}
             given == {[id |-> ts[j].id, args |-> ts[j].args] : j \in K}
             Tell(n) == [id |-> r[n].id, args |-> m.calls[r[n].id]]
  <1>1. /\ DOMAIN r = 1..Len(r) /\ Len(r) \in Nat /\ k \in Blocks(r, "stop") /\ k \in Nat
        /\ \A i, j \in Blocks(r, "start") : i # j => r[i].id # r[j].id /\ r[i].index # r[j].index
        /\ S \subseteq Blocks(r, "start") /\ server # "openai"
    BY Formats DEF Blocks, Before
  <1>2. /\ Before(r, "start", k) = S
        /\ Before(r, "stop", k) = Before(r, "stop", k - 1) \cup {k}
        /\ ~Ended(server, r, k - 1) /\ ~Ended(server, r, k)
    <2>1. \A kind : /\ r[k].kind # kind => Before(r, kind, k) = Before(r, kind, k - 1)
                    /\ r[k].kind = kind => Before(r, kind, k) = Before(r, kind, k - 1) \cup {k}
      BY BeforeSteps
    <2> QED
      BY <1>1, <2>1 DEF Ended
  <1>3. m = SaidBy(r, k)
    BY Saying DEF AnswerOK
  <1>4. ToolsOK(server, r, k, ts, m)
    BY <1>2, ToolsStay DEF AnswerOK
  <1>5. /\ \A n \in S : \E j \in DOMAIN ts : ts[j] = CallSaid(r, n, m)
        /\ \A j \in DOMAIN ts : \E n \in S : ts[j] = CallSaid(r, n, m)
    BY <1>2 DEF AnswerOK, ToolsOK
  <1>6. Stopped(r, k) = Stopped(r, k - 1) \cup {n \in S : r[n].index = r[k].index}
    BY <1>2 DEF Stopped
  <1>7. given = {Tell(n) : n \in {i \in S : r[i].index = r[k].index}}
    <2>1. ASSUME NEW j \in K PROVE \E n \in S : r[n].index = r[k].index /\ [id |-> ts[j].id, args |-> ts[j].args] = Tell(n)
      <3>1. PICK n \in S : ts[j] = CallSaid(r, n, m)
        BY <1>5
      <3> QED
        BY <3>1 DEF CallSaid
    <2>2. ASSUME NEW n \in S, r[n].index = r[k].index PROVE Tell(n) \in given
      <3>1. PICK j \in DOMAIN ts : ts[j] = CallSaid(r, n, m)
        BY <1>5
      <3>2. j \in K /\ ts[j].id = r[n].id /\ ts[j].args = m.calls[r[n].id]
        BY <2>2, <3>1 DEF CallSaid
      <3> QED
        BY <3>2
    <2> DEFINE told1 == {Tell(n) : n \in {i \in S : r[i].index = r[k].index}}
    <2>3. given \subseteq told1
      <3> HIDE DEF Tell, S, K
      <3> QED
        BY <2>1
    <2>4. told1 \subseteq given
      <3> HIDE DEF Tell, S, given
      <3> QED
        BY <2>2
    <2> QED
      BY <2>3, <2>4
  <1>8. ToldCalls(server, r, k, m) = ToldCalls(server, r, k - 1, m) \cup given
    <2>1. ToldCalls(server, r, k, m) = {Tell(n) : n \in Stopped(r, k)}
      BY <1>1 DEF ToldCalls
    <2>2. ToldCalls(server, r, k - 1, m) = {Tell(n) : n \in Stopped(r, k - 1)}
      BY <1>1 DEF ToldCalls
    <2> HIDE DEF Tell, given, S
    <2> QED
      BY <1>6, <1>7, <2>1, <2>2
  <1>9. [t EXCEPT !.calls = @ \cup given] = [text |-> m.text, calls |-> ToldCalls(server, r, k, m)]
    <2> DEFINE x == m.text
               y == ToldCalls(server, r, k - 1, m)
    <2>1. t = ToldOf(x, y)
      BY DEF AnswerOK, ToldOf
    <2> HIDE DEF given, x, y
    <2>2. [t EXCEPT !.calls = @ \cup given] = ToldOf(x, y \cup given)
      <3> DEFINE z == y \cup given
      <3>1. t.calls \cup given = z
        BY <2>1, CallsAdded
      <3> HIDE DEF z
      <3>2. [t EXCEPT !.calls = z] = ToldOf(x, z)
        BY <2>1, CallsAdded
      <3> QED
        BY <3>1, <3>2 DEF z
    <2> QED
      BY <1>8, <2>2 DEF x, y, ToldOf
  <1> QED
    BY <1>3, <1>4, <1>9 DEF AnswerOK

-----------------------------------------------------------------------------
(* The invariant. While the stream is at work, the adapter, the accumulator   *)
(* and the subscribers know what the blocks taken so far say.                 *)
Shaped(m, t) == \E a, b, c, d : m = Message(a, b, c) /\ t = ToldOf(a, d)
Clear == adapter = "openai" \/ CallsComeFirst(reply)

StreamControl ==
    /\ adapter \in DOMAIN Replies /\ reply \in Replies[adapter]
    /\ sent \in Nat /\ sent <= 2 * Len(reply)
    /\ read \in Nat /\ read <= sent
    /\ taken \in Nat /\ 2 * taken <= read

\* poll_next waits for bytes when it found no whole block, or behind a comment.
PollOK ==
    /\ stage = "request" => poll = "extract"
    /\ poll = "inner" /\ stage = "stream" => ~Whole(taken + 1) \/ (taken >= 1 /\ IsComment(taken))
AllTaken == stage = "streamed" /\ AllSent /\ CommentPairs = {} => taken = Len(reply)
StreamAnswer ==
    stage \in {"request", "stream", "streamed"} =>
        Shaped(message, told) /\ (Clear => AnswerOK(adapter, reply, taken, tools, message, told))

StreamInv == StreamControl /\ PollOK /\ AllTaken /\ StreamAnswer

LEMMA ReplyIsProper ==
    ASSUME StreamControl
    PROVE  Proper(adapter, reply) /\ Len(reply) \in Nat /\ DOMAIN reply = 1..Len(reply)
  <1>1. Proper(adapter, reply)
    BY StreamAssumption DEF StreamControl
  <1> QED
    BY <1>1, Formats

LEMMA StreamFirst == StreamInit => StreamInv
  <1> SUFFICES ASSUME StreamInit PROVE StreamInv
    OBVIOUS
  <1>1. adapter \in DOMAIN Replies /\ reply \in Replies[adapter]
    BY DEF StreamInit
  <1>2. Proper(adapter, reply)
    BY <1>1, StreamAssumption
  <1>3. Len(reply) \in Nat
    BY <1>2, Formats
  <1>4. StreamControl
    BY <1>1, <1>3 DEF StreamInit, StreamControl
  <1>5. \A kind : Before(reply, kind, 0) = {}
    BY <1>2, BeforeAll
  <1>6. message = Message(<<>>, <<>>, "Stop") /\ told = ToldOf(<<>>, {})
    BY DEF StreamInit, NoMessage, Message, ToldOf
  <1>7. message = SaidBy(reply, 0)
    <2>1. SaidText(reply, 0) = <<>>
      BY <1>3, ListedIs DEF Listing, SaidText
    <2>2. SaidCalls(reply, 0) = <<>>
      <3>1. {reply[n].id : n \in Before(reply, "start", 0)} = {}
        BY <1>5
      <3>2. SaidCalls(reply, 0) = [c \in {} |-> SaidOf(reply, 0, c)]
        BY <3>1 DEF SaidCalls
      <3>3. [c \in {} |-> SaidOf(reply, 0, c)] = <<>>
        OBVIOUS
      <3> QED
        BY <3>2, <3>3
    <2>3. SaidFinish(reply, 0) = "Stop"
      BY <1>5 DEF SaidFinish
    <2> QED
      BY <1>6, <2>1, <2>2, <2>3 DEF SaidBy
  <1>8. AnswerOK(adapter, reply, 0, tools, message, told)
    <2>1. tools = <<>>
      BY DEF StreamInit
    <2>2. ToolsOK(adapter, reply, 0, tools, message)
      <3>1. Cardinality({}) = 0 /\ <<>> \in Seq(CallRecord) /\ Len(<<>>) = 0 /\ DOMAIN <<>> = {}
        BY FS_EmptySet
      <3> QED
        BY <1>5, <2>1, <3>1 DEF ToolsOK, Ended
    <2>3. ToldCalls(adapter, reply, 0, message) = {}
      BY <1>5 DEF ToldCalls, Ended, Stopped
    <2>4. told = [text |-> message.text, calls |-> {}]
      <3>1. message.text = <<>>
        BY <1>6, MessageParts
      <3> QED
        BY <1>6, <3>1 DEF ToldOf
    <2> QED
      BY <1>7, <2>2, <2>3, <2>4 DEF AnswerOK
  <1>9. stage = "request" /\ poll = "extract" /\ taken = 0
    BY DEF StreamInit
  <1> QED
    BY <1>4, <1>6, <1>8, <1>9 DEF StreamInv, PollOK, AllTaken, StreamAnswer, Shaped

LEMMA EntryIs ==
    ASSUME StreamControl, Clear, NEW k \in 1..Len(reply), reply[k].kind \in {"args", "stop"},
           ToolsOK(adapter, reply, k - 1, tools, message)
    PROVE  Entry(reply[k]) = {j \in DOMAIN tools : tools[j].index = reply[k].index}
  <1>1. CASE adapter = "openai"
    BY <1>1 DEF Entry
  <1>2. CASE adapter # "openai"
    <2>1. tools \in Seq(CallRecord) /\ \A j \in DOMAIN tools : tools[j].index = j - 1
      BY <1>2 DEF ToolsOK
    <2>2. DOMAIN tools = 1..Len(tools) /\ Len(tools) \in Nat
      <3> HIDE DEF CallRecord
      <3> QED
        BY <2>1
    <2>3. reply[k].index \in Nat
      BY ReplyIsProper, Formats
    <2>4. \A j \in DOMAIN tools : tools[j].index = reply[k].index <=> j = reply[k].index + 1
      BY <2>1, <2>2, <2>3
    <2> QED
      BY <1>2, <2>4 DEF Entry
  <1> QED
    BY <1>1, <1>2

\* A block that is taken is handled as what it is.
LEMMA HandleKeeps ==
    ASSUME StreamControl, NEW k \in 1..Len(reply), ~IsComment(k), Handle(k), Shaped(message, told),
           Clear => AnswerOK(adapter, reply, k - 1, tools, message, told)
    PROVE  /\ Shaped(message', told')
           /\ Clear => AnswerOK(adapter, reply, k, tools', message', told')
  <1> DEFINE b == reply[k]
  <1>p. Proper(adapter, reply) /\ Len(reply) \in Nat /\ DOMAIN reply = 1..Len(reply)
    BY ReplyIsProper
  <1>s. PICK x, y, z, w : message = Message(x, y, z) /\ told = ToldOf(x, w)
    BY DEF Shaped
  <1>m. message.text = x /\ message.calls = y
    BY <1>s, MessageParts
  <1>1. CASE b.kind = "text" /\ Text(k)
    <2>1. /\ message' = [message EXCEPT !.text = Append(@, k)]
          /\ told' = [told EXCEPT !.text = Append(@, k)]
          /\ tools' = tools
      BY <1>1 DEF Text
    <2>2. message' = Message(Append(x, k), y, z) /\ told' = ToldOf(Append(x, k), w)
      <3>1. message' = Message(Append(x, k), y, z)
        BY <1>s, <2>1, MessageParts
      <3>2. told' = ToldOf(Append(x, k), w)
        BY <1>s, <2>1 DEF ToldOf
      <3> QED
        BY <3>1, <3>2
    <2>3. Clear => AnswerOK(adapter, reply, k, tools', message', told')
      BY <1>1, <1>p, <2>1, TextKeeps
    <2> QED
      BY <2>2, <2>3 DEF Shaped
  <1>2. CASE b.kind = "start" /\ StartCall(b)
    <2>1. /\ tools' = Append(tools, [index |-> reply[k].index, id |-> reply[k].id, args |-> <<>>])
          /\ message' = [message EXCEPT !.calls = Begun(@, reply[k].id)]
          /\ told' = told
      BY <1>2 DEF StartCall, Begun
    <2> DEFINE v == Begun(message.calls, reply[k].id)
    <2>2. message' = Message(x, v, z)
      <3>1. message' = [message EXCEPT !.calls = v]
        BY <2>1
      <3> HIDE DEF v
      <3> QED
        BY <1>s, <3>1, MessageParts
    <2>3. ASSUME Clear PROVE AnswerOK(adapter, reply, k, tools', message', told')
      <3>1. AnswerOK(adapter, reply, k - 1, tools, message, told)
        BY <2>3
      <3>2. adapter = "openai" \/ CallsComeFirst(reply)
        BY <2>3 DEF Clear
      <3>3. AnswerOK(adapter, reply, k,
                     Append(tools, [index |-> reply[k].index, id |-> reply[k].id, args |-> <<>>]),
                     [message EXCEPT !.calls = Begun(@, reply[k].id)], told)
        BY <1>2, <1>p, <3>1, <3>2, StartKeeps
      <3> QED
        BY <2>1, <3>3
    <2> HIDE DEF v
    <2> QED
      BY <1>s, <2>1, <2>2, <2>3 DEF Shaped
  <1>3. CASE b.kind = "args" /\ Arguments(b, k)
    <2>1. told' = told
      BY <1>3 DEF Arguments
    <2>2. CASE Entry(b) = {} /\ UNCHANGED <<tools, message>>
      <3>1. Clear => FALSE
        <4> SUFFICES ASSUME Clear PROVE FALSE
          OBVIOUS
        <4>1. AnswerOK(adapter, reply, k - 1, tools, message, told)
          OBVIOUS
        <4>2. {j \in DOMAIN tools : tools[j].index = reply[k].index} # {}
          BY <1>3, <1>p, <4>1, ArgsKeeps
        <4>3. Entry(reply[k]) = {j \in DOMAIN tools : tools[j].index = reply[k].index}
          BY <1>3, <4>1, EntryIs DEF AnswerOK
        <4> QED
          BY <2>2, <4>2, <4>3
      <3>2. message' = message
        BY <2>2
      <3> QED
        BY <2>1, <3>1, <3>2
    <2>3. CASE \E j \in Entry(b) : /\ tools' = [tools EXCEPT ![j].args = Append(@, k)]
                                   /\ message' = [message EXCEPT !.calls[tools[j].id] = Append(@, k)]
      <3>1. PICK j \in Entry(b) : /\ tools' = [tools EXCEPT ![j].args = Append(@, k)]
                                  /\ message' = [message EXCEPT !.calls[tools[j].id] = Append(@, k)]
        BY <2>3
      <3> DEFINE v == [message.calls EXCEPT ![tools[j].id] = Append(@, k)]
      <3>2. message' = Message(x, v, z)
        <4>1. message' = [message EXCEPT !.calls = v]
          BY <1>s, <3>1 DEF Message
        <4> HIDE DEF v
        <4> QED
          BY <1>s, <4>1, MessageParts
      <3>3. ASSUME Clear PROVE AnswerOK(adapter, reply, k, tools', message', told')
        <4>1. AnswerOK(adapter, reply, k - 1, tools, message, told)
          BY <3>3
        <4>2. Entry(reply[k]) = {i \in DOMAIN tools : tools[i].index = reply[k].index}
          BY <1>3, <3>3, <4>1, EntryIs DEF AnswerOK
        <4>3. j \in DOMAIN tools /\ tools[j].index = reply[k].index
          BY <4>2
        <4>4. AnswerOK(adapter, reply, k, [tools EXCEPT ![j].args = Append(@, k)],
                       [message EXCEPT !.calls[tools[j].id] = Append(@, k)], told)
          BY <1>3, <1>p, <4>1, <4>3, ArgsKeeps
        <4> QED
          BY <2>1, <3>1, <4>4
      <3> HIDE DEF v
      <3> QED
        BY <1>s, <2>1, <3>2, <3>3 DEF Shaped
    <2> QED
      BY <1>3, <2>2, <2>3 DEF Arguments
  <1>4. CASE b.kind = "stop" /\ StopBlock(b)
    <2>1. told' = [told EXCEPT !.calls = @ \cup Completed(Entry(b))] /\ tools' = tools /\ message' = message
      BY <1>4 DEF StopBlock
    <2> DEFINE z1 == told.calls \cup Completed(Entry(b))
    <2>2. told' = ToldOf(x, z1)
      <3>1. told' = [told EXCEPT !.calls = z1]
        BY <2>1
      <3> HIDE DEF z1
      <3> QED
        BY <1>s, <3>1, CallsAdded
    <2>3. ASSUME Clear PROVE AnswerOK(adapter, reply, k, tools', message', told')
      <3>1. AnswerOK(adapter, reply, k - 1, tools, message, told)
        BY <2>3
      <3>2. Entry(reply[k]) = {i \in DOMAIN tools : tools[i].index = reply[k].index}
        BY <1>4, <2>3, <3>1, EntryIs DEF AnswerOK
      <3> DEFINE K == {i \in DOMAIN tools : tools[i].index = reply[k].index}
      <3>3. Completed(Entry(b)) = {[id |-> tools[j].id, args |-> tools[j].args] : j \in K}
        BY <3>2 DEF Completed
      <3>4. AnswerOK(adapter, reply, k, tools, message,
                     [told EXCEPT !.calls = @ \cup {[id |-> tools[j].id, args |-> tools[j].args] : j \in K}])
        BY <1>4, <1>p, <3>1, StopKeeps
      <3> HIDE DEF K
      <3> QED
        BY <2>1, <3>3, <3>4
    <2> HIDE DEF z1
    <2> QED
      BY <1>s, <2>1, <2>2, <2>3 DEF Shaped
  <1>5. CASE b.kind \in {"ToolCalls", "Stop"} /\ EndAnswer(b)
    <2>1. message' = [message EXCEPT !.finish = reply[k].kind]
      BY <1>5 DEF EndAnswer
    <2>2. message' = Message(x, y, reply[k].kind)
      BY <1>s, <2>1, MessageParts
    <2>3. CASE adapter = "openai" /\ reply[k].kind = "ToolCalls"
      <3> DEFINE given == HandedOver(tools)
                 v == told.calls \cup given
      <3>1. told' = [told EXCEPT !.calls = @ \cup given] /\ tools' = <<>>
        BY <1>5, <2>3 DEF EndAnswer, Completed, HandedOver
      <3>2. told' = ToldOf(x, v)
        <4>1. told' = [told EXCEPT !.calls = v]
          BY <3>1
        <4> HIDE DEF v
        <4> QED
          BY <1>s, <4>1, CallsAdded
      <3>3. ASSUME Clear PROVE AnswerOK(adapter, reply, k, tools', message', told')
        <4>1. AnswerOK(adapter, reply, k - 1, tools, message, told)
          BY <3>3
        <4>2. AnswerOK(adapter, reply, k, <<>>, [message EXCEPT !.finish = reply[k].kind],
                       [told EXCEPT !.calls = @ \cup HandedOver(tools)])
          BY <1>p, <2>3, <4>1, HandOverKeeps
        <4> QED
          BY <2>1, <3>1, <4>2
      <3> HIDE DEF v
      <3> QED
        BY <2>2, <3>2, <3>3 DEF Shaped
    <2>4. CASE ~(adapter = "openai" /\ reply[k].kind = "ToolCalls")
      <3>1. told' = told /\ tools' = tools
        BY <1>5, <2>4 DEF EndAnswer
      <3>2. Clear => AnswerOK(adapter, reply, k, tools', message', told')
        BY <1>5, <1>p, <2>1, <2>4, <3>1, EndKeeps
      <3> QED
        BY <1>s, <2>2, <3>1, <3>2 DEF Shaped
    <2> QED
      BY <2>3, <2>4
  <1>6. CASE b.kind = "other" /\ UNCHANGED answerVars
    <2>1. tools' = tools /\ message' = message /\ told' = told
      BY <1>6 DEF answerVars
    <2>2. Clear => AnswerOK(adapter, reply, k, tools', message', told')
      BY <1>6, <1>p, <2>1, QuietKeeps
    <2> QED
      BY <2>1, <2>2
  <1> QED
    BY <1>1, <1>2, <1>3, <1>4, <1>5, <1>6 DEF Handle

LEMMA StreamStep == StreamInv /\ [StreamNext]_streamVars => StreamInv'
  <1> SUFFICES ASSUME StreamInv, [StreamNext]_streamVars PROVE StreamInv'
    OBVIOUS
  <1>i. StreamControl /\ PollOK /\ AllTaken /\ StreamAnswer
    BY DEF StreamInv
  <1>p. Proper(adapter, reply) /\ Len(reply) \in Nat /\ DOMAIN reply = 1..Len(reply)
    BY <1>i, ReplyIsProper
  <1>n. taken \in Nat /\ read \in Nat /\ sent \in Nat /\ read <= sent /\ sent <= 2 * Len(reply)
        /\ 2 * taken <= read
    BY <1>i DEF StreamControl
  <1>w. ASSUME Whole(taken + 1) PROVE taken + 1 \in 1..Len(reply) /\ 2 * (taken + 1) <= read
    BY <1>p, <1>n, <1>w DEF Whole
  <1>1. CASE SendHalf
    BY <1>1, <1>i, <1>p, <1>n DEF SendHalf, StreamInv, StreamControl, PollOK, AllTaken, StreamAnswer, parserVars,
        answerVars, Whole, IsComment, Clear
  <1>2. ASSUME NEW how, EndBody(how) PROVE StreamInv'
    BY <1>2, <1>i DEF EndBody, StreamInv, StreamControl, PollOK, AllTaken, StreamAnswer, parserVars,
        answerVars, Whole, IsComment, Clear, AllSent, CommentPairs
  <1>3. ASSUME stage = "stream", Whole(taken + 1), ~IsComment(taken + 1), taken' = taken + 1, Handle(taken + 1),
               poll' = "extract", UNCHANGED <<adapter, reply, sent, wire, read, stage>>
        PROVE  StreamInv'
    <2>1. taken + 1 \in 1..Len(reply) /\ 2 * (taken + 1) <= read
      BY <1>3, <1>w
    <2>2. Shaped(message, told) /\ (Clear => AnswerOK(adapter, reply, (taken + 1) - 1, tools, message, told))
      <3>1. (taken + 1) - 1 = taken
        BY <1>n
      <3> QED
        BY <1>3, <1>i, <3>1 DEF StreamAnswer
    <2> DEFINE k == taken + 1
    <2>3. /\ Shaped(message', told')
          /\ Clear => AnswerOK(adapter, reply, k, tools', message', told')
      <3>1. k \in 1..Len(reply) /\ ~IsComment(k) /\ Handle(k)
            /\ (Clear => AnswerOK(adapter, reply, k - 1, tools, message, told))
        BY <1>3, <2>1, <2>2
      <3> HIDE DEF k
      <3> QED
        BY <1>i, <2>2, <3>1, HandleKeeps
    <2>4. taken' = k /\ k \in Nat /\ 2 * k <= read
      BY <1>3, <1>n, <2>1
    <2> HIDE DEF k
    <2>5. StreamAnswer'
      BY <1>3, <2>3, <2>4 DEF StreamAnswer, Clear
    <2>6. StreamControl'
      BY <1>3, <1>i, <2>4 DEF StreamControl
    <2> QED
      BY <1>3, <2>5, <2>6 DEF StreamInv, PollOK, AllTaken
  <1>4. CASE ExtractEvent
    BY <1>3, <1>4 DEF ExtractEvent
  <1>5. ASSUME stage = "stream", Whole(taken + 1), IsComment(taken + 1)
        PROVE  Shaped(message, told) /\ (Clear => AnswerOK(adapter, reply, taken + 1, tools, message, told))
    <2> DEFINE k == taken + 1
    <2>1. k \in 1..Len(reply) /\ k - 1 = taken /\ reply[k].kind = "comment"
      BY <1>5, <1>w, <1>n DEF IsComment
    <2>2. Shaped(message, told) /\ (Clear => AnswerOK(adapter, reply, k - 1, tools, message, told))
      BY <1>5, <1>i, <2>1 DEF StreamAnswer
    <2> HIDE DEF k
    <2>3. Clear => AnswerOK(adapter, reply, k, tools, message, told)
      BY <1>p, <2>1, <2>2, QuietKeeps
    <2> QED
      BY <2>2, <2>3 DEF k
  <1>6. CASE ExtractNothing
    <2>1. /\ stage = "stream" /\ poll' = "inner"
          /\ UNCHANGED <<adapter, reply, sent, wire, read, tools, message, told, stage>>
      BY <1>6 DEF ExtractNothing, answerVars
    <2>2. CASE ~Whole(taken + 1) /\ UNCHANGED taken
      <3>1. PollOK'
        BY <2>1, <2>2 DEF PollOK, Whole
      <3> QED
        BY <1>i, <2>1, <2>2, <3>1 DEF StreamInv, StreamControl, AllTaken, StreamAnswer, Clear
    <2>3. CASE Whole(taken + 1) /\ IsComment(taken + 1) /\ taken' = taken + 1
      <3>1. taken + 1 \in Nat /\ taken + 1 >= 1 /\ 2 * (taken + 1) <= read
        BY <1>n, <1>w, <2>3
      <3>2. PollOK'
        BY <2>1, <2>3, <3>1 DEF PollOK, IsComment
      <3>3. StreamControl'
        BY <1>i, <2>1, <2>3, <3>1 DEF StreamControl
      <3>4. StreamAnswer'
        BY <1>5, <2>1, <2>3 DEF StreamAnswer, Clear
      <3> QED
        BY <2>1, <3>2, <3>3, <3>4 DEF StreamInv, AllTaken
    <2> QED
      BY <1>6, <2>2, <2>3 DEF ExtractNothing
  <1>7. ASSUME NEW n \in 1..(2 * Len(reply)), ReadChunk(n) PROVE StreamInv'
    <2>1. /\ stage = "stream" /\ read' = read + n /\ read + n <= sent /\ poll' = "extract"
          /\ UNCHANGED <<adapter, reply, sent, wire, taken, tools, message, told, stage>>
      BY <1>7 DEF ReadChunk, answerVars
    <2>2. read + n \in Nat /\ 2 * taken <= read + n
      BY <1>p, <1>n
    <2> QED
      BY <1>i, <2>1, <2>2 DEF StreamInv, StreamControl, PollOK, AllTaken, StreamAnswer, Clear
  <1>8. CASE EndOfBytes
    <2>1. stage = "stream" /\ poll = "inner" /\ read = sent /\ UNCHANGED <<adapter, reply, sent, wire, read>>
      BY <1>8 DEF EndOfBytes
    <2>2. CASE /\ Whole(taken + 1) /\ ~IsComment(taken + 1)
               /\ taken' = taken + 1 /\ poll' = "extract"
               /\ Handle(taken + 1)
               /\ UNCHANGED stage
      BY <1>3, <2>1, <2>2
    <2>3. CASE /\ Whole(taken + 1) => IsComment(taken + 1)
               /\ taken' = IF Whole(taken + 1) THEN taken + 1 ELSE taken
               /\ stage' = "streamed"
               /\ UNCHANGED <<poll, answerVars>>
      <3>1. UNCHANGED <<tools, message, told>>
        BY <2>3 DEF answerVars
      <3>2. StreamControl'
        BY <1>i, <1>n, <1>w, <2>1, <2>3 DEF StreamControl
      <3>3. StreamAnswer'
        BY <1>5, <1>i, <2>1, <2>3, <3>1 DEF StreamAnswer, Clear
      <3>4. AllTaken'
        <4> SUFFICES ASSUME AllSent, CommentPairs = {} PROVE taken' = Len(reply)
          BY <2>1 DEF AllTaken, AllSent, CommentPairs, IsComment
        <4>1. CASE ~Whole(taken + 1)
          <5>1. taken' = taken /\ read = 2 * Len(reply) /\ ~(2 * (taken + 1) <= read)
            BY <2>1, <2>3, <4>1 DEF AllSent, Whole
          <5> DEFINE l == Len(reply)
          <5>2. l \in Nat /\ taken \in Nat /\ 2 * taken <= 2 * l /\ ~(2 * (taken + 1) <= 2 * l)
            BY <1>n, <1>p, <5>1
          <5> HIDE DEF l
          <5>3. taken = l
            BY <5>2
          <5> QED
            BY <5>1, <5>3 DEF l
        <4>2. CASE Whole(taken + 1)
          <5>1. taken >= 1 /\ IsComment(taken) /\ IsComment(taken + 1)
            BY <1>i, <2>1, <2>3, <4>2 DEF PollOK
          <5>2. taken \in 1..(Len(reply) - 1)
            BY <1>n, <1>p, <1>w, <4>2, <5>1
          <5> QED
            BY <5>1, <5>2 DEF CommentPairs
        <4> QED
          BY <4>1, <4>2
      <3> QED
        BY <2>3, <3>2, <3>3, <3>4 DEF StreamInv, PollOK
    <2> QED
      BY <1>8, <2>2, <2>3 DEF EndOfBytes
  <1>9. CASE OpenStream
    <2>1. /\ stage = "request" /\ stage' = "stream"
          /\ UNCHANGED <<adapter, reply, sent, wire, read, taken, poll, tools, message, told>>
      BY <1>9 DEF OpenStream, parserVars, answerVars
    <2> QED
      BY <1>i, <2>1 DEF StreamInv, StreamControl, PollOK, AllTaken, StreamAnswer, Clear, Whole, IsComment
  <1>10. ASSUME stage' \in {"complete", "completed", "failed"}, UNCHANGED <<adapter, reply, sent, wire, read, taken>>
         PROVE  StreamInv'
    BY <1>i, <1>10 DEF StreamInv, StreamControl, PollOK, AllTaken, StreamAnswer
  <1>11. CASE StreamFails \/ TimesOut \/ CompleteAnswers \/ CompleteFails
    BY <1>10, <1>11 DEF StreamFails, TimesOut, CompleteAnswers, CompleteFails, parserVars
  <1>12. CASE UNCHANGED streamVars
    BY <1>i, <1>12 DEF streamVars, StreamInv, StreamControl, PollOK, AllTaken, StreamAnswer, parserVars,
        answerVars, Whole, IsComment, Clear, AllSent, CommentPairs
  <1> QED
    BY <1>1, <1>2, <1>4, <1>6, <1>7, <1>8, <1>9, <1>11, <1>12 DEF StreamNext

\* Wherever chunks end and calls interleave, an answer that OpenAI or Anthropic
\* sent to its end is put together as it was meant (Anthropic's without text in
\* front of a call), and subscribers were told what is stored: call_streaming,
\* SseStream and the adapters' parsers, for any replies of the two formats.
THEOREM AnswersAreWhole == StreamSpec => []StreamedAnswerIsWhole
  <1>1. StreamInv => StreamedAnswerIsWhole
    <2> SUFFICES ASSUME StreamInv, stage = "streamed"
                 PROVE  /\ AllSent /\ CommentPairs = {} /\ Clear => message = Intended
                        /\ told.text = message.text
                        /\ message.finish = "ToolCalls" /\ Clear => told.calls = CallsOf(message)
      BY DEF StreamedAnswerIsWhole, Clear
    <2>1. /\ StreamControl /\ AllTaken /\ Shaped(message, told)
          /\ Clear => AnswerOK(adapter, reply, taken, tools, message, told)
      BY DEF StreamInv, StreamAnswer
    <2>2. Proper(adapter, reply) /\ DOMAIN reply = 1..Len(reply)
      BY <2>1, ReplyIsProper
    <2>3. AllSent /\ CommentPairs = {} /\ Clear => message = Intended
      BY <2>1, <2>2, IntendedIs DEF AllTaken, AnswerOK
    <2>4. told.text = message.text
      BY <2>1 DEF Shaped, Message, ToldOf
    <2>5. ASSUME message.finish = "ToolCalls", Clear PROVE told.calls = CallsOf(message)
      <3> DEFINE S == Before(reply, "start", taken)
      <3>1. AnswerOK(adapter, reply, taken, tools, message, told)
        BY <2>1, <2>5
      <3>2. message.finish = SaidFinish(reply, taken) /\ message.calls = SaidCalls(reply, taken)
        BY <3>1, MessageParts DEF AnswerOK, SaidBy
      <3>3. Before(reply, "ToolCalls", taken) # {}
        BY <2>5, <3>2 DEF SaidFinish
      <3>4. told.calls = ToldCalls(adapter, reply, taken, message)
        BY <3>1 DEF AnswerOK
      <3>5. CASE adapter = "openai"
        BY <3>3, <3>4, <3>5 DEF ToldCalls, Ended
      <3>6. CASE adapter # "openai"
        <4>1. PICK f \in Blocks(reply, "ToolCalls") : f <= taken
          BY <3>3 DEF Before
        <4>2. ASSUME NEW n \in S PROVE n \in Stopped(reply, taken)
          <5>1. n \in Blocks(reply, "start")
            BY DEF Before
          <5>2. PICK e \in Blocks(reply, "stop") : e < f /\ reply[n].id = reply[e].id /\ reply[n].index = reply[e].index
            BY <2>2, <3>6, <5>1, Numbered
          <5>3. e <= taken
            <6>1. e \in Nat /\ f \in Nat /\ taken \in Nat
              BY <2>1, <2>2 DEF Blocks, StreamControl
            <6> QED
              BY <4>1, <5>2, <6>1
          <5> QED
            BY <5>2, <5>3 DEF Stopped, Before
        <4>3. Stopped(reply, taken) = S
          BY <4>2 DEF Stopped
        <4>4. told.calls = {[id |-> reply[n].id, args |-> message.calls[reply[n].id]] : n \in S}
          BY <3>4, <3>6, <4>3 DEF ToldCalls
        <4>5. DOMAIN message.calls = {reply[n].id : n \in S}
          BY <3>2 DEF SaidCalls
        <4> HIDE DEF S
        <4>6. told.calls \subseteq CallsOf(message)
          BY <4>4, <4>5 DEF CallsOf
        <4>7. CallsOf(message) \subseteq told.calls
          BY <4>4, <4>5 DEF CallsOf
        <4> QED
          BY <4>6, <4>7
      <3> QED
        BY <3>5, <3>6
    <2> QED
      BY <2>3, <2>4, <2>5
  <1> QED
    BY StreamFirst, StreamStep, <1>1, PTL DEF StreamSpec
=============================================================================
