---------------------------- MODULE ModelRouter ----------------------------
(* A chat request goes down a chain of providers, each retried while its     *)
(* errors are retryable; an embedding request goes to one provider only.     *)
EXTENDS Integers, Sequences

CONSTANTS
    Chains,     \* the lists of providers a caller may give, as sequences
    MaxRetries, \* RuntimePolicy::max_retries
    Offers      \* provider -> what the registry has: "absent", "incapable", "capable"

ASSUME RouterAssumption == MaxRetries \in Nat /\ Chains \subseteq Seq(DOMAIN Offers)

VARIABLES
    request, \* "chat" or "embedding"
    chain,
    retries, \* RuntimePolicy::retry_on_provider_error
    at,      \* the position in the chain
    tries,   \* history: position -> the outcomes of the calls to that provider
    answer   \* "none", "response", or the kind of the error returned

routerVars == <<request, chain, retries, at, tries, answer>>

\* ProviderError::is_retryable tells these two kinds apart.
Errors == {"retryable", "permanent"}
Outcomes == Errors \cup {"response"}
Answers == Outcomes \cup {"none", "notFound"}

Attempts == IF retries THEN MaxRetries + 1 ELSE 1

RouterInit ==
    /\ request \in {"chat", "embedding"}
    /\ chain \in Chains
    /\ request = "embedding" => Len(chain) = 1
    /\ retries \in BOOLEAN
    /\ at = 1
    /\ tries = [i \in DOMAIN chain |-> <<>>]
    /\ answer = "none"

Serving == answer = "none"
Reached == Serving /\ at \in DOMAIN chain

\* route_embedding asks for no capabilities.
Usable(p) == Offers[p] = "capable" \/ (request = "embedding" /\ Offers[p] # "absent")

\* The error of the last provider is the one returned, whatever came before.
GoOn(error) ==
    IF at < Len(chain)
    THEN at' = at + 1 /\ UNCHANGED answer
    ELSE answer' = error /\ UNCHANGED at

NoProvider ==
    /\ Serving /\ chain = <<>>
    /\ answer' = "notFound"
    /\ UNCHANGED <<request, chain, retries, at, tries>>

NotFound ==
    /\ Reached /\ ~Usable(chain[at])
    /\ GoOn("notFound")
    /\ UNCHANGED <<request, chain, retries, tries>>

\* Mutant: every error is worth another attempt.
GivesUpAtBound(outcome) == Len(tries[at]) + 1 = Attempts

GivesUp(outcome) == outcome = "permanent" \/ Len(tries[at]) + 1 = Attempts

Called(outcome) ==
    /\ Reached /\ Usable(chain[at])
    /\ tries' = [tries EXCEPT ![at] = Append(@, outcome)]
    /\ UNCHANGED <<request, chain, retries>>

Responds == Called("response") /\ answer' = "response" /\ UNCHANGED at

\* The backoff changes nothing that is modelled.
RetriesLater(error) == Called(error) /\ ~GivesUp(error) /\ UNCHANGED <<at, answer>>

Fails(error) == Called(error) /\ GivesUp(error) /\ GoOn(error)

RouterNext ==
    \/ NoProvider \/ NotFound \/ Responds
    \/ \E error \in Errors : RetriesLater(error) \/ Fails(error)
-----------------------------------------------------------------------------
\* The provider at position i was given up for a reason: not usable, a
\* permanent error, or as many retryable ones as the policy allows.
GivenUp(i) ==
    \/ ~Usable(chain[i]) /\ tries[i] = <<>>
    \/ tries[i] # <<>> /\ tries[i][Len(tries[i])] = "permanent"
    \/ Len(tries[i]) = Attempts

\* "Each provider is tried in order ... The first successful response is
\* returned. When all providers fail, the last error is propagated": nobody is
\* passed over or called out of turn, no call follows a success or a permanent
\* error, no provider gets more calls than the policy allows, and a failure
\* means that every provider was given up.
FallbackInOrder ==
    /\ \A i \in DOMAIN chain :
        /\ Len(tries[i]) <= Attempts
        /\ \A n \in 1..(Len(tries[i]) - 1) : tries[i][n] = "retryable"
        /\ i > at => tries[i] = <<>>
        /\ i < at => GivenUp(i) /\ \A n \in DOMAIN tries[i] : tries[i][n] # "response"
    /\ answer \notin {"none", "response"} /\ chain # <<>> => GivenUp(at)
    /\ answer \in Outcomes => tries[at] # <<>> /\ tries[at][Len(tries[at])] = answer
=============================================================================
