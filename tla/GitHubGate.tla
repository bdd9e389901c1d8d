----------------------------- MODULE GitHubGate -----------------------------
(***************************************************************************)
(* The rate-limit gate of the engine's HTTP client (githubapi.go): each    *)
(* request to api.github.com asks for the credential in force, is refused  *)
(* locally while GitHub's last refusal of that credential holds, and       *)
(* records GitHub's refusal when its answer is one.  The gate's lock is    *)
(* not held while a request is out, so requests overlap, and the credential*)
(* can be rotated under them.                                              *)
(*                                                                         *)
(* Time is a counter; a credential stands for its digest, the anonymous    *)
(* one included.  What asks, and what the answers hold, is VersionLookup's.*)
(***************************************************************************)
EXTENDS Integers

CONSTANTS
    Credentials,
    Refusals,    \* 403 and 429 answers: quota spent, its reset, whether there is a
                 \* Retry-After and its delay, phrase
    MinWait,     \* minRateLimitWait
    Horizon,     \* bound of the model: the last instant
    Happenings,
    MaxHappenings

ASSUME GateAssumption ==
    /\ Credentials # {}
    /\ Refusals \subseteq [spent : BOOLEAN, reset : Nat, after : BOOLEAN, retry : Nat,
                     phrase : BOOLEAN]
    /\ MinWait \in Nat \ {0}
    /\ Horizon \in Nat /\ MaxHappenings \in Nat

VARIABLES
    now,
    token,    \* what Config.GitHubToken answers
    held,     \* rateLimitGate.held: until when, 0 for no entry
    longest,  \* history: the latest end of a window GitHub named, by credential
    cut,      \* history: credentials whose window a later refusal shortened
    happened

gate == <<now, token, held, longest, cut>>

Happens(e) == e \in Happenings /\ happened < MaxHappenings /\ happened' = happened + 1

GateTypeOK ==
    /\ now \in Nat
    /\ token \in Credentials
    /\ held \in [Credentials -> Nat]
    /\ longest \in [Credentials -> Nat]
    /\ cut \subseteq Credentials

GateInit ==
    /\ now = 0
    /\ token \in Credentials
    /\ held = [c \in Credentials |-> 0]
    /\ longest = [c \in Credentials |-> 0]
    /\ cut = {}

\* refusal: the credential is held at this instant.
Held(c) == now < held[c]

Later(a, b) == IF a > b THEN a ELSE b

\* retryAfter: a date in the past stands for no delay.
RetryUntil(a) == now + a.retry

\* rateLimitFrom: a Retry-After, of no delay even, or the phrase is the secondary
\* limit; a 403 or 429 without either or a spent quota is no refusal.
Secondary(a) == a.after \/ a.phrase
IsRefusal(a) == a.spent \/ Secondary(a)

\* Its Reset: the quota's, if that is what is spent, or a later Retry-After; a
\* minute for a secondary limit that names no time, none for a primary one.
ResetOf(a) ==
    LET quota == IF a.spent THEN a.reset ELSE 0
        named == IF a.after THEN Later(RetryUntil(a), quota) ELSE quota
    IN  IF named = 0 /\ Secondary(a) THEN now + MinWait ELSE named

\* record holds until the Reset and for at least a minute.
Until(a) == Later(now + MinWait, ResetOf(a))

\* Mutant: the refusal is recorded for the credential in force when it arrives.
RecordNow(c, a) ==
    /\ held' = [d \in Credentials |->
                   IF d = token THEN Until(a) ELSE IF Held(d) THEN held[d] ELSE 0]
    /\ longest' = [longest EXCEPT ![c] = Later(@, Until(a))]
    /\ cut' = IF Until(a) < longest[c] THEN cut \cup {c} ELSE cut
    /\ UNCHANGED <<now, token>>

\* record: lapsed entries go, and the credential's entry is replaced, whatever it
\* was.
Record(c, a) ==
    /\ held' = [d \in Credentials |->
                   IF d = c THEN Until(a) ELSE IF Held(d) THEN held[d] ELSE 0]
    /\ longest' = [longest EXCEPT ![c] = Later(@, Until(a))]
    /\ cut' = IF Until(a) < longest[c] THEN cut \cup {c} ELSE cut
    /\ UNCHANGED <<now, token>>

\* Time is told apart only within a window.
Tick ==
    /\ now < Horizon
    /\ \E c \in Credentials : now < longest[c]
    /\ now' = now + 1
    /\ UNCHANGED <<token, held, longest, cut, happened>>

\* The consumer rotates the token, or removes it.
Rotate(c) ==
    /\ Happens("rotate")
    /\ token' = c /\ c # token
    /\ UNCHANGED <<now, held, longest, cut>>
=============================================================================
