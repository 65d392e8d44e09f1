---------------------------- MODULE Attestation ----------------------------
(***************************************************************************)
(* Challenge-response authentication (core/consensus.go, driven by main.go *)
(* and by Blockchain.Start) over the reputations of ValidatorManager, with *)
(* consensus rounds running beside it.                                     *)
(*                                                                         *)
(* A challenger is a goroutine that calls ChallengeValidator, lets the     *)
(* node sign, and calls VerifyResponse.  VerifyResponse copies the pending *)
(* challenge under ChallengeMu, releases it, and takes it again later to   *)
(* delete whatever is pending by then; the reputation changes under vm.mu. *)
(* Each stretch under one lock is a step.                                  *)
(*                                                                         *)
(* Challenges are numbered as they are issued, so their data are all       *)
(* different (32 random bytes) and, the timeout being constant, they       *)
(* expire in that order: challenge n has expired when n <= lapsed.         *)
(* An answer is the digest the node signed: challenge data and nonce, or   *)
(* the bare challenge data, or nothing.                                    *)
(***************************************************************************)
EXTENDS ValidatorManager, Sequences

CONSTANTS
  Challengers,    \* goroutines that authenticate validators, finitely many
  MaxChallenges,  \* bound: challenges issued
  Signing,        \* what nodes sign: "digest" (the tests), "raw" (main.go, Attest)
  MainLoop        \* those of main.go's loop, which skips inactive validators and cleans up
                  \* after itself; the others are Blockchain.Start's, which does neither

ASSUME AttestAssumption ==
  /\ IsFiniteSet(Challengers) /\ MaxChallenges \in Nat /\ MainLoop \subseteq Challengers
  /\ Signing \subseteq {"digest", "raw"}

NoChallenge == 0
ChallengeIds == 1 .. MaxChallenges

VARIABLES
  pending,     \* vm.PendingChallenges: validator to challenge
  issued,      \* challenges issued so far
  expected,    \* PendingChallenge.ExpectedNonce
  lapsed,      \* challenges whose expiry has passed
  nonce,       \* NodeAuthentication.AuthNonce
  owed,        \* penalty goroutines started by CleanupExpiredChallenges
  apc,         \* progress of a challenger,
  subject,     \*   the validator it authenticates,
  got,         \*   the challenge it was given,
  answer,      \*   the response it hands in,
  held,        \*   and the challenge VerifyResponse copied
  overlapped,  \* history: another challenger worked on the same validator meanwhile
  settled      \* history: how often a challenge was paid for

challengeVars == <<pending, issued, expected, lapsed, nonce, owed>>
challengerVars == <<apc, subject, got, answer, held, overlapped>>
attestVars == <<vmVars, challengeVars, challengerVars, settled>>

ChallengerSteps ==
  {"idle", "challenge", "sign", "fetch", "judge", "expired", "timely", "late", "verify",
   "reactivate", "nonce"}

RawDigest(n) == <<n>>
Digest(n, k) == <<n, k>>
NoAnswer == <<>>

AttestTypeOK ==
  /\ VMTypeOK
  /\ pending \in [Validators -> {NoChallenge} \cup ChallengeIds]
  /\ issued \in 0 .. MaxChallenges /\ lapsed \in 0 .. issued
  /\ expected \in [ChallengeIds -> Nat] /\ nonce \in [Validators -> Nat]
  /\ owed \in [Validators -> Nat]
  /\ apc \in [Challengers -> ChallengerSteps]
  /\ subject \in [Challengers -> Validators]
  /\ got \in [Challengers -> {NoChallenge} \cup ChallengeIds]
  /\ held \in [Challengers -> {NoChallenge} \cup ChallengeIds]
  /\ overlapped \in [Challengers -> BOOLEAN]
  /\ \A c \in Challengers :
       apc[c] \in {"judge", "expired", "timely", "late", "verify"} => held[c] \in ChallengeIds

AttestInit ==
  /\ VMInit
  /\ pending = [v \in Validators |-> NoChallenge]
  /\ issued = 0 /\ lapsed = 0
  /\ expected = [n \in ChallengeIds |-> 0]
  /\ nonce = [v \in Validators |-> 0]
  /\ owed = [v \in Validators |-> 0]
  /\ apc = [c \in Challengers |-> "idle"]
  /\ subject = [c \in Challengers |-> CHOOSE v \in Validators : TRUE]
  /\ got = [c \in Challengers |-> NoChallenge]
  /\ answer = [c \in Challengers |-> NoAnswer]
  /\ held = [c \in Challengers |-> NoChallenge]
  /\ overlapped = [c \in Challengers |-> FALSE]
  /\ settled = [n \in ChallengeIds |-> 0]

-----------------------------------------------------------------------------
Step(c, from, to) == apc[c] = from /\ apc' = [apc EXCEPT ![c] = to]

Done(c) ==
  /\ apc' = [apc EXCEPT ![c] = "idle"]
  /\ subject' = [subject EXCEPT ![c] = CHOOSE v \in Validators : TRUE]
  /\ got' = [got EXCEPT ![c] = NoChallenge]
  /\ answer' = [answer EXCEPT ![c] = NoAnswer]
  /\ held' = [held EXCEPT ![c] = NoChallenge]
  /\ overlapped' = [overlapped EXCEPT ![c] = FALSE]

Settle(n) == settled' = [settled EXCEPT ![n] = @ + 1]

\* A challenger turns to a validator.
ChooseValidator(c, v) ==
  LET others == {d \in Challengers \ {c} : apc[d] # "idle" /\ subject[d] = v} IN
  /\ Step(c, "idle", "challenge")
  /\ issued < MaxChallenges
  /\ c \in MainLoop => active[v]
  /\ subject' = [subject EXCEPT ![c] = v]
  /\ overlapped' = [d \in Challengers |->
       IF d = c THEN others # {} ELSE overlapped[d] \/ d \in others]
  /\ UNCHANGED <<vmVars, challengeVars, got, answer, held, settled>>

\* Mutant of ChallengeValidator: expects the nonce after the current one.
ChallengeExpectsNext(c) ==
  LET v == subject[c] IN
  /\ pending[v] = NoChallenge /\ issued < MaxChallenges
  /\ Step(c, "challenge", "sign")
  /\ issued' = issued + 1
  /\ pending' = [pending EXCEPT ![v] = issued']
  /\ expected' = [expected EXCEPT ![issued'] = nonce[v] + 1]
  /\ got' = [got EXCEPT ![c] = issued']
  /\ UNCHANGED <<vmVars, lapsed, nonce, owed, subject, answer, held, overlapped, settled>>

\* ChallengeValidator stores a new challenge, ...
ChallengeValidator(c) ==
  LET v == subject[c] IN
  /\ pending[v] = NoChallenge /\ issued < MaxChallenges
  /\ Step(c, "challenge", "sign")
  /\ issued' = issued + 1
  /\ pending' = [pending EXCEPT ![v] = issued']
  /\ expected' = [expected EXCEPT ![issued'] = nonce[v]]
  /\ got' = [got EXCEPT ![c] = issued']
  /\ UNCHANGED <<vmVars, lapsed, nonce, owed, subject, answer, held, overlapped, settled>>

\* ... unless one is pending, expired or not: then main.go hands in a nil
\* response "to potentially penalize", ...
VerifyNil(c) ==
  /\ pending[subject[c]] # NoChallenge
  /\ Step(c, "challenge", "fetch")
  /\ UNCHANGED <<vmVars, challengeVars, subject, got, answer, held, overlapped, settled>>

\* ... and Blockchain.Start goes on with the next validator.  (Or the bound
\* on challenges is reached.)
SkipValidator(c) ==
  /\ apc[c] = "challenge"
  /\ IF pending[subject[c]] # NoChallenge THEN c \notin MainLoop ELSE issued = MaxChallenges
  /\ Done(c)
  /\ UNCHANGED <<vmVars, challengeVars, settled>>

\* The node signs with the nonce it has by now.
SignData(c) ==
  /\ Step(c, "sign", "fetch")
  /\ \E kind \in Signing :
       answer' = [answer EXCEPT ![c] = IF kind = "digest"
                                       THEN Digest(got[c], nonce[subject[c]])
                                       ELSE RawDigest(got[c])]
  /\ UNCHANGED <<vmVars, challengeVars, subject, got, held, overlapped, settled>>

\* Signing fails: main.go hands in a nil response, Blockchain.Start leaves
\* the challenge pending.
SigningFails(c) ==
  /\ apc[c] = "sign"
  /\ IF c \in MainLoop
     THEN Step(c, "sign", "fetch") /\ UNCHANGED <<subject, got, answer, held, overlapped>>
     ELSE Done(c)
  /\ UNCHANGED <<vmVars, challengeVars, settled>>

\* VerifyResponse copies the pending challenge, ...
FetchChallenge(c) ==
  LET n == pending[subject[c]] IN
  /\ n # NoChallenge
  /\ Step(c, "fetch", "judge")
  /\ held' = [held EXCEPT ![c] = n]
  /\ UNCHANGED <<vmVars, challengeVars, subject, got, answer, overlapped, settled>>

NoPendingChallenge(c) ==
  /\ apc[c] = "fetch" /\ pending[subject[c]] = NoChallenge
  /\ Done(c)
  /\ UNCHANGED <<vmVars, challengeVars, settled>>

\* ... looks at the time, ...
CheckExpiry(c) ==
  /\ Step(c, "judge", IF held[c] <= lapsed THEN "expired" ELSE "timely")
  /\ UNCHANGED <<vmVars, challengeVars, subject, got, answer, held, overlapped, settled>>

\* Mutant of DropChallenge: the challenge stays pending while it is verified.
KeepChallenge(c) ==
  /\ apc[c] \in {"expired", "timely"}
  /\ apc' = [apc EXCEPT ![c] = IF @ = "expired" THEN "late" ELSE "verify"]
  /\ UNCHANGED <<vmVars, challengeVars, subject, got, answer, held, overlapped, settled>>

\* ... deletes what is pending for the validator, ...
DropChallenge(c) ==
  /\ apc[c] \in {"expired", "timely"}
  /\ apc' = [apc EXCEPT ![c] = IF @ = "expired" THEN "late" ELSE "verify"]
  /\ pending' = [pending EXCEPT ![subject[c]] = NoChallenge]
  /\ UNCHANGED <<vmVars, issued, expected, lapsed, nonce, owed, subject, got, answer, held,
                 overlapped, settled>>

\* ... and charges a late answer, ...
PenalizeLate(c) ==
  /\ apc[c] = "late"
  /\ UpdateReputation(subject[c], -5)
  /\ Settle(held[c])
  /\ Done(c)
  /\ UNCHANGED <<slashable, roundVars, challengeVars>>

Verified(c) == answer[c] = Digest(held[c], expected[held[c]])

\* ... charges a wrong one, ...
PenalizeInvalid(c) ==
  /\ apc[c] = "verify" /\ ~Verified(c)
  /\ UpdateReputation(subject[c], -10)
  /\ Settle(held[c])
  /\ Done(c)
  /\ UNCHANGED <<slashable, roundVars, challengeVars>>

\* ... or rewards a right one and, no longer under vm.mu, ...
RewardValid(c) ==
  /\ Step(c, "verify", "reactivate") /\ Verified(c)
  /\ UpdateReputation(subject[c], 2)
  /\ Settle(held[c])
  /\ UNCHANGED <<slashable, roundVars, challengeVars, subject, got, answer, held, overlapped>>

\* ... reactivates the validator, ...
Reactivate(c) ==
  /\ Step(c, "reactivate", "nonce")
  /\ active' = [active EXCEPT ![subject[c]] = TRUE]
  /\ UNCHANGED <<rep, score, slashable, roundVars, moved, challengeVars, subject, got, answer,
                 held, overlapped, settled>>

\* ... and at last moves its nonce on.
IncrementAuthNonce(c) ==
  /\ apc[c] = "nonce"
  /\ nonce' = [nonce EXCEPT ![subject[c]] = @ + 1]
  /\ Done(c)
  /\ UNCHANGED <<vmVars, pending, issued, expected, lapsed, owed, settled>>

\* time.Now passes the expiry of the oldest unexpired challenge.
Expire ==
  /\ lapsed < issued
  /\ lapsed' = lapsed + 1
  /\ UNCHANGED <<vmVars, pending, issued, expected, nonce, owed, challengerVars, settled>>

\* Mutant of Overdue: the challenge that expired last is kept.
OverdueButLast == {v \in Validators : pending[v] \in 1 .. lapsed - 1}

Overdue == {v \in Validators : pending[v] \in 1 .. lapsed}

\* main.go calls it when its challengers are done; without them, as a public
\* method, it may come at any time.
CleanupExpiredChallenges ==
  /\ \A c \in MainLoop : apc[c] = "idle"
  /\ Overdue # {}
  /\ pending' = [v \in Validators |-> IF v \in Overdue THEN NoChallenge ELSE pending[v]]
  /\ owed' = [v \in Validators |-> IF v \in Overdue THEN owed[v] + 1 ELSE owed[v]]
  /\ settled' = [n \in ChallengeIds |->
       IF \E v \in Overdue : pending[v] = n THEN settled[n] + 1 ELSE settled[n]]
  /\ UNCHANGED <<vmVars, issued, expected, lapsed, nonce, challengerVars>>

\* The goroutine that charges the validator of a challenge cleaned up.
PenalizeSilent(v) ==
  /\ owed[v] > 0
  /\ owed' = [owed EXCEPT ![v] = @ - 1]
  /\ UpdateReputation(v, -5)
  /\ UNCHANGED <<slashable, roundVars, pending, issued, expected, lapsed, nonce,
                 challengerVars, settled>>

-----------------------------------------------------------------------------
ChallengerStep(c) ==
  \/ ChallengeValidator(c) \/ VerifyNil(c) \/ SkipValidator(c)
  \/ SignData(c) \/ SigningFails(c)
  \/ FetchChallenge(c) \/ NoPendingChallenge(c)
  \/ CheckExpiry(c) \/ DropChallenge(c)
  \/ PenalizeLate(c) \/ PenalizeInvalid(c)
  \/ RewardValid(c) \/ Reactivate(c) \/ IncrementAuthNonce(c)

Attest ==
  \/ \E c \in Challengers : \/ ChallengerStep(c)
                            \/ \E v \in Validators : ChooseValidator(c, v)
  \/ Expire \/ CleanupExpiredChallenges
  \/ \E v \in Validators : PenalizeSilent(v)

Consensus == VMNext /\ UNCHANGED <<challengeVars, challengerVars, settled>>

AttestNext == Attest \/ Consensus

AttestSpec == AttestInit /\ [][AttestNext]_attestVars

-----------------------------------------------------------------------------
(***************************************************************************)
(* Properties.                                                             *)
(***************************************************************************)

\* A node that signs what VerifyResponse expects is turned down only if
\* another challenger worked on the same validator during the call: its nonce
\* moved between challenge and answer, or the challenge is someone else's.
RejectedOnlyIfOverlapped ==
  \A c \in Challengers :
    (apc[c] = "verify" /\ Len(answer[c]) = 2 /\ ~Verified(c)) => overlapped[c]

\* A challenge is paid for at most once by each challenger and once by the
\* cleanup, although VerifyResponse deletes it in another critical section than
\* the one it read it in.
SettlementsBounded ==
  \A n \in ChallengeIds : settled[n] <= Cardinality(Challengers) + 1

\* README.md, "Periodically challenge validators for authentication and update
\* their status": a validator that answers every challenge stays eligible.
HonestStayEligible == \A v \in Validators : active[v]

\* Rounds get on, time passes, so do the calls under way, the loop of main.go
\* cleans up after every round and the goroutines that cleaning starts run.
AttestFairness ==
  /\ VMFairness
  /\ \A c \in Challengers : WF_attestVars(ChallengerStep(c))
  /\ WF_attestVars(Expire) /\ WF_attestVars(CleanupExpiredChallenges)
  /\ \A v \in Validators : WF_attestVars(PenalizeSilent(v))

AttestFairSpec == AttestSpec /\ AttestFairness

\* No challenge stays pending for ever, which would bar its validator from
\* every later challenge, and the penalties of the cleanup arrive.
ChallengesDrain ==
  \A v \in Validators : pending[v] # NoChallenge ~> pending[v] = NoChallenge /\ owed[v] = 0
=============================================================================
