--------------------------- MODULE FormTokens_proofs ---------------------------
(***************************************************************************)
(* Proofs about FormTokens, for every number of processes, tokens and      *)
(* submissions, every setting and every difference of the clocks.          *)
(***************************************************************************)
EXTENDS FormTokens, FiniteSetTheorems, TLAPS

---------------------------------------------------------------------------
(* The inductive invariant.                                                *)

\* The phases between the first guards and the handler.
Pending == {"turnstile", "challenge", "consume"}

\* iat is the second of issue by the clock of the process that issued.
Rounded(k) ==
  /\ k.iat * Second <= k.issuedAt + Skew[k.by]
  /\ k.issuedAt + Skew[k.by] < k.iat * Second + Second

Issued ==
  \A t \in DOMAIN tokens :
    /\ Rounded(tokens[t])
    /\ tokens[t].exp = tokens[t].iat + ttlSeconds
    /\ tokens[t].boot <= boots[tokens[t].by]

\* A mark lasts as long as its token, of which there was a submission let through.
MarkIsGood(p, t) ==
  /\ t \in DOMAIN tokens
  /\ used[p][t].until = tokens[t].exp * Second
  /\ used[p][t].older \subseteq DOMAIN used[p] \ {t}
  /\ t \in through[p]

Marked == \A p \in Procs : \A t \in DOMAIN used[p] : MarkIsGood(p, t)

\* What is past the first guards has been verified, and still would be.
Verified ==
  \A s \in Slots :
    submissions[s].phase \in Pending => verify(submissions[s].proc, submissions[s].token)

\* A process remembers what it let through since it started, until it expires.
Remembers(p, t) ==
  /\ t \in DOMAIN tokens
  /\ ~setting.shared =>
       /\ tokens[t].by = p
       /\ tokens[t].boot = boots[p] => t \in DOMAIN used[p] \/ Remaining(p, t) <= 0

Remembered == \A p \in Procs : \A t \in through[p] : Remembers(p, t)

IInv == TypeOK /\ Issued /\ Marked /\ Verified /\ Remembered

---------------------------------------------------------------------------
(* Arithmetic.                                                             *)

LEMMA Division ==
  ASSUME NEW a \in Nat, NEW b \in Nat \ {0}
  PROVE  /\ a \div b \in Nat
         /\ (a \div b) * b <= a
         /\ a < (a \div b) * b + b
OBVIOUS

LEMMA Products ==
  ASSUME NEW a \in Nat, NEW b \in Nat, NEW c \in Nat
  PROVE  (a + b) * c = a * c + b * c /\ a * c \in Nat /\ b * c \in Nat
OBVIOUS

\* A token lives a second at least; beyond that, less than a second short of the window.
LEMMA TimeToLive ==
  ASSUME TypeOK
  PROVE  /\ setting.maxTime \in Nat \ {0}
         /\ ttlSeconds \in Nat \ {0}
         /\ ttlSeconds * Second \in Nat
         /\ setting.maxTime < Second => ttlSeconds * Second = Second
         /\ setting.maxTime < ttlSeconds * Second + Second
<1> DEFINE max == setting.maxTime
           d == max \div Second
<1>1. max \in Nat \ {0} /\ Second \in Nat \ {0}
  BY TimeAssumption DEF TypeOK, Setting
<1> HIDE DEF max
<1>2. d \in Nat /\ d * Second <= max /\ max < d * Second + Second
  BY <1>1, Division
<1>3. CASE max >= Second
  <2>1. ttlSeconds = d
    BY <1>3 DEF ttlSeconds, max
  <2>2. d # 0
    <3>1. SUFFICES ASSUME d = 0 PROVE FALSE
      OBVIOUS
    <3>2. d * Second = 0
      BY <3>1, <1>1
    <3> HIDE DEF d
    <3>3. QED
      BY <1>1, <1>2, <1>3, <3>2
  <2>3. d * Second \in Nat
    BY <1>1, <1>2
  <2> HIDE DEF d
  <2>4. QED
    BY <1>1, <1>2, <1>3, <2>1, <2>2, <2>3 DEF max
<1>4. CASE max < Second
  <2>1. ttlSeconds = 1
    BY <1>1, <1>4 DEF ttlSeconds, max
  <2>2. QED
    BY <1>1, <1>4, <2>1 DEF max
<1>5. QED
  BY <1>1, <1>3, <1>4

---------------------------------------------------------------------------
(* Submissions.                                                            *)

AnswerNames == {"trap", "invalid", "expired", "tooFast", "captcha", "challenge",
                "error", "used", "handled"}

LEMMA Shapes ==
  ASSUME NEW x \in Submission
  PROVE  /\ x.phase \in Pending => x.proc \in Procs /\ x.token \in Tokens
         /\ x.phase = "turnstile" =>
              x.widget \in Widgets \cup {NoWidget} /\ x.right \in BOOLEAN
         /\ x.phase = "challenge" => x.right \in BOOLEAN
         /\ x.phase \in {"idle", "turnstile", "challenge", "consume", "answered"}
         /\ x.phase = "idle" <=> x = Idle
BY DEF Submission, Idle, Pending

LEMMA AnsweredIsSubmission ==
  ASSUME NEW p \in Procs, NEW t \in Tokens, NEW a \in AnswerNames
  PROVE  /\ Answered(p, t, a) \in Submission
         /\ Answered(p, t, a).phase = "answered" /\ Answered(p, t, a).answer = a
         /\ Answered(p, t, a).token = t /\ Answered(p, t, a).proc = p
         /\ Answered(p, t, a).phase \notin Pending
BY DEF Answered, Submission, AnswerNames, Pending

LEMMA GuardsAnswer ==
  ASSUME NEW p, NEW t, NEW website
  PROVE  FirstGuards(p, t, website) \in {"trap", "invalid", "expired", "tooFast", "pass"}
BY DEF FirstGuards

\* What changes when a submission moves: no more than the widget tokens beside it.
SubmissionMoves(s, x) ==
  /\ submissions' = [submissions EXCEPT ![s] = x]
  /\ redeemed' \subseteq Widgets
  /\ UNCHANGED <<setting, now, boots, tokens, used, lastPruneAt, through>>

LEMMA MovesKeepIInv ==
  ASSUME IInv, NEW s \in Slots, NEW x \in Submission, SubmissionMoves(s, x),
         x.phase \in Pending => verify(x.proc, x.token)
  PROVE  IInv'
<1>1. TypeOK'
  BY DEF IInv, TypeOK, SubmissionMoves
<1>2. Issued' /\ Marked' /\ Remembered'
  BY DEF IInv, Issued, Rounded, ttlSeconds, Marked, MarkIsGood, Remembered, Remembers, Remaining, Clock,
         SubmissionMoves
<1>3. Verified'
  <2> SUFFICES ASSUME NEW o \in Slots, submissions'[o].phase \in Pending
               PROVE  verify(submissions[o].proc, submissions[o].token)'
    BY DEF Verified
  <2>1. submissions' = [submissions EXCEPT ![s] = x] /\ submissions \in [Slots -> Submission]
    BY DEF IInv, TypeOK, SubmissionMoves
  <2>2. CASE o = s
    <3>1. submissions'[o] = x
      BY <2>1, <2>2
    <3>2. verify(x.proc, x.token)
      BY <3>1
    <3>3. QED
      BY <3>1, <3>2 DEF verify, SubmissionMoves
  <2>3. CASE o # s
    <3>1. submissions'[o] = submissions[o]
      BY <2>1, <2>3
    <3>2. verify(submissions[o].proc, submissions[o].token)
      BY <3>1 DEF IInv, Verified
    <3>3. QED
      BY <3>1, <3>2 DEF verify, SubmissionMoves
  <2>4. QED
    BY <2>2, <2>3
<1>4. QED
  BY <1>1, <1>2, <1>3 DEF IInv

LEMMA SubmitMoves ==
  ASSUME IInv, NEW s \in Slots, NEW p \in Procs, NEW t \in Tokens, NEW website \in BOOLEAN,
         NEW widget \in Widgets \cup {NoWidget}, NEW right \in BOOLEAN,
         Submit(s, p, t, website, widget, right)
  PROVE  \E x \in Submission :
           SubmissionMoves(s, x) /\ (x.phase \in Pending => verify(x.proc, x.token))
<1> DEFINE guards == FirstGuards(p, t, website)
           pending == [phase |-> "turnstile", proc |-> p, token |-> t, widget |-> widget,
                       right |-> right]
<1>1. guards \in {"trap", "invalid", "expired", "tooFast", "pass"}
  BY GuardsAnswer
<1>2. /\ submissions' = [submissions EXCEPT ![s] =
           IF guards = "pass" THEN pending ELSE Answered(p, t, guards)]
      /\ UNCHANGED <<setting, now, boots, tokens, used, lastPruneAt, redeemed, through>>
  BY DEF Submit
<1>3. redeemed' \subseteq Widgets
  BY <1>2 DEF IInv, TypeOK
<1>4. CASE guards = "pass"
  <2>1. verify(p, t)
    BY <1>4 DEF FirstGuards
  <2>2. pending \in Submission /\ pending.proc = p /\ pending.token = t
    BY DEF Submission
  <2>3. SubmissionMoves(s, pending)
    BY <1>2, <1>3, <1>4 DEF SubmissionMoves
  <2>4. QED
    BY <2>1, <2>2, <2>3
<1>5. CASE guards # "pass"
  <2>1. guards \in AnswerNames
    BY <1>1, <1>5 DEF AnswerNames
  <2> HIDE DEF guards
  <2>2. Answered(p, t, guards) \in Submission /\ Answered(p, t, guards).phase \notin Pending
    BY <2>1, AnsweredIsSubmission
  <2>3. SubmissionMoves(s, Answered(p, t, guards))
    BY <1>2, <1>3, <1>5 DEF SubmissionMoves
  <2>4. QED
    BY <2>2, <2>3
<1>6. QED
  BY <1>4, <1>5
\* The submission in slot s, as it was verified.
LEMMA PendingSubmission ==
  ASSUME IInv, NEW s \in Slots, submissions[s].phase \in Pending
  PROVE  /\ submissions[s] \in Submission
         /\ submissions[s].proc \in Procs /\ submissions[s].token \in Tokens
         /\ verify(submissions[s].proc, submissions[s].token)
         /\ submissions[s].token \in DOMAIN tokens
<1>1. submissions[s] \in Submission
  BY DEF IInv, TypeOK
<1>2. submissions[s].proc \in Procs /\ submissions[s].token \in Tokens
  BY <1>1, Shapes
<1>3. verify(submissions[s].proc, submissions[s].token)
  BY DEF IInv, Verified
<1>4. QED
  BY <1>1, <1>2, <1>3 DEF verify

LEMMA AnswerMoves ==
  ASSUME IInv, NEW s \in Slots, NEW a \in AnswerNames, submissions[s].phase \in Pending,
         Answer(s, a), redeemed' \subseteq Widgets,
         UNCHANGED <<setting, now, boots, tokens, used, lastPruneAt, through>>
  PROVE  \E x \in Submission :
           SubmissionMoves(s, x) /\ (x.phase \in Pending => verify(x.proc, x.token))
<1> DEFINE x == Answered(submissions[s].proc, submissions[s].token, a)
<1>1. submissions[s].proc \in Procs /\ submissions[s].token \in Tokens
  BY PendingSubmission
<1>2. x \in Submission /\ x.phase \notin Pending
  BY <1>1, AnsweredIsSubmission
<1>3. submissions' = [submissions EXCEPT ![s] = x]
  BY DEF Answer
<1> HIDE DEF x
<1>4. SubmissionMoves(s, x)
  BY <1>3 DEF SubmissionMoves
<1>5. QED
  BY <1>2, <1>4

LEMMA ToChallengeMoves ==
  ASSUME IInv, NEW s \in Slots, In(s, "turnstile"), ToChallenge(s), redeemed' \subseteq Widgets,
         UNCHANGED <<setting, now, boots, tokens, used, lastPruneAt, through>>
  PROVE  \E x \in Submission :
           SubmissionMoves(s, x) /\ (x.phase \in Pending => verify(x.proc, x.token))
<1> DEFINE q == submissions[s]
           x == [phase |-> "challenge", proc |-> q.proc, token |-> q.token,
                 right |-> q.right]
<1>1. q \in Submission /\ q.proc \in Procs /\ q.token \in Tokens /\ verify(q.proc, q.token)
  BY PendingSubmission DEF In, Pending
<1>2. q.right \in BOOLEAN
  BY <1>1, Shapes DEF In
<1>3. x \in Submission /\ x.proc = q.proc /\ x.token = q.token
  BY <1>1, <1>2 DEF Submission
<1>4. submissions' = [submissions EXCEPT ![s] = x]
  BY DEF ToChallenge
<1> HIDE DEF x
<1>5. SubmissionMoves(s, x)
  BY <1>4 DEF SubmissionMoves
<1>6. QED
  BY <1>1, <1>3, <1>5

LEMMA ToConsumeMoves ==
  ASSUME IInv, NEW s \in Slots, In(s, "challenge"), ToConsume(s), redeemed' \subseteq Widgets,
         UNCHANGED <<setting, now, boots, tokens, used, lastPruneAt, through>>
  PROVE  \E x \in Submission :
           SubmissionMoves(s, x) /\ (x.phase \in Pending => verify(x.proc, x.token))
<1> DEFINE q == submissions[s]
           x == [phase |-> "consume", proc |-> q.proc, token |-> q.token]
<1>1. q \in Submission /\ q.proc \in Procs /\ q.token \in Tokens /\ verify(q.proc, q.token)
  BY PendingSubmission DEF In, Pending
<1>2. x \in Submission /\ x.proc = q.proc /\ x.token = q.token
  BY <1>1 DEF Submission
<1>3. submissions' = [submissions EXCEPT ![s] = x]
  BY DEF ToConsume
<1> HIDE DEF x
<1>4. SubmissionMoves(s, x)
  BY <1>3 DEF SubmissionMoves
<1>5. QED
  BY <1>1, <1>2, <1>4

\* The steps that move a submission and nothing else but the widget tokens.
Moves(s) ==
  TurnstileStep(s) \/ ChallengeStep(s) \/ ExpireLate(s) \/ Leave(s)

LEMMA AllMove ==
  ASSUME IInv, NEW s \in Slots, Moves(s)
  PROVE  \E x \in Submission :
           SubmissionMoves(s, x) /\ (x.phase \in Pending => verify(x.proc, x.token))
<1>0. redeemed \subseteq Widgets /\ submissions[s] \in Submission
  BY DEF IInv, TypeOK
<1>a. {"captcha", "challenge", "error", "expired"} \subseteq AnswerNames
  BY DEF AnswerNames
<1>1. CASE TurnstileOff(s)
  <2>1. redeemed' \subseteq Widgets
    BY <1>0, <1>1 DEF TurnstileOff
  <2>2. QED
    BY <1>1, <2>1, ToChallengeMoves DEF TurnstileOff
<1>2. CASE TurnstileMissing(s)
  <2>1. redeemed' \subseteq Widgets
    BY <1>0, <1>2 DEF TurnstileMissing
  <2>2. QED
    BY <1>2, <1>a, <2>1, AnswerMoves DEF TurnstileMissing, In, Pending
<1>3. CASE TurnstileVerdict(s) \/ TurnstileUnknown(s)
  <2>1. In(s, "turnstile") /\ submissions[s].widget # NoWidget
    BY <1>3 DEF TurnstileVerdict, TurnstileUnknown, Verifying
  <2>2. submissions[s].widget \in Widgets
    BY <1>0, <2>1, Shapes DEF In
  <2>3. redeemed' \subseteq Widgets
    BY <1>0, <1>3, <2>2 DEF TurnstileVerdict, TurnstileUnknown
  <2>4. ToChallenge(s) \/ Answer(s, "captcha")
    BY <1>3 DEF TurnstileVerdict, TurnstileUnknown
  <2>5. UNCHANGED <<setting, now, boots, tokens, used, lastPruneAt, through>>
    BY <1>3 DEF TurnstileVerdict, TurnstileUnknown
  <2>6. CASE ToChallenge(s)
    BY <2>1, <2>3, <2>5, <2>6, ToChallengeMoves
  <2>7. CASE Answer(s, "captcha")
    BY <1>a, <2>1, <2>3, <2>5, <2>7, AnswerMoves DEF In, Pending
  <2>8. QED
    BY <2>4, <2>6, <2>7
<1>4. CASE ChallengeNone(s)
  <2>1. redeemed' \subseteq Widgets
    BY <1>0, <1>4 DEF ChallengeNone
  <2>2. QED
    BY <1>4, <2>1, ToConsumeMoves DEF ChallengeNone
<1>5. CASE ChallengeAsked(s)
  <2>1. redeemed' \subseteq Widgets
    BY <1>0, <1>5 DEF ChallengeAsked
  <2>2. In(s, "challenge") /\ (ToConsume(s) \/ Answer(s, "challenge"))
        /\ UNCHANGED <<setting, now, boots, tokens, used, lastPruneAt, through>>
    BY <1>5 DEF ChallengeAsked
  <2>3. CASE ToConsume(s)
    BY <2>1, <2>2, <2>3, ToConsumeMoves
  <2>4. CASE Answer(s, "challenge")
    BY <1>a, <2>1, <2>2, <2>4, AnswerMoves DEF In, Pending
  <2>5. QED
    BY <2>2, <2>3, <2>4
<1>6. CASE ChallengeImpossible(s)
  <2>1. redeemed' \subseteq Widgets
    BY <1>0, <1>6 DEF ChallengeImpossible
  <2>2. PICK a \in {"challenge", "error"} : Answer(s, a)
    BY <1>6 DEF ChallengeImpossible
  <2>3. QED
    BY <1>6, <1>a, <2>1, <2>2, AnswerMoves DEF ChallengeImpossible, In, Pending
<1>7. CASE ExpireLate(s)
  <2>1. redeemed' \subseteq Widgets
    BY <1>0, <1>7 DEF ExpireLate
  <2>2. QED
    BY <1>7, <1>a, <2>1, AnswerMoves DEF ExpireLate, In, Pending
<1>8. CASE Leave(s)
  <2>1. redeemed' \subseteq Widgets
    BY <1>0, <1>8 DEF Leave
  <2>2. SubmissionMoves(s, Idle)
    BY <1>8, <2>1 DEF Leave, SubmissionMoves
  <2>3. Idle \in Submission /\ Idle.phase \notin Pending
    BY DEF Submission, Idle, Pending
  <2>4. QED
    BY <2>2, <2>3
<1>9. QED
  BY <1>1, <1>2, <1>3, <1>4, <1>5, <1>6, <1>7, <1>8
  DEF Moves, TurnstileStep, ChallengeStep
---------------------------------------------------------------------------
(* Issue, time and restarts.                                               *)

LEMMA ClockIsNat ==
  ASSUME TypeOK, NEW p \in Procs
  PROVE  Clock(p) \in Nat /\ Clock(p) = now + Skew[p] /\ Skew[p] \in Nat /\ now \in Nat
BY ProcAssumption, TimeAssumption DEF TypeOK, Clock

LEMMA RemainingIsInt ==
  ASSUME TypeOK, NEW p \in Procs, NEW t \in DOMAIN tokens
  PROVE  /\ Remaining(p, t) \in Int
         /\ tokens[t].exp * Second \in Nat
         /\ Clock(p) + Remaining(p, t) = tokens[t].exp * Second
         /\ tokens[t] \in FormToken
<1>1. tokens[t] \in FormToken
  BY DEF TypeOK
<1>2. tokens[t].exp \in Nat
  BY <1>1 DEF FormToken
<1>3. tokens[t].exp * Second \in Nat
  BY <1>2, TimeAssumption
<1>4. QED
  BY <1>1, <1>3, ClockIsNat DEF Remaining

LEMMA PayloadFacts ==
  ASSUME IInv, NEW p \in Procs
  PROVE  /\ Payload(p) \in FormToken
         /\ Rounded(Payload(p))
         /\ Payload(p).exp = Payload(p).iat + ttlSeconds
         /\ Payload(p).boot <= boots[Payload(p).by]
<1> DEFINE iat == Clock(p) \div Second
<1>1. Clock(p) \in Nat /\ Clock(p) = now + Skew[p] /\ now \in 0 .. Horizon /\ boots[p] \in Nat
  BY ClockIsNat, StoreAssumption DEF IInv, TypeOK
<1>2. iat \in Nat /\ iat * Second <= Clock(p) /\ Clock(p) < iat * Second + Second
  BY <1>1, Division, TimeAssumption
<1>3. iat + ttlSeconds \in Nat
  BY <1>2, TimeToLive DEF IInv
<1>4. Payload(p) = [iat |-> iat, exp |-> iat + ttlSeconds, by |-> p, boot |-> boots[p],
                    issuedAt |-> now]
  BY DEF Payload
<1> HIDE DEF iat
<1>5. Payload(p) \in FormToken
  BY <1>1, <1>2, <1>3, <1>4 DEF FormToken
<1>6. Rounded(Payload(p))
  BY <1>1, <1>2, <1>4 DEF Rounded
<1>7. Payload(p).exp = Payload(p).iat + ttlSeconds
  BY <1>4
<1>8. Payload(p).boot <= boots[Payload(p).by]
  BY <1>1, <1>4
<1>9. QED
  BY <1>5, <1>6, <1>7, <1>8

LEMMA IssueKeepsIInv ==
  ASSUME IInv, NEW p \in Procs, NEW t \in Tokens, issue(p, t)
  PROVE  IInv'
<1>1. /\ t \notin DOMAIN tokens
      /\ tokens' = [u \in DOMAIN tokens \cup {t} |-> IF u = t THEN Payload(p) ELSE tokens[u]]
      /\ UNCHANGED <<setting, now, boots, used, lastPruneAt, submissions, redeemed, through>>
  BY DEF issue
<1>2. DOMAIN tokens' = DOMAIN tokens \cup {t} /\ tokens'[t] = Payload(p)
      /\ \A u \in DOMAIN tokens : tokens'[u] = tokens[u]
  BY <1>1
<1>3. /\ Payload(p) \in FormToken /\ Rounded(Payload(p))
      /\ Payload(p).exp = Payload(p).iat + ttlSeconds
      /\ Payload(p).boot <= boots[Payload(p).by]
  BY PayloadFacts
<1>4. TypeOK'
  <2>1. tokens' \in [DOMAIN tokens' -> FormToken] /\ DOMAIN tokens' \subseteq Tokens
    BY <1>1, <1>3 DEF IInv, TypeOK
  <2>2. QED
    BY <1>1, <2>1 DEF IInv, TypeOK
<1>5. Issued'
  <2> SUFFICES ASSUME NEW u \in DOMAIN tokens'
               PROVE  /\ Rounded(tokens'[u])
                      /\ tokens'[u].exp = tokens'[u].iat + ttlSeconds
                      /\ tokens'[u].boot <= boots[tokens'[u].by]
    BY <1>1 DEF Issued, Rounded, ttlSeconds
  <2>1. CASE u = t
    BY <1>2, <1>3, <2>1
  <2>2. CASE u # t
    BY <1>2, <2>2 DEF IInv, Issued
  <2>3. QED
    BY <2>1, <2>2
<1>6. Marked'
  BY <1>1, <1>2 DEF IInv, Marked, MarkIsGood
<1>7. Verified'
  BY <1>1, <1>2 DEF IInv, Verified, verify
<1>8. Remembered'
  BY <1>1, <1>2 DEF IInv, Remembered, Remembers, Remaining, Clock
<1>9. QED
  BY <1>4, <1>5, <1>6, <1>7, <1>8 DEF IInv

LEMMA TickKeepsIInv ==
  ASSUME IInv, Tick
  PROVE  IInv'
<1>1. /\ now' = now + 1 /\ now < Horizon
      /\ UNCHANGED <<setting, boots, tokens, used, lastPruneAt, submissions, redeemed, through>>
  BY DEF Tick
<1>2. TypeOK'
  BY <1>1, TimeAssumption DEF IInv, TypeOK
<1>3. Issued' /\ Marked' /\ Verified'
  BY <1>1 DEF IInv, Issued, Rounded, ttlSeconds, Marked, MarkIsGood, Verified, verify
<1>4. Remembered'
  <2> SUFFICES ASSUME NEW p \in Procs, NEW t \in through[p]
               PROVE  Remembers(p, t)'
    BY <1>1 DEF Remembered
  <2>1. Remembers(p, t)
    BY DEF IInv, Remembered
  <2>2. t \in DOMAIN tokens
    BY <2>1 DEF Remembers
  <2>3. Remaining(p, t) \in Int /\ Remaining(p, t)' = Remaining(p, t) - 1
    BY <1>1, <1>2, <2>2, RemainingIsInt, ClockIsNat, TimeAssumption
       DEF Remaining, Clock, IInv
  <2>4. Remaining(p, t) <= 0 => Remaining(p, t)' <= 0
    BY <2>3
  <2>5. QED
    BY <1>1, <2>1, <2>4 DEF Remembers
<1>5. QED
  BY <1>2, <1>3, <1>4 DEF IInv

LEMMA RestartKeepsIInv ==
  ASSUME IInv, NEW p \in Procs, Restart(p)
  PROVE  IInv'
<1>1. /\ boots' = [boots EXCEPT ![p] = @ + 1] /\ boots[p] < MaxRestarts
      /\ used' = [used EXCEPT ![p] = [t \in {} |-> Idle]]
      /\ lastPruneAt' = [lastPruneAt EXCEPT ![p] = 0 - PruneInterval]
      /\ submissions' = [s \in Slots |->
           IF ~In(s, "idle") /\ submissions[s].proc = p THEN Idle ELSE submissions[s]]
      /\ UNCHANGED <<setting, now, tokens, redeemed, through>>
  BY DEF Restart
<1>2. boots \in [Procs -> 0 .. MaxRestarts] /\ MaxRestarts \in Nat
  BY StoreAssumption DEF IInv, TypeOK
<1>3. /\ boots'[p] = boots[p] + 1
      /\ \A o \in Procs \ {p} : boots'[o] = boots[o]
      /\ \A o \in Procs : boots[o] \in Nat /\ boots[o] <= boots'[o]
  BY <1>1, <1>2
<1>4. /\ DOMAIN used' = Procs /\ DOMAIN used'[p] = {}
      /\ \A o \in Procs \ {p} : used'[o] = used[o]
  BY <1>1 DEF IInv, TypeOK
<1>5. TypeOK'
  <2>1. boots' \in [Procs -> 0 .. MaxRestarts]
    BY <1>1, <1>2
  <2>2. \A o \in Procs : DOMAIN used'[o] \subseteq Tokens /\ used'[o] \in [DOMAIN used'[o] -> Mark]
    <3>1. used'[p] \in [DOMAIN used'[p] -> Mark]
      BY <1>1, <1>4 DEF IInv, TypeOK
    <3>2. QED
      BY <1>4, <3>1 DEF IInv, TypeOK
  <2>3. submissions' \in [Slots -> Submission]
    BY <1>1 DEF IInv, TypeOK, Submission
  <2>4. lastPruneAt' \in [Procs -> Int]
    BY <1>1, TimeAssumption DEF IInv, TypeOK
  <2>5. QED
    BY <1>1, <1>4, <2>1, <2>2, <2>3, <2>4 DEF IInv, TypeOK
<1>6. Issued'
  <2> SUFFICES ASSUME NEW t \in DOMAIN tokens
               PROVE  /\ Rounded(tokens[t])
                      /\ tokens[t].exp = tokens[t].iat + ttlSeconds
                      /\ tokens[t].boot <= boots'[tokens[t].by]
    BY <1>1 DEF Issued, Rounded, ttlSeconds
  <2>1. tokens[t] \in FormToken
    BY DEF IInv, TypeOK
  <2>2. tokens[t].by \in Procs /\ tokens[t].boot \in Nat
    BY <2>1 DEF FormToken
  <2>3. tokens[t].boot <= boots[tokens[t].by]
    BY DEF IInv, Issued
  <2>4. boots'[tokens[t].by] \in Nat
    BY <1>2, <1>3, <2>2
  <2>5. tokens[t].boot <= boots'[tokens[t].by]
    BY <1>3, <2>2, <2>3, <2>4
  <2>6. QED
    BY <2>5 DEF IInv, Issued
<1>7. Marked'
  BY <1>1, <1>4 DEF IInv, Marked, MarkIsGood
<1>8. Verified'
  <2> SUFFICES ASSUME NEW o \in Slots, submissions'[o].phase \in Pending
               PROVE  verify(submissions[o].proc, submissions[o].token)'
    BY DEF Verified
  <2>1. submissions'[o] = submissions[o] /\ (In(o, "idle") \/ submissions[o].proc # p)
    BY <1>1 DEF Pending, Idle
  <2>2. submissions[o].phase \in Pending
    BY <2>1
  <2>3. submissions[o].proc \in Procs \ {p} /\ verify(submissions[o].proc, submissions[o].token)
    BY <2>1, <2>2, PendingSubmission DEF In, Pending
  <2>4. QED
    BY <1>1, <1>3, <2>1, <2>3 DEF verify
<1>9. Remembered'
  <2> SUFFICES ASSUME NEW o \in Procs, NEW t \in through[o]
               PROVE  Remembers(o, t)'
    BY <1>1 DEF Remembered
  <2>1. Remembers(o, t)
    BY DEF IInv, Remembered
  <2>2. t \in DOMAIN tokens
    BY <2>1 DEF Remembers
  <2>3. tokens[t].boot <= boots[tokens[t].by] /\ tokens[t].boot \in Nat
    BY <2>2 DEF IInv, Issued, TypeOK, FormToken
  <2>4. CASE o = p
    <3>1. ~setting.shared => tokens[t].by = p
      BY <2>1, <2>4 DEF Remembers
    <3>2. ~setting.shared => tokens[t].boot # boots'[p]
      BY <1>3, <2>3, <3>1
    <3>3. QED
      BY <1>1, <2>2, <2>4, <3>1, <3>2 DEF Remembers
  <2>5. CASE o # p
    BY <1>1, <1>3, <1>4, <2>1, <2>5 DEF Remembers, Remaining, Clock
  <2>6. QED
    BY <2>4, <2>5
<1>10. QED
  BY <1>5, <1>6, <1>7, <1>8, <1>9 DEF IInv

---------------------------------------------------------------------------
(* The store.                                                              *)

GoodMap(m) ==
  /\ DOMAIN m \subseteq DOMAIN tokens
  /\ m \in [DOMAIN m -> Mark]
  /\ \A t \in DOMAIN m :
       m[t].until = tokens[t].exp * Second /\ m[t].older \subseteq DOMAIN m \ {t}

LEMMA UsedIsGood ==
  ASSUME IInv, NEW p \in Procs
  PROVE  GoodMap(used[p]) /\ DOMAIN used[p] \subseteq through[p]
BY DEF IInv, TypeOK, Marked, MarkIsGood, GoodMap

LEMMA DeleteKeepsGood ==
  ASSUME NEW m, GoodMap(m), NEW S
  PROVE  GoodMap(Delete(m, S)) /\ DOMAIN Delete(m, S) = DOMAIN m \ S
<1>1. /\ DOMAIN Delete(m, S) = DOMAIN m \ S
      /\ \A t \in DOMAIN m \ S :
           Delete(m, S)[t] = [until |-> m[t].until, older |-> m[t].older \ S]
      /\ Delete(m, S) = [t \in DOMAIN m \ S |-> Delete(m, S)[t]]
  BY DEF Delete
<1>2. \A t \in DOMAIN m \ S :
        /\ Delete(m, S)[t] \in Mark
        /\ Delete(m, S)[t].until = m[t].until
        /\ Delete(m, S)[t].older = m[t].older \ S
  BY <1>1 DEF GoodMap, Mark
<1>3. QED
  BY <1>1, <1>2 DEF GoodMap

LEMMA SetKeepsGood ==
  ASSUME TypeOK, NEW m, GoodMap(m), NEW t \in DOMAIN tokens, t \notin DOMAIN m,
         tokens[t].exp * Second \in Nat
  PROVE  /\ GoodMap(Set(m, t, tokens[t].exp * Second))
         /\ DOMAIN Set(m, t, tokens[t].exp * Second) = DOMAIN m \cup {t}
<1> DEFINE full == Set(m, t, tokens[t].exp * Second)
<1>1. /\ DOMAIN full = DOMAIN m \cup {t}
      /\ \A u \in DOMAIN m : full[u] = m[u]
      /\ full[t] = [until |-> tokens[t].exp * Second, older |-> DOMAIN m]
      /\ full = [u \in DOMAIN full |-> full[u]]
  BY DEF Set
<1>2. DOMAIN m \subseteq Tokens
  BY DEF GoodMap, TypeOK
<1>3. full[t] \in Mark
  BY <1>1, <1>2 DEF Mark
<1> HIDE DEF full
<1>4. GoodMap(full)
  BY <1>1, <1>3 DEF GoodMap
<1>5. QED
  BY <1>1, <1>4 DEF full

\* A sweep forgets only tokens that have expired.
LEMMA SweptFacts ==
  ASSUME IInv, NEW p \in Procs
  PROVE  /\ GoodMap(Swept(p))
         /\ DOMAIN Swept(p) \subseteq DOMAIN used[p]
         /\ \A t \in DOMAIN used[p] \ DOMAIN Swept(p) : Remaining(p, t) <= 0
<1> DEFINE dead == {t \in DOMAIN used[p] : used[p][t].until <= Clock(p)}
<1>1. GoodMap(used[p])
  BY UsedIsGood
<1>2. CASE SweepDue(p)
  <2>1. Swept(p) = Delete(used[p], dead)
    BY <1>2 DEF Swept
  <2> HIDE DEF dead
  <2>2. GoodMap(Swept(p)) /\ DOMAIN Swept(p) = DOMAIN used[p] \ dead
    BY <1>1, <2>1, DeleteKeepsGood
  <2>3. ASSUME NEW t \in dead PROVE Remaining(p, t) <= 0
    <3>1. t \in DOMAIN tokens /\ tokens[t].exp * Second <= Clock(p)
      BY <1>1 DEF GoodMap, dead
    <3>2. Clock(p) \in Nat /\ tokens[t].exp * Second \in Nat
      BY <3>1, ClockIsNat, RemainingIsInt DEF IInv
    <3>3. QED
      BY <3>1, <3>2 DEF Remaining
  <2>4. QED
    BY <2>2, <2>3
<1>3. CASE ~SweepDue(p)
  BY <1>1, <1>3 DEF Swept
<1>4. QED
  BY <1>2, <1>3

LEMMA PruneNoted ==
  ASSUME TypeOK, NEW p \in Procs, NotePrune(p)
  PROVE  lastPruneAt' \in [Procs -> Int]
BY ClockIsNat DEF TypeOK, NotePrune

\* A step of the store at p, which answers a submission there.
LEMMA StoreKeepsIInv ==
  ASSUME IInv, NEW s \in Slots, NEW a \in AnswerNames, NEW n, NEW T,
         In(s, "consume"), Answer(s, a), NotePrune(submissions[s].proc),
         used' = [used EXCEPT ![submissions[s].proc] = n],
         through' = [through EXCEPT ![submissions[s].proc] = T],
         GoodMap(n), DOMAIN n \subseteq T,
         \A t \in T :
           /\ t \in DOMAIN tokens
           /\ ~setting.shared =>
                /\ tokens[t].by = submissions[s].proc
                /\ tokens[t].boot = boots[submissions[s].proc]
                     => t \in DOMAIN n \/ Remaining(submissions[s].proc, t) <= 0,
         UNCHANGED <<setting, now, boots, tokens, redeemed>>
  PROVE  IInv'
<1> DEFINE p == submissions[s].proc
           x == Answered(p, submissions[s].token, a)
<1>1. p \in Procs /\ submissions[s].token \in Tokens
  BY PendingSubmission DEF In, Pending
<1>2. x \in Submission /\ x.phase \notin Pending
  BY <1>1, AnsweredIsSubmission
<1>3. submissions' = [submissions EXCEPT ![s] = x] /\ submissions' \in [Slots -> Submission]
  BY <1>2 DEF Answer, IInv, TypeOK
<1>4. /\ DOMAIN used' = Procs /\ used'[p] = n
      /\ \A o \in Procs \ {p} : used'[o] = used[o]
  BY <1>1 DEF IInv, TypeOK
<1>5. /\ through'[p] = T
      /\ \A o \in Procs \ {p} : through'[o] = through[o]
  BY <1>1 DEF IInv, TypeOK
<1>6. TypeOK'
  <2>1. DOMAIN tokens \subseteq Tokens
    BY DEF IInv, TypeOK
  <2>2. through' \in [Procs -> SUBSET Tokens]
    BY <1>1, <2>1 DEF IInv, TypeOK
  <2>3. \A o \in Procs :
          DOMAIN used'[o] \subseteq Tokens /\ used'[o] \in [DOMAIN used'[o] -> Mark]
    BY <1>4, <2>1 DEF IInv, TypeOK, GoodMap
  <2>4. lastPruneAt' \in [Procs -> Int]
    BY <1>1, PruneNoted DEF IInv
  <2>5. QED
    BY <1>3, <1>4, <2>2, <2>3, <2>4 DEF IInv, TypeOK
<1>7. Issued'
  BY DEF IInv, Issued, Rounded, ttlSeconds
<1>8. Marked'
  <2> SUFFICES ASSUME NEW o \in Procs, NEW t \in DOMAIN used'[o]
               PROVE  /\ t \in DOMAIN tokens
                      /\ used'[o][t].until = tokens[t].exp * Second
                      /\ used'[o][t].older \subseteq DOMAIN used'[o] \ {t}
                      /\ t \in through'[o]
    BY DEF Marked, MarkIsGood
  <2>1. CASE o = p
    BY <1>4, <1>5, <2>1 DEF GoodMap
  <2>2. CASE o # p
    BY <1>4, <1>5, <2>2 DEF IInv, Marked, MarkIsGood
  <2>3. QED
    BY <2>1, <2>2
<1>9. Verified'
  <2> SUFFICES ASSUME NEW o \in Slots, submissions'[o].phase \in Pending
               PROVE  verify(submissions[o].proc, submissions[o].token)'
    BY DEF Verified
  <2>1. submissions'[o] = submissions[o]
    BY <1>2, <1>3 DEF IInv, TypeOK
  <2>2. verify(submissions[o].proc, submissions[o].token)
    BY <2>1 DEF IInv, Verified
  <2>3. QED
    BY <2>1, <2>2 DEF verify
<1>10. Remembered'
  <2> SUFFICES ASSUME NEW o \in Procs, NEW t \in through'[o]
               PROVE  Remembers(o, t)'
    BY DEF Remembered
  <2>1. Remaining(o, t)' = Remaining(o, t)
    BY DEF Remaining, Clock
  <2>2. CASE o = p
    BY <1>4, <1>5, <2>1, <2>2 DEF Remembers
  <2>3. CASE o # p
    <3>1. Remembers(o, t)
      BY <1>5, <2>3 DEF IInv, Remembered
    <3>2. QED
      BY <1>4, <2>1, <2>3, <3>1 DEF Remembers
  <2>4. QED
    BY <2>2, <2>3
<1>11. QED
  BY <1>6, <1>7, <1>8, <1>9, <1>10 DEF IInv

\* The store when a submission has been let through.
Filled(p, t) == Set(Swept(p), t, tokens[t].exp * Second)

LEMMA LetThroughFacts ==
  ASSUME IInv, NEW s \in Slots, NEW p, NEW t,
         p = submissions[s].proc, t = submissions[s].token, LetThrough(s)
  PROVE  /\ p \in Procs /\ t \in DOMAIN tokens /\ verify(p, t) /\ Remaining(p, t) > 0
         /\ t \notin DOMAIN Swept(p) /\ t \notin DOMAIN used[p]
         /\ used' = [used EXCEPT ![p] = Delete(Filled(p, t), Excess(Filled(p, t)))]
         /\ through' = [through EXCEPT ![p] = (@ \cup {t}) \ Excess(Filled(p, t))]
         /\ GoodMap(Filled(p, t))
         /\ DOMAIN Filled(p, t) = DOMAIN Swept(p) \cup {t}
<1>1. p \in Procs /\ t \in DOMAIN tokens /\ verify(p, t)
  BY PendingSubmission DEF LetThrough, In, Pending
<1>2. Remaining(p, t) > 0 /\ markUsed(p, t, Remaining(p, t))
  BY DEF LetThrough
<1>3. /\ Clock(p) + Remaining(p, t) = tokens[t].exp * Second
      /\ tokens[t].exp * Second \in Nat /\ Clock(p) \in Nat /\ Remaining(p, t) \in Int
  BY <1>1, RemainingIsInt, ClockIsNat DEF IInv
<1>4. /\ ~AlreadyUsed(Swept(p), p, t)
      /\ used' = [used EXCEPT ![p] = Delete(Filled(p, t), Excess(Filled(p, t)))]
      /\ through' = [through EXCEPT ![p] = (@ \cup {t}) \ Excess(Filled(p, t))]
  BY <1>2, <1>3 DEF markUsed, Filled
<1>5. /\ GoodMap(Swept(p)) /\ DOMAIN Swept(p) \subseteq DOMAIN used[p]
      /\ \A u \in DOMAIN used[p] \ DOMAIN Swept(p) : Remaining(p, u) <= 0
  BY <1>1, SweptFacts
<1>6. t \notin DOMAIN Swept(p)
  <2>1. SUFFICES ASSUME t \in DOMAIN Swept(p) PROVE FALSE
    OBVIOUS
  <2>2. Swept(p)[t].until > Clock(p)
    BY <1>2, <1>3, <1>5, <2>1 DEF GoodMap
  <2>3. QED
    BY <1>4, <2>1, <2>2 DEF AlreadyUsed
<1>7. t \notin DOMAIN used[p]
  BY <1>2, <1>3, <1>5, <1>6
<1>8. GoodMap(Filled(p, t)) /\ DOMAIN Filled(p, t) = DOMAIN Swept(p) \cup {t}
  BY <1>1, <1>3, <1>5, <1>6, SetKeepsGood DEF Filled, IInv
<1>9. QED
  BY <1>1, <1>2, <1>4, <1>6, <1>7, <1>8

LEMMA LetThroughKeepsIInv ==
  ASSUME IInv, NEW s \in Slots, LetThrough(s)
  PROVE  IInv'
<1> DEFINE p == submissions[s].proc
           t == submissions[s].token
           E == Excess(Filled(p, t))
           n == Delete(Filled(p, t), E)
           T == (through[p] \cup {t}) \ E
<1>1. /\ p \in Procs /\ t \in DOMAIN tokens /\ verify(p, t)
      /\ used' = [used EXCEPT ![p] = n]
      /\ through' = [through EXCEPT ![p] = (@ \cup {t}) \ E]
      /\ GoodMap(Filled(p, t)) /\ DOMAIN Filled(p, t) = DOMAIN Swept(p) \cup {t}
  BY LetThroughFacts
<1>2. through' = [through EXCEPT ![p] = T]
  BY <1>1
<1>3. /\ In(s, "consume") /\ Answer(s, "handled") /\ NotePrune(p)
      /\ UNCHANGED <<setting, now, boots, tokens, redeemed>>
  BY DEF LetThrough
<1>4. GoodMap(n) /\ DOMAIN n = (DOMAIN Swept(p) \cup {t}) \ E
  BY <1>1, DeleteKeepsGood
<1>5. /\ DOMAIN Swept(p) \subseteq DOMAIN used[p]
      /\ \A u \in DOMAIN used[p] \ DOMAIN Swept(p) : Remaining(p, u) <= 0
  BY <1>1, SweptFacts
<1>6. DOMAIN used[p] \subseteq through[p]
  BY <1>1, UsedIsGood
<1>7. ASSUME NEW u \in T
      PROVE  /\ u \in DOMAIN tokens
             /\ ~setting.shared =>
                  /\ tokens[u].by = p
                  /\ tokens[u].boot = boots[p] => u \in DOMAIN n \/ Remaining(p, u) <= 0
  <2>1. CASE u = t
    BY <1>1, <1>4, <1>7, <2>1 DEF verify
  <2>2. CASE u # t
    <3>1. Remembers(p, u) /\ u \notin E
      BY <1>1, <1>7, <2>2 DEF IInv, Remembered
    <3>2. u \in DOMAIN used[p] => u \in DOMAIN n \/ Remaining(p, u) <= 0
      BY <1>4, <1>5, <3>1
    <3>3. QED
      BY <3>1, <3>2 DEF Remembers
  <2>3. QED
    BY <2>1, <2>2
<1>8. "handled" \in AnswerNames
  BY DEF AnswerNames
<1>9. DOMAIN n \subseteq T
  BY <1>4, <1>5, <1>6
<1> HIDE DEF n, T
<1>10. QED
  BY <1>1, <1>2, <1>3, <1>4, <1>7, <1>8, <1>9, StoreKeepsIInv

LEMMA RefuseUsedKeepsIInv ==
  ASSUME IInv, NEW s \in Slots, RefuseUsed(s)
  PROVE  IInv'
<1> DEFINE p == submissions[s].proc
           n == Swept(p)
           T == through[p]
<1>1. p \in Procs
  BY PendingSubmission DEF RefuseUsed, In, Pending
<1>2. /\ In(s, "consume") /\ Answer(s, "used") /\ NotePrune(p)
      /\ used' = [used EXCEPT ![p] = n]
      /\ UNCHANGED <<setting, now, boots, tokens, redeemed, through>>
  BY DEF RefuseUsed, SweepOnly
<1>3. through' = [through EXCEPT ![p] = T]
  BY <1>1, <1>2 DEF IInv, TypeOK
<1>4. /\ GoodMap(n) /\ DOMAIN n \subseteq DOMAIN used[p]
      /\ \A u \in DOMAIN used[p] \ DOMAIN n : Remaining(p, u) <= 0
  BY <1>1, SweptFacts
<1>5. DOMAIN n \subseteq T
  BY <1>1, <1>4, UsedIsGood
<1>6. \A u \in T :
        /\ u \in DOMAIN tokens
        /\ ~setting.shared =>
             /\ tokens[u].by = p
             /\ tokens[u].boot = boots[p] => u \in DOMAIN n \/ Remaining(p, u) <= 0
  BY <1>1, <1>4 DEF IInv, Remembered, Remembers
<1>7. "used" \in AnswerNames
  BY DEF AnswerNames
<1> HIDE DEF n, T
<1>8. QED
  BY <1>2, <1>3, <1>4, <1>5, <1>6, <1>7, StoreKeepsIInv

LEMMA InitIInv ==
  ASSUME Init
  PROVE  IInv
<1>1. /\ setting \in Settings /\ now = 0 /\ boots = [p \in Procs |-> 0]
      /\ tokens = [t \in {} |-> Idle] /\ used = [p \in Procs |-> [t \in {} |-> Idle]]
      /\ lastPruneAt = [p \in Procs |-> 0 - PruneInterval]
      /\ submissions = [s \in Slots |-> Idle] /\ redeemed = {}
      /\ through = [p \in Procs |-> {}]
  BY DEF Init
<1>2. TypeOK
  <2>1. Idle \in Submission
    BY DEF Submission
  <2>2. DOMAIN tokens = {} /\ tokens \in [DOMAIN tokens -> FormToken]
    BY <1>1
  <2>3. \A p \in Procs : DOMAIN used[p] = {} /\ used[p] \in [DOMAIN used[p] -> Mark]
    BY <1>1
  <2>4. now \in 0 .. Horizon /\ boots \in [Procs -> 0 .. MaxRestarts]
        /\ lastPruneAt \in [Procs -> Int]
    BY <1>1, TimeAssumption, StoreAssumption
  <2>5. QED
    BY <1>1, <2>1, <2>2, <2>3, <2>4, SettingAssumption DEF TypeOK
<1>3. Issued /\ Marked /\ Verified /\ Remembered
  BY <1>1 DEF Issued, Marked, Verified, Remembered, Idle, Pending
<1>4. QED
  BY <1>2, <1>3 DEF IInv

LEMMA SubmitKeepsIInv ==
  ASSUME IInv, NEW s \in Slots, NEW p \in Procs, NEW t \in Tokens, NEW website \in BOOLEAN,
         NEW widget \in Widgets \cup {NoWidget}, NEW right \in BOOLEAN,
         Submit(s, p, t, website, widget, right)
  PROVE  IInv'
<1>1. PICK x \in Submission :
        SubmissionMoves(s, x) /\ (x.phase \in Pending => verify(x.proc, x.token))
  BY SubmitMoves
<1>2. QED
  BY <1>1, MovesKeepIInv

LEMMA MoveKeepsIInv ==
  ASSUME IInv, NEW s \in Slots, Moves(s)
  PROVE  IInv'
<1>1. PICK x \in Submission :
        SubmissionMoves(s, x) /\ (x.phase \in Pending => verify(x.proc, x.token))
  BY AllMove
<1>2. QED
  BY <1>1, MovesKeepIInv

\* The steps of a slot, sorted by what they touch.
LEMMA SlotSteps ==
  ASSUME NEW s, TurnstileStep(s) \/ ChallengeStep(s) \/ ConsumeStep(s) \/ Leave(s)
  PROVE  Moves(s) \/ LetThrough(s) \/ RefuseUsed(s)
BY DEF Moves, ConsumeStep

LEMMA NextKeepsIInv ==
  ASSUME IInv, [Next]_vars
  PROVE  IInv'
<1>1. CASE \E p \in Procs, t \in Tokens : issue(p, t)
  BY <1>1, IssueKeepsIInv
<1>2. CASE \E s \in Slots, p \in Procs, t \in Tokens, website \in BOOLEAN,
             widget \in Widgets \cup {NoWidget}, right \in BOOLEAN :
             Submit(s, p, t, website, widget, right)
  BY <1>2, SubmitKeepsIInv
<1>3. CASE \E s \in Slots :
             TurnstileStep(s) \/ ChallengeStep(s) \/ ConsumeStep(s) \/ Leave(s)
  <2>1. PICK s \in Slots : Moves(s) \/ LetThrough(s) \/ RefuseUsed(s)
    BY <1>3, SlotSteps
  <2>2. QED
    BY <2>1, MoveKeepsIInv, LetThroughKeepsIInv, RefuseUsedKeepsIInv
<1>4. CASE \E p \in Procs : Restart(p)
  BY <1>4, RestartKeepsIInv
<1>5. CASE Tick
  BY <1>5, TickKeepsIInv
<1>6. CASE UNCHANGED vars
  BY <1>6 DEF vars, IInv, TypeOK, Issued, Rounded, ttlSeconds, Marked, MarkIsGood, Verified, verify,
              Remembered, Remembers, Remaining, Clock
<1>7. QED
  BY <1>1, <1>2, <1>3, <1>4, <1>5, <1>6 DEF Next

\* The inductive invariant holds in every state.
THEOREM Invariance == Spec => []IInv
<1>1. Init => IInv
  BY InitIInv
<1>2. IInv /\ [Next]_vars => IInv'
  BY NextKeepsIInv
<1>3. QED
  BY <1>1, <1>2, PTL DEF Spec

\* Whatever the settings, the clocks and the restarts, the state has its type: the
\* guards read no field of a submission or of a payload that is not there.
THEOREM TypeCorrect == Spec => []TypeOK
<1>1. IInv => TypeOK
  BY DEF IInv
<1>2. QED
  BY <1>1, Invariance, PTL

---------------------------------------------------------------------------
(* What a step may never do.                                               *)

LEMMA UsedMeansLetThroughStep ==
  ASSUME IInv, NEW s \in Slots, RefuseUsed(s)
  PROVE  submissions[s].token \in through[submissions[s].proc]
<1> DEFINE p == submissions[s].proc
           t == submissions[s].token
<1>1. p \in Procs
  BY PendingSubmission DEF RefuseUsed, In, Pending
<1>2. t \in DOMAIN Swept(p)
  BY DEF RefuseUsed, AlreadyUsed
<1>3. QED
  BY <1>1, <1>2, SweptFacts, UsedIsGood

\* "Already used" is answered only for a form whose submission reached the handler
\* of that process, whatever the guards refused before.
THEOREM UsedWasLetThrough == Spec => UsedMeansLetThrough
<1> DEFINE A == \A s \in Slots :
                  RefuseUsed(s) => submissions[s].token \in through[submissions[s].proc]
<1>1. IInv => A
  BY UsedMeansLetThroughStep
<1>2. UsedMeansLetThrough <=> [][A]_vars
  BY DEF UsedMeansLetThrough
<1> HIDE DEF A
<1>3. QED
  BY <1>1, <1>2, Invariance, PTL

LEMMA OnceStep ==
  ASSUME IInv, NEW s \in Slots, ~setting.shared, LetThrough(s), NEW q \in Procs
  PROVE  submissions[s].token \notin through[q]
<1> DEFINE p == submissions[s].proc
           t == submissions[s].token
<1>1. /\ p \in Procs /\ t \in DOMAIN tokens /\ verify(p, t) /\ Remaining(p, t) > 0
      /\ t \notin DOMAIN used[p]
  BY LetThroughFacts
<1>2. SUFFICES ASSUME t \in through[q] PROVE FALSE
  OBVIOUS
<1>3. Remembers(q, t)
  BY <1>2 DEF IInv, Remembered
<1>4. tokens[t].by = p /\ tokens[t].boot = boots[p]
  BY <1>1 DEF verify
<1>5. q = p
  BY <1>3, <1>4 DEF Remembers
<1>6. Remaining(p, t) <= 0
  BY <1>1, <1>3, <1>4, <1>5 DEF Remembers
<1>7. Remaining(p, t) \in Int
  BY <1>1, RemainingIsInt DEF IInv
<1>8. QED
  BY <1>1, <1>6, <1>7

\* Without a configured secret all processes together let a token through once,
\* over every restart: what the cap dropped is left out of through.
THEOREM OnceOverRestarts == Spec => OnceWithoutSharedSecret
<1> DEFINE A == \A s \in Slots :
                  ~setting.shared /\ LetThrough(s)
                    => \A p \in Procs : submissions[s].token \notin through[p]
<1>1. IInv => A
  BY OnceStep
<1>2. OnceWithoutSharedSecret <=> [][A]_vars
  BY DEF OnceWithoutSharedSecret
<1> HIDE DEF A
<1>3. QED
  BY <1>1, <1>2, Invariance, PTL

---------------------------------------------------------------------------
(* The answers.                                                            *)

LEMMA OnlyOneMoves ==
  ASSUME TypeOK, NEW s \in Slots, NEW o \in Slots, NEW x, NEW a,
         submissions' = [submissions EXCEPT ![o] = x], Answers(s, a)
  PROVE  o = s /\ submissions'[s] = x
BY DEF TypeOK, Answers

LEMMA AnswerSays ==
  ASSUME TypeOK, NEW s \in Slots, NEW o \in Slots, NEW a, NEW b,
         Answer(o, b), Answers(s, a)
  PROVE  /\ o = s /\ a = b
         /\ submissions'[s].proc = submissions[s].proc
         /\ submissions'[s].token = submissions[s].token
<1> DEFINE x == Answered(submissions[o].proc, submissions[o].token, b)
<1>1. submissions' = [submissions EXCEPT ![o] = x]
  BY DEF Answer
<1>2. x.answer = b /\ x.proc = submissions[o].proc /\ x.token = submissions[o].token
  BY DEF Answered
<1> HIDE DEF x
<1>3. o = s /\ submissions'[s] = x
  BY <1>1, OnlyOneMoves
<1>4. QED
  BY <1>2, <1>3 DEF Answers

LEMMA MovingOnSaysNothing ==
  ASSUME TypeOK, NEW s \in Slots, NEW o \in Slots, NEW a,
         ToChallenge(o) \/ ToConsume(o) \/ Leave(o)
  PROVE  ~Answers(s, a)
<1> SUFFICES ASSUME Answers(s, a) PROVE FALSE
  OBVIOUS
<1>1. CASE ToChallenge(o)
  <2> DEFINE x == [phase |-> "challenge", proc |-> submissions[o].proc,
                   token |-> submissions[o].token, right |-> submissions[o].right]
  <2>1. submissions' = [submissions EXCEPT ![o] = x] /\ x.phase = "challenge"
    BY <1>1 DEF ToChallenge
  <2> HIDE DEF x
  <2>2. submissions'[s] = x
    BY <2>1, OnlyOneMoves
  <2>3. QED
    BY <2>1, <2>2 DEF Answers
<1>2. CASE ToConsume(o)
  <2> DEFINE x == [phase |-> "consume", proc |-> submissions[o].proc,
                   token |-> submissions[o].token]
  <2>1. submissions' = [submissions EXCEPT ![o] = x] /\ x.phase = "consume"
    BY <1>2 DEF ToConsume
  <2> HIDE DEF x
  <2>2. submissions'[s] = x
    BY <2>1, OnlyOneMoves
  <2>3. QED
    BY <2>1, <2>2 DEF Answers
<1>3. CASE Leave(o)
  <2>1. submissions' = [submissions EXCEPT ![o] = Idle] /\ Idle.phase = "idle"
    BY <1>3 DEF Leave, Idle
  <2>2. submissions'[s] = Idle
    BY <2>1, OnlyOneMoves
  <2>3. QED
    BY <2>1, <2>2 DEF Answers
<1>4. QED
  BY <1>1, <1>2, <1>3

\* Who says what: "handled" comes from the store, "tooFast" from the first guards,
\* "expired" from them or from the second look before the store.
Reasons(s, a) ==
  LET p == submissions'[s].proc
      t == submissions'[s].token
  IN /\ a = "handled" => LetThrough(s)
     /\ a \in {"tooFast", "expired"} =>
          /\ p \in Procs /\ t \in DOMAIN tokens
          /\ UNCHANGED <<now, tokens>>
          /\ a = "tooFast" => TooFast(p, t)
          /\ a = "expired" => Remaining(p, t) <= 0 \/ TooOld(p, t)

LEMMA SubmitSays ==
  ASSUME IInv, NEW s \in Slots, NEW a, Answers(s, a), NEW o \in Slots,
         NEW p \in Procs, NEW t \in Tokens, NEW website \in BOOLEAN,
         NEW widget \in Widgets \cup {NoWidget}, NEW right \in BOOLEAN,
         Submit(o, p, t, website, widget, right)
  PROVE  Reasons(s, a)
<1> DEFINE guards == FirstGuards(p, t, website)
           pending == [phase |-> "turnstile", proc |-> p, token |-> t, widget |-> widget,
                       right |-> right]
           x == IF guards = "pass" THEN pending ELSE Answered(p, t, guards)
<1>1. submissions' = [submissions EXCEPT ![o] = x] /\ UNCHANGED <<now, tokens>>
  BY DEF Submit
<1>2. submissions'[s] = x
  <2> HIDE DEF x
  <2>1. QED
    BY <1>1, OnlyOneMoves DEF IInv
<1>3. guards # "pass"
  BY <1>2 DEF Answers
<1>4. submissions'[s] = Answered(p, t, guards)
  BY <1>2, <1>3
<1>5. a = guards /\ submissions'[s].proc = p /\ submissions'[s].token = t
  BY <1>4 DEF Answers, Answered
<1>6. a # "handled"
  BY <1>5, GuardsAnswer
<1>7. a \in {"tooFast", "expired"} => t \in DOMAIN tokens
  BY <1>5 DEF FirstGuards, verify
<1>8. a = "tooFast" => TooFast(p, t)
  BY <1>5 DEF FirstGuards
<1>9. a = "expired" => Remaining(p, t) <= 0 \/ TooOld(p, t)
  BY <1>5 DEF FirstGuards
<1> HIDE DEF guards, pending, x
<1>10. QED
  BY <1>1, <1>5, <1>6, <1>7, <1>8, <1>9 DEF Reasons

LEMMA SlotSays ==
  ASSUME IInv, NEW s \in Slots, NEW a, Answers(s, a), NEW o \in Slots,
         TurnstileStep(o) \/ ChallengeStep(o) \/ ConsumeStep(o) \/ Leave(o)
  PROVE  Reasons(s, a)
<1>0. TypeOK /\ ~ToChallenge(o) /\ ~ToConsume(o) /\ ~Leave(o)
  BY MovingOnSaysNothing DEF IInv
<1>1. CASE LetThrough(o)
  <2>1. Answer(o, "handled")
    BY <1>1 DEF LetThrough
  <2>2. o = s /\ a = "handled"
    BY <1>0, <2>1, AnswerSays
  <2>3. QED
    BY <1>1, <2>2 DEF Reasons
<1>2. CASE ExpireLate(o)
  <2>1. In(o, "consume") /\ Answer(o, "expired") /\ UNCHANGED <<now, tokens>>
        /\ Remaining(submissions[o].proc, submissions[o].token) <= 0
    BY <1>2 DEF ExpireLate
  <2>2. /\ o = s /\ a = "expired" /\ submissions'[s].proc = submissions[s].proc
        /\ submissions'[s].token = submissions[s].token
    BY <1>0, <2>1, AnswerSays
  <2>3. submissions[s].proc \in Procs /\ submissions[s].token \in DOMAIN tokens
    BY <2>1, <2>2, PendingSubmission DEF In, Pending
  <2>4. QED
    BY <2>1, <2>2, <2>3 DEF Reasons
<1>3. CASE \E b \in {"captcha", "challenge", "error", "used"} : Answer(o, b)
  <2>1. a \in {"captcha", "challenge", "error", "used"}
    BY <1>0, <1>3, AnswerSays
  <2>2. QED
    BY <2>1 DEF Reasons
<1>4. \/ LetThrough(o) \/ ExpireLate(o)
      \/ \E b \in {"captcha", "challenge", "error", "used"} : Answer(o, b)
  <2>1. CASE TurnstileStep(o)
    BY <1>0, <2>1 DEF TurnstileStep, TurnstileOff, TurnstileMissing, TurnstileVerdict,
                      TurnstileUnknown
  <2>2. CASE ChallengeStep(o)
    BY <1>0, <2>2 DEF ChallengeStep, ChallengeNone, ChallengeAsked, ChallengeImpossible
  <2>3. CASE ConsumeStep(o)
    BY <1>0, <2>3 DEF ConsumeStep, RefuseUsed
  <2>4. QED
    BY <1>0, <2>1, <2>2, <2>3
<1>5. QED
  BY <1>1, <1>2, <1>3, <1>4

LEMMA OthersSayNothing ==
  ASSUME IInv, NEW s \in Slots, NEW a,
         \/ \E p \in Procs, t \in Tokens : issue(p, t)
         \/ \E p \in Procs : Restart(p)
         \/ Tick
         \/ UNCHANGED vars
  PROVE  ~Answers(s, a)
<1>1. CASE \E p \in Procs : Restart(p)
  BY <1>1 DEF Restart, Answers, Idle
<1>2. CASE (\E p \in Procs, t \in Tokens : issue(p, t)) \/ Tick \/ UNCHANGED vars
  BY <1>2 DEF issue, Tick, vars, Answers
<1>3. QED
  BY <1>1, <1>2

LEMMA AnswersHaveReasons ==
  ASSUME IInv, [Next]_vars, NEW s \in Slots, NEW a, Answers(s, a)
  PROVE  Reasons(s, a)
BY SubmitSays, SlotSays, OthersSayNothing DEF Next

\* The age that the guards see and the real one differ by less than a second.
LEMMA Ages ==
  ASSUME IInv, NEW p \in Procs, NEW t \in DOMAIN tokens, NEW gap,
         gap = now - tokens[t].issuedAt + (Skew[p] - Skew[tokens[t].by])
  PROVE  /\ Age(p, t) \in Int /\ gap \in Int
         /\ gap <= Age(p, t) /\ Age(p, t) <= gap + (Second - 1)
         /\ Remaining(p, t) \in Int
         /\ Age(p, t) + Remaining(p, t) = ttlSeconds * Second
<1> DEFINE k == tokens[t]
<1>1. /\ k \in FormToken /\ Rounded(k) /\ k.exp = k.iat + ttlSeconds
      /\ now \in Nat /\ Clock(p) = now + Skew[p] /\ Skew[p] \in Nat
  BY RemainingIsInt, ClockIsNat DEF IInv, Issued
<1>2. k.iat \in Nat /\ k.by \in Procs /\ k.issuedAt \in Nat /\ Skew[k.by] \in Nat
  BY <1>1, ProcAssumption, TimeAssumption DEF FormToken
<1>3. ttlSeconds \in Nat /\ ttlSeconds * Second \in Nat /\ Second \in Nat /\ k.iat * Second \in Nat
  BY <1>2, TimeToLive, TimeAssumption DEF IInv
<1>4. k.exp * Second = k.iat * Second + ttlSeconds * Second
  BY <1>1, <1>2, <1>3, Products
<1>5. k.iat * Second <= k.issuedAt + Skew[k.by]
      /\ k.issuedAt + Skew[k.by] < k.iat * Second + Second
  BY <1>1 DEF Rounded
<1>6. /\ Age(p, t) = now + Skew[p] - k.iat * Second
      /\ Remaining(p, t) = k.exp * Second - (now + Skew[p])
  <2>1. Age(p, t) = Clock(p) - k.iat * Second /\ Remaining(p, t) = k.exp * Second - Clock(p)
    BY DEF Age, Remaining
  <2>2. Clock(p) = now + Skew[p] /\ now \in Nat /\ Skew[p] \in Nat /\ k.iat * Second \in Nat
    BY <1>1, <1>3
  <2>3. QED
    BY <2>1, <2>2
<1> DEFINE i == k.iat * Second
           l == ttlSeconds * Second
           e == k.exp * Second
           d == k.issuedAt
           sp == Skew[p]
           sk == Skew[k.by]
<1>7. /\ i \in Nat /\ l \in Nat /\ d \in Nat /\ sp \in Nat /\ sk \in Nat
      /\ gap = now - d + (sp - sk) /\ e = i + l
      /\ i <= d + sk /\ d + sk < i + Second
      /\ Age(p, t) = now + sp - i /\ Remaining(p, t) = e - (now + sp)
  BY <1>1, <1>2, <1>3, <1>4, <1>5, <1>6
<1> HIDE DEF i, l, e, d, sp, sk, k
<1>8. /\ Age(p, t) \in Int /\ gap \in Int
      /\ gap <= Age(p, t) /\ Age(p, t) <= gap + (Second - 1)
      /\ Remaining(p, t) \in Int
      /\ Age(p, t) + Remaining(p, t) = l
  BY <1>1, <1>3, <1>7
<1>9. QED
  BY <1>8 DEF l

LEMMA PatientStep ==
  ASSUME IInv, [Next]_vars, NEW s \in Slots, Answers(s, "tooFast")
  PROVE  RealAge(s) + AheadBy(s) \in (1 - Second) .. (MinTime - 1)
<1> DEFINE p == submissions'[s].proc
           t == submissions'[s].token
           gap == now - tokens[t].issuedAt + (Skew[p] - Skew[tokens[t].by])
<1>1. p \in Procs /\ t \in DOMAIN tokens /\ TooFast(p, t)
  BY AnswersHaveReasons DEF Reasons
<1>2. RealAge(s) + AheadBy(s) = gap
  BY DEF RealAge, AheadBy
<1> HIDE DEF p, t
<1>3. /\ Age(p, t) \in Int /\ gap \in Int /\ gap <= Age(p, t)
      /\ Age(p, t) <= gap + (Second - 1)
  BY <1>1, Ages
<1>4. Age(p, t) >= 0 /\ Age(p, t) < MinTime
  BY <1>1 DEF TooFast
<1> HIDE DEF gap
<1>5. gap \in (1 - Second) .. (MinTime - 1)
  BY <1>3, <1>4, TimeAssumption
<1>6. QED
  BY <1>2, <1>5

\* Who takes the minimum time is never discarded as a robot, for every rounding of
\* iat and every difference of the clocks.
THEOREM PatientPass == Spec => PatientAreNotDiscarded
<1> DEFINE A == \A s \in Slots :
                  Answers(s, "tooFast")
                    => RealAge(s) + AheadBy(s) \in (1 - Second) .. (MinTime - 1)
<1>1. IInv /\ [Next]_vars => A
  BY PatientStep
<1>2. PatientAreNotDiscarded <=> [][A]_vars
  BY DEF PatientAreNotDiscarded
<1> HIDE DEF A
<1>3. QED
  BY <1>1, <1>2, Invariance, PTL DEF Spec

LEMMA ExpiredStep ==
  ASSUME IInv, [Next]_vars, NEW s \in Slots, Answers(s, "expired")
  PROVE  RealAge(s) + AheadBy(s) >= ExpiryAge - (Second - 1)
<1> DEFINE p == submissions'[s].proc
           t == submissions'[s].token
           gap == now - tokens[t].issuedAt + (Skew[p] - Skew[tokens[t].by])
           l == ttlSeconds * Second
           max == setting.maxTime
<1>1. p \in Procs /\ t \in DOMAIN tokens /\ (Remaining(p, t) <= 0 \/ TooOld(p, t))
  BY AnswersHaveReasons DEF Reasons
<1>2. RealAge(s) + AheadBy(s) = gap
  BY DEF RealAge, AheadBy
<1> HIDE DEF p, t
<1>3. /\ Age(p, t) \in Int /\ gap \in Int /\ Age(p, t) <= gap + (Second - 1)
      /\ Remaining(p, t) \in Int /\ Age(p, t) + Remaining(p, t) = l
  BY <1>1, Ages
<1>4. /\ l \in Nat /\ max \in Nat
      /\ max < Second => l = Second
      /\ max < l + Second
  BY TimeToLive DEF IInv
<1>5. Age(p, t) > max \/ Remaining(p, t) <= 0
  BY <1>1 DEF TooOld
<1>6. ExpiryAge = IF max < Second THEN max + 1 ELSE max - (Second - 1)
  BY DEF ExpiryAge
<1> HIDE DEF gap, l, max
<1>7. CASE max < Second
  BY <1>2, <1>3, <1>4, <1>5, <1>6, <1>7, TimeAssumption
<1>8. CASE max >= Second
  BY <1>2, <1>3, <1>4, <1>5, <1>6, <1>8, TimeAssumption
<1>9. QED
  BY <1>4, <1>7, <1>8, TimeAssumption

\* A form is refused as expired no earlier than ANTI_BOT_MAX_TIME_MS, less the fractions
\* of a second that rounding takes, for every window, also one under a second in which
\* TimingGuard refuses what the token would allow, and for every clock.
THEOREM ExpiredAreOld == Spec => ExpiredMeansOld
<1> DEFINE A == \A s \in Slots :
                  Answers(s, "expired")
                    => RealAge(s) + AheadBy(s) >= ExpiryAge - (Second - 1)
<1>1. IInv /\ [Next]_vars => A
  BY ExpiredStep
<1>2. ExpiredMeansOld <=> [][A]_vars
  BY DEF ExpiredMeansOld
<1> HIDE DEF A
<1>3. QED
  BY <1>1, <1>2, Invariance, PTL DEF Spec

---------------------------------------------------------------------------
(* The refinement.                                                         *)

\* Over the cap, what is dropped are other marks, and MaxEntries are left.
LEMMA ExcessFacts ==
  ASSUME TypeOK, NEW m, GoodMap(m), NEW t \in DOMAIN tokens, t \notin DOMAIN m,
         NEW full, full = Set(m, t, tokens[t].exp * Second), GoodMap(full)
  PROVE  /\ t \notin Excess(full)
         /\ Excess(full) \subseteq DOMAIN m \cup {t}
         /\ Excess(full) # {} => Cardinality(DOMAIN m) >= MaxEntries
<1> DEFINE newer(e) == {u \in DOMAIN full : e \in full[u].older}
<1>1. /\ DOMAIN full = DOMAIN m \cup {t}
      /\ \A u \in DOMAIN m : full[u] = m[u]
      /\ full[t].older = DOMAIN m
  BY DEF Set
<1>2. DOMAIN m \subseteq Tokens /\ t \in Tokens
  BY DEF GoodMap, TypeOK
<1>3. IsFiniteSet(DOMAIN m)
  BY <1>2, ProcAssumption, FS_Subset
<1>4. IsFiniteSet(DOMAIN full) /\ Cardinality(DOMAIN full) = Cardinality(DOMAIN m) + 1
      /\ Cardinality(DOMAIN m) \in Nat
  BY <1>1, <1>3, FS_AddElement, FS_CardinalityType
<1>5. Excess(full) = {e \in DOMAIN full : Cardinality(newer(e)) >= MaxEntries}
  BY DEF Excess
<1>6. newer(t) = {}
  BY <1>1 DEF GoodMap
<1>7. t \notin Excess(full)
  <2>1. Cardinality(newer(t)) = 0
    BY <1>6, FS_EmptySet
  <2> HIDE DEF newer
  <2>2. QED
    BY <1>5, <2>1, StoreAssumption
<1>8. ASSUME NEW e \in Excess(full) PROVE Cardinality(DOMAIN m) >= MaxEntries
  <2>1. e \in DOMAIN full /\ Cardinality(newer(e)) >= MaxEntries
    BY <1>5, <1>8
  <2>2. newer(e) \subseteq DOMAIN full \ {e}
    BY <2>1 DEF GoodMap
  <2> HIDE DEF newer
  <2>3. /\ IsFiniteSet(DOMAIN full \ {e})
        /\ Cardinality(DOMAIN full \ {e}) = Cardinality(DOMAIN m)
    <3>1. /\ IsFiniteSet(DOMAIN full \ {e})
          /\ Cardinality(DOMAIN full \ {e}) = Cardinality(DOMAIN full) - 1
      BY <1>4, <2>1, FS_RemoveElement
    <3>2. QED
      BY <1>4, <3>1
  <2>4. IsFiniteSet(newer(e)) /\ Cardinality(newer(e)) <= Cardinality(DOMAIN m)
    BY <2>2, <2>3, FS_Subset
  <2>5. Cardinality(newer(e)) \in Nat
    BY <2>4, FS_CardinalityType
  <2>6. QED
    BY <1>4, <2>1, <2>4, <2>5, StoreAssumption
<1>9. QED
  BY <1>1, <1>5, <1>7, <1>8

LEMMA SameCardinality ==
  ASSUME NEW S
  PROVE  Promise!Cardinality(S) = Cardinality(S)
BY DEF Cardinality, Promise!Cardinality

Expired(p) == {t \in DOMAIN tokens : Remaining(p, t) <= 0}

Known == [p \in Procs |-> DOMAIN used[p]]

AllExpired == [p \in Procs |-> {t \in DOMAIN tokens : Remaining(p, t) <= 0}]

LEMMA LetThroughImplements ==
  ASSUME IInv, NEW s \in Slots, LetThrough(s), NEW p, NEW t,
         p = submissions[s].proc, t = submissions[s].token
  PROVE  /\ p \in Procs /\ t \in Tokens
         /\ Promise!LetThrough(s, p, t)
<1> DEFINE m == Swept(p)
           full == Filled(p, t)
           dead == DOMAIN used[p] \ DOMAIN m
           over == Excess(full)
<1>1. /\ p \in Procs /\ t \in DOMAIN tokens /\ Remaining(p, t) > 0
      /\ t \notin DOMAIN m /\ t \notin DOMAIN used[p]
      /\ used' = [used EXCEPT ![p] = Delete(full, over)]
      /\ GoodMap(full) /\ DOMAIN full = DOMAIN m \cup {t}
  BY LetThroughFacts
<1>2. /\ GoodMap(m) /\ DOMAIN m \subseteq DOMAIN used[p]
      /\ \A u \in dead : Remaining(p, u) <= 0
  BY <1>1, SweptFacts
<1>3. full = Set(m, t, tokens[t].exp * Second)
  BY DEF Filled
<1>4. GoodMap(used[p]) /\ DOMAIN used[p] \subseteq DOMAIN tokens
  BY <1>1, UsedIsGood DEF GoodMap
<1>5. In(s, "consume") /\ Answer(s, "handled") /\ UNCHANGED <<now, tokens>>
  BY DEF LetThrough
<1>6. DOMAIN Delete(full, over) = (DOMAIN m \cup {t}) \ over
  BY <1>1, DeleteKeepsGood
<1>7. Remaining(p, t) \in Int
  BY <1>1, RemainingIsInt DEF IInv
<1>8. /\ DOMAIN used = Procs
      /\ t \in Tokens
  BY <1>1 DEF IInv, TypeOK
<1> HIDE DEF m, full, over
<1>9. t \notin over /\ over \subseteq DOMAIN m \cup {t}
      /\ (over # {} => Cardinality(DOMAIN m) >= MaxEntries)
  <2> HIDE DEF dead
  <2>1. TypeOK /\ GoodMap(m) /\ t \in DOMAIN tokens /\ t \notin DOMAIN m /\ GoodMap(full)
    BY <1>1, <1>2 DEF IInv
  <2>2. /\ t \notin Excess(full) /\ Excess(full) \subseteq DOMAIN m \cup {t}
        /\ (Excess(full) # {} => Cardinality(DOMAIN m) >= MaxEntries)
    BY <1>3, <2>1, ExcessFacts
  <2>3. QED
    BY <2>2 DEF over
<1>10. Known' = [Known EXCEPT ![p] = (Known[p] \ (dead \cup over)) \cup {t}]
  <2>1. Known[p] = DOMAIN used[p] /\ Known'[p] = (DOMAIN m \cup {t}) \ over
        /\ \A o \in Procs \ {p} : Known'[o] = Known[o]
    BY <1>1, <1>6, <1>8 DEF Known
  <2>2. (DOMAIN m \cup {t}) \ over = (DOMAIN used[p] \ (dead \cup over)) \cup {t}
    BY <1>2, <1>9 DEF dead
  <2>3. Known' = [o \in Procs |-> Known'[o]] /\ Known = [o \in Procs |-> Known[o]]
    BY DEF Known
  <2> HIDE DEF dead
  <2>4. QED
    BY <1>1, <2>1, <2>2, <2>3
<1>11. dead \in SUBSET (Known[p] \cap Expired(p)) /\ over \in SUBSET Known[p]
       /\ t \notin Known[p] /\ t \notin Expired(p)
  BY <1>1, <1>2, <1>4, <1>7, <1>9 DEF Known, Expired, dead
<1>12. over # {} => Cardinality(Known[p] \ dead) >= MaxEntries
  <2>1. Known[p] \ dead = DOMAIN m
    BY <1>1, <1>2 DEF Known, dead
  <2>2. QED
    BY <1>9, <2>1
<1>13. AllExpired' = AllExpired /\ AllExpired[p] = Expired(p)
  BY <1>1, <1>5 DEF AllExpired, Expired, Remaining, Clock
<1>14. /\ submissions[s].phase = "consume" /\ submissions[s].proc = p /\ submissions[s].token = t
       /\ submissions' = [submissions EXCEPT ![s] =
            [phase |-> "answered", proc |-> p, token |-> t, answer |-> "handled"]]
  BY <1>5 DEF In, Answer, Answered
<1> HIDE DEF dead
<1>15. Promise!LetThrough(s, p, t)
  <2>1. /\ t \notin Known[p] /\ t \notin AllExpired[p]
        /\ over # {} => Promise!Cardinality(Known[p] \ dead) >= MaxEntries
        /\ dead \in SUBSET (Known[p] \cap AllExpired[p]) /\ over \in SUBSET Known[p]
        /\ Known' = [Known EXCEPT ![p] = (Known[p] \ (dead \cup over)) \cup {t}]
    BY <1>10, <1>11, <1>12, <1>13, SameCardinality
  <2>2. /\ t \notin Known[p] /\ t \notin AllExpired[p]
        /\ \E gone \in SUBSET (Known[p] \cap AllExpired[p]), much \in SUBSET Known[p] :
             /\ much # {} => Promise!Cardinality(Known[p] \ gone) >= MaxEntries
             /\ Known' = [Known EXCEPT ![p] = (Known[p] \ (gone \cup much)) \cup {t}]
    BY <2>1, Zenon
  <2>3. UNCHANGED AllExpired
    BY <1>13
  <2>4. QED
    BY <1>14, <2>2, <2>3, Zenon DEF Promise!LetThrough, Known, AllExpired
<1>16. QED
  BY <1>1, <1>8, <1>15

LEMMA LetThroughIsNext ==
  ASSUME IInv, NEW s \in Slots, LetThrough(s)
  PROVE  Promise!Next
<1>1. PICK p, t : p = submissions[s].proc /\ t = submissions[s].token
  OBVIOUS
<1>2. p \in Procs /\ t \in Tokens /\ Promise!LetThrough(s, p, t)
  BY <1>1, LetThroughImplements
<1>3. QED
  BY <1>2, Zenon DEF Promise!Next

\* Steps that let nothing through and forget only what has expired, or everything.
LEMMA ProceedIsNext ==
  ASSUME IInv, UNCHANGED <<now, tokens>>, DOMAIN used' = Procs,
         \A s \in Slots : ~Answers(s, "handled"),
         \A p \in Procs :
           \/ DOMAIN used'[p] = {}
           \/ /\ DOMAIN used'[p] \subseteq DOMAIN used[p]
              /\ \A t \in DOMAIN used[p] \ DOMAIN used'[p] : Remaining(p, t) <= 0
  PROVE  Promise!Next
<1>1. \A p \in Procs : DOMAIN used[p] \subseteq DOMAIN tokens
  BY UsedIsGood DEF GoodMap
<1>2. /\ \A p \in Procs : Known'[p] = DOMAIN used'[p] /\ Known[p] = DOMAIN used[p]
      /\ DOMAIN Known' = Procs
  BY DEF Known
<1>3. UNCHANGED AllExpired
  BY DEF AllExpired, Remaining, Clock
<1>4. \A p \in Procs : AllExpired[p] = {t \in DOMAIN tokens : Remaining(p, t) <= 0}
  BY DEF AllExpired
<1>5. \A p \in Procs :
        \/ Known'[p] = {}
        \/ Known'[p] \subseteq Known[p] /\ Known[p] \ Known'[p] \subseteq AllExpired[p]
  BY <1>1, <1>2, <1>4
<1>6. \A s \in Slots :
        submissions'[s] # submissions[s]
          => ~(submissions'[s].phase = "answered" /\ submissions'[s].answer = "handled")
  BY DEF Answers
<1>7. Promise!Proceed
  BY <1>2, <1>3, <1>5, <1>6, Zenon DEF Promise!Proceed, Promise!Handled, Known, AllExpired
<1>8. QED
  BY <1>7, Zenon DEF Promise!Next

LEMMA UsedUnchanged ==
  ASSUME IInv, UNCHANGED used
  PROVE  /\ DOMAIN used' = Procs
         /\ \A p \in Procs :
              /\ DOMAIN used'[p] \subseteq DOMAIN used[p]
              /\ DOMAIN used[p] \ DOMAIN used'[p] = {}
BY DEF IInv, TypeOK

LEMMA MovesAreNext ==
  ASSUME IInv, Next, \A s \in Slots : ~LetThrough(s), UNCHANGED <<now, tokens, used>>
  PROVE  Promise!Next
<1>1. \A s \in Slots : ~Answers(s, "handled")
  BY AnswersHaveReasons DEF Reasons
<1>2. QED
  BY <1>1, UsedUnchanged, ProceedIsNext

LEMMA RefuseUsedIsNext ==
  ASSUME IInv, Next, NEW s \in Slots, RefuseUsed(s)
  PROVE  Promise!Next
<1> DEFINE p == submissions[s].proc
<1>1. p \in Procs
  BY PendingSubmission DEF RefuseUsed, In, Pending
<1>2. /\ Answer(s, "used") /\ UNCHANGED <<now, tokens>>
      /\ used' = [used EXCEPT ![p] = Swept(p)] /\ DOMAIN used = Procs
  BY DEF RefuseUsed, SweepOnly, IInv, TypeOK
<1>3. \A o \in Slots : ~Answers(o, "handled")
  BY <1>2, AnswerSays DEF IInv
<1>4. /\ DOMAIN Swept(p) \subseteq DOMAIN used[p]
      /\ \A t \in DOMAIN used[p] \ DOMAIN Swept(p) : Remaining(p, t) <= 0
  BY <1>1, SweptFacts
<1>5. DOMAIN used' = Procs /\ used'[p] = Swept(p)
      /\ \A o \in Procs \ {p} : used'[o] = used[o]
  BY <1>1, <1>2
<1>6. \A o \in Procs :
        /\ DOMAIN used'[o] \subseteq DOMAIN used[o]
        /\ \A t \in DOMAIN used[o] \ DOMAIN used'[o] : Remaining(o, t) <= 0
  BY <1>4, <1>5
<1>7. QED
  BY <1>2, <1>3, <1>5, <1>6, ProceedIsNext

LEMMA RestartIsNext ==
  ASSUME IInv, Next, NEW p \in Procs, Restart(p)
  PROVE  Promise!Next
<1>1. /\ used' = [used EXCEPT ![p] = [t \in {} |-> Idle]] /\ DOMAIN used = Procs
      /\ UNCHANGED <<now, tokens>>
  BY DEF Restart, IInv, TypeOK
<1>2. \A s \in Slots : ~Answers(s, "handled")
  BY OthersSayNothing
<1>3. /\ DOMAIN used' = Procs /\ DOMAIN used'[p] = {}
      /\ \A o \in Procs \ {p} : used'[o] = used[o]
  BY <1>1
<1>4. \A o \in Procs :
        \/ DOMAIN used'[o] = {}
        \/ /\ DOMAIN used'[o] \subseteq DOMAIN used[o]
           /\ \A t \in DOMAIN used[o] \ DOMAIN used'[o] : Remaining(o, t) <= 0
  BY <1>3
<1>5. QED
  BY <1>1, <1>2, <1>3, <1>4, ProceedIsNext

\* Time and new tokens can only add to what has expired.
LEMMA ExpireIsNext ==
  ASSUME IInv, IInv', UNCHANGED <<submissions, used>>,
         DOMAIN tokens \subseteq DOMAIN tokens', now <= now',
         \A t \in DOMAIN tokens : tokens'[t] = tokens[t]
  PROVE  Promise!Next
<1>1. UNCHANGED Known
  BY DEF Known
<1>2. ASSUME NEW p \in Procs, NEW t \in AllExpired[p] PROVE t \in AllExpired'[p]
  <2>1. t \in DOMAIN tokens /\ Remaining(p, t) <= 0
    BY <1>2 DEF AllExpired
  <2>2. tokens[t].exp * Second \in Nat /\ now \in Nat /\ now' \in Nat /\ Skew[p] \in Nat
    BY <2>1, RemainingIsInt, ClockIsNat, TimeAssumption DEF IInv, TypeOK
  <2>3. Remaining(p, t) = tokens[t].exp * Second - (now + Skew[p])
        /\ Remaining(p, t)' = tokens[t].exp * Second - (now' + Skew[p])
    BY <2>1 DEF Remaining, Clock
  <2>4. Remaining(p, t)' <= 0
    BY <2>1, <2>2, <2>3
  <2>5. t \in DOMAIN tokens'
    BY <2>1
  <2>6. QED
    BY <2>4, <2>5 DEF AllExpired
<1>3. Promise!Expire
  BY <1>1, <1>2, Zenon DEF Promise!Expire, Known, AllExpired
<1>4. QED
  BY <1>3, Zenon DEF Promise!Next

LEMMA StepImplements ==
  ASSUME IInv, IInv', [Next]_vars
  PROVE  Promise!Next \/ UNCHANGED Promise!vars
<1>1. CASE \E p \in Procs, t \in Tokens : issue(p, t)
  <2>1. PICK p \in Procs, t \in Tokens : issue(p, t)
    BY <1>1
  <2>2. /\ UNCHANGED <<submissions, used, now>> /\ now <= now'
        /\ DOMAIN tokens \subseteq DOMAIN tokens'
        /\ \A u \in DOMAIN tokens : tokens'[u] = tokens[u]
    BY <2>1, TimeAssumption DEF issue, IInv, TypeOK
  <2>3. QED
    BY <2>2, ExpireIsNext
<1>2. CASE Tick
  <2>1. UNCHANGED <<submissions, used, tokens>> /\ now <= now'
    BY <1>2, TimeAssumption DEF Tick, IInv, TypeOK
  <2>2. QED
    BY <2>1, ExpireIsNext
<1>3. CASE \E p \in Procs : Restart(p)
  BY <1>3, RestartIsNext DEF Next
<1>4. CASE \E s \in Slots : LetThrough(s)
  BY <1>4, LetThroughIsNext
<1>5. CASE \E s \in Slots : RefuseUsed(s)
  BY <1>5, RefuseUsedIsNext DEF Next, ConsumeStep
<1>6. CASE /\ \A s \in Slots : ~LetThrough(s)
           /\ \/ \E s \in Slots : Moves(s)
              \/ \E s \in Slots, p \in Procs, t \in Tokens, website \in BOOLEAN,
                    widget \in Widgets \cup {NoWidget}, right \in BOOLEAN :
                   Submit(s, p, t, website, widget, right)
  <2>1. Next
    BY <1>6 DEF Next, Moves, ConsumeStep
  <2>2. UNCHANGED <<now, tokens, used>>
    BY <1>6, AllMove DEF SubmissionMoves, Submit
  <2>3. QED
    BY <1>6, <2>1, <2>2, MovesAreNext
<1>7. CASE UNCHANGED vars
  BY <1>7 DEF vars, Promise!vars, Remaining, Clock
<1>8. QED
  BY <1>1, <1>2, <1>3, <1>4, <1>5, <1>6, <1>7, SlotSteps DEF Next

LEMMA InitImplements ==
  ASSUME Init
  PROVE  Promise!Init
BY DEF Init, Promise!Init, Idle

\* The guards, the store with its sweeps and its cap, and the restarts keep the
\* promise of SingleUse: once per process, and never after the token has expired.
THEOREM FormTokensAreSingleUse == Spec => ImplementsSingleUse
<1>1. Init => Promise!Init
  BY InitImplements
<1>2. IInv /\ IInv' /\ [Next]_vars => [Promise!Next]_(Promise!vars)
  BY StepImplements
<1>3. QED
  BY <1>1, <1>2, Invariance, PTL DEF Spec, ImplementsSingleUse, Promise!Spec

=============================================================================
