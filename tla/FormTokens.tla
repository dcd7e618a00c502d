------------------------------- MODULE FormTokens -------------------------------
(***************************************************************************)
(* The form tokens of the anti-bot stack: their issue, the guards that     *)
(* @AntiBot() puts before a route, in order, and the in-memory store of    *)
(* used tokens, on several processes that may restart.                     *)
(*                                                                         *)
(* The guards before the first await run in one step; then each await      *)
(* (Cloudflare, the challenge resolver, the store) is a step of its own,   *)
(* between which time passes and other submissions move.                   *)
(*                                                                         *)
(* Time is counted in ticks, a tick standing for some milliseconds.        *)
(***************************************************************************)
EXTENDS Integers, FiniteSets

CONSTANTS
  Procs,          \* processes of the API
  Skew,           \* Skew[p]: how far the clock of p is ahead
  Tokens,         \* jti of tokens; one that was never issued stands for a forged one
  Widgets,        \* tokens of the Turnstile widget
  NoWidget,       \* the field of the widget is missing
  Slots,          \* slots for concurrent submissions
  Settings,       \* settings the processes may be deployed with
  Second,         \* ticks in a second
  MinTime,        \* ANTI_BOT_MIN_TIME_MS, in ticks
  PruneInterval,  \* PRUNE_INTERVAL_MS, in ticks
  MaxEntries,     \* MAX_ENTRIES
  Horizon,        \* bound: the last tick
  MaxRestarts     \* bound: restarts of all processes

\* shared: ANTI_BOT_TOKEN_SECRET is set; turnstile, failOpen: TURNSTILE_ENABLED,
\* TURNSTILE_FAIL_OPEN; maxTime: ANTI_BOT_MAX_TIME_MS, in ticks
Setting ==
  [shared : BOOLEAN, turnstile : BOOLEAN, failOpen : BOOLEAN, maxTime : Nat \ {0}]

ASSUME ProcAssumption  == IsFiniteSet(Tokens) /\ Skew \in [Procs -> Nat]
ASSUME TimeAssumption  ==
  /\ Second \in Nat \ {0} /\ MinTime \in Nat \ {0}
  /\ PruneInterval \in Nat \ {0} /\ Horizon \in Nat
ASSUME StoreAssumption == MaxEntries \in Nat \ {0} /\ MaxRestarts \in Nat
ASSUME SettingAssumption == Settings \subseteq Setting /\ NoWidget \notin Widgets

VARIABLES
  setting,      \* the settings of this deployment
  now,          \* real time
  boots,        \* boots[p]: how often p restarted; its random secret is new each time
  tokens,       \* the tokens issued so far, a function on their jti
  used,         \* used[p]: the Map of p, a function on the jti it holds
  lastPruneAt,  \* lastPruneAt[p]
  submissions,  \* submissions[s]: the submission in slot s
  redeemed,     \* widget tokens that Cloudflare has accepted
  through       \* history: through[p]: tokens p let through, but for those its cap dropped

vars == <<setting, now, boots, tokens, used, lastPruneAt, submissions, redeemed, through>>

Idle == [phase |-> "idle"]

Answered(p, t, answer) ==
  [phase |-> "answered", proc |-> p, token |-> t, answer |-> answer]

Clock(p) == now + Skew[p]

---------------------------------------------------------------------------
(* FormTokenService.                                                       *)

\* At least a second, even when the window is shorter.
ttlSeconds == IF setting.maxTime >= Second THEN setting.maxTime \div Second ELSE 1

\* Bug: exp counts the second of issue as the first one.
Payload_OneShort(p) ==
  LET iat == Clock(p) \div Second
  IN [iat |-> iat, exp |-> iat + ttlSeconds - 1, by |-> p, boot |-> boots[p],
      issuedAt |-> now]

\* Bug: iat is dated back a second.
Payload_DatedBack(p) ==
  LET iat == Clock(p) \div Second - 1
  IN [iat |-> iat, exp |-> iat + ttlSeconds, by |-> p, boot |-> boots[p], issuedAt |-> now]

\* iat and exp in whole seconds.  by and boot say whose secret signed, issuedAt is
\* history.
Payload(p) ==
  LET iat == Clock(p) \div Second
  IN [iat |-> iat, exp |-> iat + ttlSeconds, by |-> p, boot |-> boots[p], issuedAt |-> now]

issue(p, t) ==
  /\ t \notin DOMAIN tokens
  /\ tokens' = [u \in DOMAIN tokens \cup {t} |-> IF u = t THEN Payload(p) ELSE tokens[u]]
  /\ UNCHANGED <<setting, now, boots, used, lastPruneAt, submissions, redeemed, through>>

\* Bug: the random secret is the same in every process.
verify_OneSecret(p, t) == t \in DOMAIN tokens

\* The signature is good if the same secret made it.
verify(p, t) ==
  /\ t \in DOMAIN tokens
  /\ setting.shared \/ (tokens[t].by = p /\ tokens[t].boot = boots[p])

---------------------------------------------------------------------------
(* The guards that answer without waiting.                                 *)

Remaining(p, t) == tokens[t].exp * Second - Clock(p)

Age(p, t) == Clock(p) - tokens[t].iat * Second

\* Bug: an age below zero counts as too fast.
TooFast_Negative(p, t) == Age(p, t) < MinTime

\* A negative age means that the clocks disagree, and the guard has no opinion.
TooFast(p, t) == Age(p, t) >= 0 /\ Age(p, t) < MinTime

TooOld(p, t) == Age(p, t) > setting.maxTime

\* HoneypotGuard: a person leaves the hidden field empty.
Trapped(website) == website

\* HoneypotGuard, FormTokenGuard and TimingGuard in the order of the decorator.
\* "trap" and "tooFast" are the same fake success for the client.
FirstGuards(p, t, website) ==
  IF Trapped(website) THEN "trap"
  ELSE IF ~verify(p, t) THEN "invalid"
  ELSE IF Remaining(p, t) <= 0 THEN "expired"
  ELSE IF TooFast(p, t) THEN "tooFast"
  ELSE IF TooOld(p, t) THEN "expired"
  ELSE "pass"

Submit(s, p, t, website, widget, right) ==
  /\ submissions[s] = Idle
  /\ submissions' = [submissions EXCEPT ![s] =
       IF FirstGuards(p, t, website) = "pass"
       THEN [phase |-> "turnstile", proc |-> p, token |-> t, widget |-> widget,
             right |-> right]
       ELSE Answered(p, t, FirstGuards(p, t, website))]
  /\ UNCHANGED <<setting, now, boots, tokens, used, lastPruneAt, redeemed, through>>

---------------------------------------------------------------------------
(* The guards that wait.                                                   *)

In(s, phase) == submissions[s].phase = phase

Answer(s, answer) ==
  submissions' = [submissions EXCEPT ![s] = Answered(@.proc, @.token, answer)]

\* What the body carried for a guard is not looked at after it.
ToChallenge(s) ==
  submissions' = [submissions EXCEPT ![s] =
    [phase |-> "challenge", proc |-> @.proc, token |-> @.token, right |-> @.right]]

ToConsume(s) ==
  submissions' = [submissions EXCEPT ![s] =
    [phase |-> "consume", proc |-> @.proc, token |-> @.token]]

TurnstileOff(s) ==
  /\ In(s, "turnstile")
  /\ ~setting.turnstile
  /\ ToChallenge(s)
  /\ UNCHANGED <<setting, now, boots, tokens, used, lastPruneAt, redeemed, through>>

TurnstileMissing(s) ==
  /\ In(s, "turnstile")
  /\ setting.turnstile
  /\ submissions[s].widget = NoWidget
  /\ Answer(s, "captcha")
  /\ UNCHANGED <<setting, now, boots, tokens, used, lastPruneAt, redeemed, through>>

Verifying(s) == In(s, "turnstile") /\ setting.turnstile /\ submissions[s].widget # NoWidget

\* Cloudflare answers, and accepts a widget token at most once.
TurnstileVerdict(s) ==
  LET w == submissions[s].widget IN
  /\ Verifying(s)
  /\ \/ w \notin redeemed /\ redeemed' = redeemed \cup {w} /\ ToChallenge(s)
     \/ UNCHANGED redeemed /\ Answer(s, "captcha")
  /\ UNCHANGED <<setting, now, boots, tokens, used, lastPruneAt, through>>

\* No answer within VERIFY_TIMEOUT_MS, a network error, a status other than 2xx or
\* a body without success.  Cloudflare may have redeemed the token all the same.
TurnstileUnknown(s) ==
  /\ Verifying(s)
  /\ redeemed' \in {redeemed, redeemed \cup {submissions[s].widget}}
  /\ IF setting.failOpen THEN ToChallenge(s) ELSE Answer(s, "captcha")
  /\ UNCHANGED <<setting, now, boots, tokens, used, lastPruneAt, through>>

\* The route or its resource asks for no challenge.
ChallengeNone(s) ==
  /\ In(s, "challenge")
  /\ ToConsume(s)
  /\ UNCHANGED <<setting, now, boots, tokens, used, lastPruneAt, redeemed, through>>

\* Bug: a wrong answer has already spent the token.
ChallengeAsked_Spends(s) ==
  LET p == submissions[s].proc
      t == submissions[s].token
  IN /\ In(s, "challenge")
     /\ used' = IF submissions[s].right THEN used
                ELSE [used EXCEPT ![p] = [u \in {t} |-> [until |-> tokens[t].exp * Second,
                                                         older |-> {}]]]
     /\ IF submissions[s].right THEN ToConsume(s) ELSE Answer(s, "challenge")
     /\ UNCHANGED <<setting, now, boots, tokens, lastPruneAt, redeemed, through>>

\* The resource has an expected answer.
ChallengeAsked(s) ==
  /\ In(s, "challenge")
  /\ IF submissions[s].right THEN ToConsume(s) ELSE Answer(s, "challenge")
  /\ UNCHANGED <<setting, now, boots, tokens, used, lastPruneAt, redeemed, through>>

\* The resource has none configured, or the resolver rejects.
ChallengeImpossible(s) ==
  /\ In(s, "challenge")
  /\ \E answer \in {"challenge", "error"} : Answer(s, answer)
  /\ UNCHANGED <<setting, now, boots, tokens, used, lastPruneAt, redeemed, through>>

---------------------------------------------------------------------------
(* InMemoryTokenStore: m is the Map of a process.  It iterates in insertion *)
(* order, kept as the set of jti inserted before each entry.               *)

Delete(m, S) == [t \in DOMAIN m \ S |-> [until |-> m[t].until, older |-> m[t].older \ S]]

SweepDue(p) == Clock(p) - lastPruneAt[p] >= PruneInterval

Swept(p) ==
  IF SweepDue(p)
  THEN Delete(used[p], {t \in DOMAIN used[p] : used[p][t].until <= Clock(p)})
  ELSE used[p]

AlreadyUsed(m, p, t) == t \in DOMAIN m /\ m[t].until > Clock(p)

\* Map.set keeps the place of a key that is there.
Set(m, t, until) ==
  [u \in DOMAIN m \cup {t} |->
     IF u # t THEN m[u]
     ELSE [until |-> until, older |-> IF t \in DOMAIN m THEN m[t].older ELSE DOMAIN m]]

\* The oldest entries over the cap: those with MaxEntries newer ones.
Excess(m) ==
  {t \in DOMAIN m : Cardinality({u \in DOMAIN m : t \in m[u].older}) >= MaxEntries}

markUsed(p, t, ttl) ==
  LET m    == Swept(p)
      full == Set(m, t, Clock(p) + ttl)
  IN /\ ~AlreadyUsed(m, p, t)
     /\ used' = [used EXCEPT ![p] = Delete(full, Excess(full))]
     /\ through' = [through EXCEPT ![p] = (@ \cup {t}) \ Excess(full)]

SweepOnly(p) == used' = [used EXCEPT ![p] = Swept(p)]

NotePrune(p) ==
  lastPruneAt' = IF SweepDue(p) THEN [lastPruneAt EXCEPT ![p] = Clock(p)] ELSE lastPruneAt

\* Bug: the time that remained when the token was checked is taken to remain still.
LetThrough_NoRecheck(s) ==
  LET p == submissions[s].proc
      t == submissions[s].token
  IN /\ In(s, "consume")
     /\ markUsed(p, t, Remaining(p, t))
     /\ NotePrune(p)
     /\ Answer(s, "handled")
     /\ UNCHANGED <<setting, now, boots, tokens, redeemed>>

\* FormTokenConsumeGuard: the time that remains is worked out again, and the check
\* and the mark are one step.  After this the handler runs.
LetThrough(s) ==
  LET p == submissions[s].proc
      t == submissions[s].token
  IN /\ In(s, "consume")
     /\ Remaining(p, t) > 0
     /\ markUsed(p, t, Remaining(p, t))
     /\ NotePrune(p)
     /\ Answer(s, "handled")
     /\ UNCHANGED <<setting, now, boots, tokens, redeemed>>

RefuseUsed(s) ==
  LET p == submissions[s].proc
      t == submissions[s].token
  IN /\ In(s, "consume")
     /\ Remaining(p, t) > 0
     /\ AlreadyUsed(Swept(p), p, t)
     /\ SweepOnly(p)
     /\ NotePrune(p)
     /\ Answer(s, "used")
     /\ UNCHANGED <<setting, now, boots, tokens, redeemed, through>>

ExpireLate(s) ==
  /\ In(s, "consume")
  /\ Remaining(submissions[s].proc, submissions[s].token) <= 0
  /\ Answer(s, "expired")
  /\ UNCHANGED <<setting, now, boots, tokens, used, lastPruneAt, redeemed, through>>

---------------------------------------------------------------------------
\* The client has its answer.
Leave(s) ==
  /\ In(s, "answered")
  /\ submissions' = [submissions EXCEPT ![s] = Idle]
  /\ UNCHANGED <<setting, now, boots, tokens, used, lastPruneAt, redeemed, through>>

Tick ==
  /\ now < Horizon
  /\ now' = now + 1
  /\ UNCHANGED <<setting, boots, tokens, used, lastPruneAt, submissions, redeemed, through>>

\* The Map is empty again, lastPruneAt is 0 and so long ago; submissions under way
\* at p are lost.
Restart(p) ==
  /\ \A o \in Procs : boots[o] < MaxRestarts
  /\ boots' = [boots EXCEPT ![p] = @ + 1]
  /\ used' = [used EXCEPT ![p] = [t \in {} |-> Idle]]
  /\ lastPruneAt' = [lastPruneAt EXCEPT ![p] = 0 - PruneInterval]
  /\ submissions' = [s \in Slots |->
       IF ~In(s, "idle") /\ submissions[s].proc = p THEN Idle ELSE submissions[s]]
  /\ UNCHANGED <<setting, now, tokens, redeemed, through>>

Init ==
  /\ setting \in Settings
  /\ now = 0
  /\ boots = [p \in Procs |-> 0]
  /\ tokens = [t \in {} |-> Idle]
  /\ used = [p \in Procs |-> [t \in {} |-> Idle]]
  /\ lastPruneAt = [p \in Procs |-> 0 - PruneInterval]
  /\ submissions = [s \in Slots |-> Idle]
  /\ redeemed = {}
  /\ through = [p \in Procs |-> {}]

TurnstileStep(s) ==
  TurnstileOff(s) \/ TurnstileMissing(s) \/ TurnstileVerdict(s) \/ TurnstileUnknown(s)

ChallengeStep(s) == ChallengeNone(s) \/ ChallengeAsked(s) \/ ChallengeImpossible(s)

ConsumeStep(s) == LetThrough(s) \/ RefuseUsed(s) \/ ExpireLate(s)

Next ==
  \/ \E p \in Procs, t \in Tokens : issue(p, t)
  \/ \E s \in Slots, p \in Procs, t \in Tokens, website \in BOOLEAN,
        widget \in Widgets \cup {NoWidget}, right \in BOOLEAN :
       Submit(s, p, t, website, widget, right)
  \/ \E s \in Slots : TurnstileStep(s) \/ ChallengeStep(s) \/ ConsumeStep(s) \/ Leave(s)
  \/ \E p \in Procs : Restart(p)
  \/ Tick

Spec == Init /\ [][Next]_vars

---------------------------------------------------------------------------
(* Properties.                                                             *)

\* Type invariant.
FormToken == [iat : Nat, exp : Nat, by : Procs, boot : Nat, issuedAt : 0 .. Horizon]
Mark      == [until : Nat, older : SUBSET Tokens]
Submission ==
  {Idle}
  \cup [phase : {"turnstile"}, proc : Procs, token : Tokens,
        widget : Widgets \cup {NoWidget}, right : BOOLEAN]
  \cup [phase : {"challenge"}, proc : Procs, token : Tokens, right : BOOLEAN]
  \cup [phase : {"consume"}, proc : Procs, token : Tokens]
  \cup [phase : {"answered"}, proc : Procs, token : Tokens,
        answer : {"trap", "invalid", "expired", "tooFast", "captcha", "challenge",
                  "error", "used", "handled"}]

TypeOK ==
  /\ setting \in Setting
  /\ now \in 0 .. Horizon
  /\ boots \in [Procs -> 0 .. MaxRestarts]
  /\ DOMAIN tokens \subseteq Tokens /\ tokens \in [DOMAIN tokens -> FormToken]
  /\ DOMAIN used = Procs
  /\ \A p \in Procs :
       DOMAIN used[p] \subseteq Tokens /\ used[p] \in [DOMAIN used[p] -> Mark]
  /\ lastPruneAt \in [Procs -> Int]
  /\ submissions \in [Slots -> Submission]
  /\ redeemed \subseteq Widgets
  /\ through \in [Procs -> SUBSET Tokens]

\* The guards and the store keep the promise of SingleUse: between the check of the
\* token and its use it may have been used or have expired, and the mark of use
\* must outlive the token (TokenStore.markUsed, FormTokenConsumeGuard).
Promise ==
  INSTANCE SingleUse WITH
    submissions <- submissions,
    remembered  <- [p \in Procs |-> DOMAIN used[p]],
    expired     <- [p \in Procs |-> {t \in DOMAIN tokens : Remaining(p, t) <= 0}]

ImplementsSingleUse == Promise!Spec

\* With a secret per process a token is let through once by all processes together,
\* restarts included: a process that forgot its marks forgot its secret too.
OnceWithoutSharedSecret ==
  [][\A s \in Slots :
       ~setting.shared /\ LetThrough(s)
         => \A p \in Procs : submissions[s].token \notin through[p]]_vars

\* Nobody is told that a form was already sent unless a submission of it reached
\* the handler: a wrong answer, a failed captcha or a discarded submission leaves
\* the form usable (comment of AntiBot()).
UsedMeansLetThrough ==
  [][\A s \in Slots :
       RefuseUsed(s) => submissions[s].token \in through[submissions[s].proc]]_vars

Answers(s, answer) ==
  /\ submissions'[s].phase = "answered" /\ submissions'[s].answer = answer
  /\ submissions'[s] # submissions[s]

\* How long ago the form in slot s was issued, with what the clocks may add to it.
RealAge(s)  == now - tokens[submissions'[s].token].issuedAt
AheadBy(s)  == Skew[submissions'[s].proc] - Skew[tokens[submissions'[s].token].by]

\* Who takes MinTime to fill the form is not discarded as a robot, although iat is
\* in whole seconds; nor is anyone because the clock that issued the form is ahead by
\* more than the time he took and the second that rounding may add.
PatientAreNotDiscarded ==
  [][\A s \in Slots :
       Answers(s, "tooFast") => RealAge(s) + AheadBy(s) \in (1 - Second) .. (MinTime - 1)]_vars

\* The age from which a form counts as expired: past the window if it is shorter than
\* a second, else what is left of it in whole seconds, less than a second short.
ExpiryAge ==
  IF setting.maxTime < Second THEN setting.maxTime + 1 ELSE setting.maxTime - (Second - 1)

\* A form is refused as expired only when it is as old as that, less the fraction of a
\* second that iat loses to rounding, whether the token or TimingGuard says so.
ExpiredMeansOld ==
  [][\A s \in Slots :
       Answers(s, "expired") => RealAge(s) + AheadBy(s) >= ExpiryAge - (Second - 1)]_vars

\* Of two marks the cap drops the one that expires first (comment of enforceCap).
DroppedExpiresFirst ==
  [][\A s \in Slots :
       LetThrough(s) =>
         LET p == submissions[s].proc IN
         \A t \in DOMAIN used[p] \ DOMAIN used'[p], u \in DOMAIN used[p] \cap DOMAIN used'[p] :
           used[p][t].until <= used[p][u].until]_vars
=============================================================================
