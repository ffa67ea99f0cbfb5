--------------------------------- MODULE SignUp ---------------------------------
(***************************************************************************)
(* The account of one address: registration, verification by code or link,   *)
(* Google, onboarding, and the reset of a forgotten password, with the       *)
(* counters that limit how many mails an hour are sent.                      *)
(***************************************************************************)
EXTENDS Naturals, Sequences, FiniteSets

CONSTANTS Forms,     \* concurrent requests
          OtpMax,    \* wrong guesses of a code
          MailLimit, \* mails an hour
          MaxCodes   \* bound on the codes of a kind

ASSUME SignUpAssumption == {OtpMax, MailLimit, MaxCodes} \subseteq Nat /\ IsFiniteSet(Forms)

VARIABLES
  person,  \* the row of users
  codes,   \* per kind: rows of email_verifications, of password_reset_sessions
  window,  \* per kind: the counter in Redis, and whether it has a time to live
  form,    \* per request: operation, step, the code it loaded, the codes it marked
  peak     \* history: the most requests that were mailing codes of a kind at once

signUpVars == <<person, codes, window, form, peak>>

Kinds == {"verify", "reset"}

NoPerson == [provider |-> "none", verified |-> FALSE, onboarded |-> FALSE]

NoForm == [op |-> "idle", kind |-> "verify", code |-> 0, attempts |-> 0, marked |-> {}]

NoWindow == [count |-> 0, ttl |-> FALSE]

NewCode == [state |-> "live", attempts |-> 0]

Live(kind) == {n \in DOMAIN codes[kind] : codes[kind][n].state = "live"}

Unused(kind) == {n \in DOMAIN codes[kind] : codes[kind][n].state \in {"live", "proved"}}

Mailing(kind) == {f \in Forms : form[f].op = "mail" /\ form[f].kind = kind}

\* A request begins.
Enter(f, op, kind) ==
  /\ form[f].op = "idle"
  /\ form' = [form EXCEPT ![f] = [NoForm EXCEPT !.op = op, !.kind = kind]]
  /\ UNCHANGED <<person, codes, peak>>

\* A request has loaded a code.
Load(f, op, kind, n) ==
  /\ form[f].op = "idle"
  /\ form' = [form EXCEPT ![f] = [NoForm EXCEPT !.op = op, !.kind = kind, !.code = n,
                                                 !.attempts = codes[kind][n].attempts]]
  /\ UNCHANGED <<person, codes, window, peak>>

Finish(f) == form' = [form EXCEPT ![f] = NoForm] /\ UNCHANGED peak

--------------------------------------------------------------------------------
(* Mails *)

\* Creates the counter with its time to live, unless it exists.
OpenWindow(f, kind) ==
  /\ Enter(f, "window", kind)
  /\ window' = [window EXCEPT ![kind] = IF @.count = 0 /\ ~@.ttl THEN [count |-> 0, ttl |-> TRUE] ELSE @]

\* An hour later, when the request that created it has long counted itself (a counter at
\* 0 might as well not exist).  A counter without a time to live stays.
CloseWindow(kind) ==
  /\ window[kind].ttl /\ window[kind].count > 0
  /\ window' = [window EXCEPT ![kind] = NoWindow]
  /\ UNCHANGED <<person, codes, form, peak>>

Count(kind) == window' = [window EXCEPT ![kind].count = @ + 1]

\* Beyond the limit 429; for an address without such an account nothing happens.
MailRefused(f) ==
  /\ form[f].op = "window" /\ window[form[f].kind].count <= MailLimit
  /\ Count(form[f].kind) /\ Finish(f)
  /\ UNCHANGED <<person, codes>>

\* Mutant of Replaced: a reset session that was proved is not replaced.
ReplacedLive(kind) == Live(kind)

\* The codes a new one replaces.
Replaced(kind) == Unused(kind)

\* Who may ask for a code.
Addressed(kind) ==
  IF kind = "verify" THEN person.provider # "none" /\ ~person.verified ELSE person.provider = "email"

\* Marks the unused codes it sees; nobody else sees the marks before the commit.
MarkCodes(f) ==
  LET kind == form[f].kind
      others == Mailing(kind) \ {f}
  IN  /\ form[f].op = "window" /\ window[kind].count < MailLimit /\ Addressed(kind)
      /\ Count(kind)
      /\ form' = [form EXCEPT ![f].op = "mail", ![f].marked = Replaced(kind)]
      /\ peak' = [peak EXCEPT ![kind] = IF @ > Cardinality(others) THEN @ ELSE Cardinality(others) + 1]
      /\ UNCHANGED <<person, codes>>

\* The marks and the new code are committed, and the code is mailed.
MailCode(f) ==
  LET kind == form[f].kind
      Kept(n) == IF n \in form[f].marked \cap Unused(kind)
                 THEN [codes[kind][n] EXCEPT !.state = "used"] ELSE codes[kind][n]
  IN  /\ form[f].op = "mail" /\ Len(codes[kind]) < MaxCodes
      /\ codes' = [codes EXCEPT ![kind] = Append([n \in DOMAIN @ |-> Kept(n)], NewCode)]
      /\ Finish(f)
      /\ UNCHANGED <<person, window>>

--------------------------------------------------------------------------------
(* The account *)

\* The password is hashed between the look-up and the insert, where the address is unique:
\* account, first code and quota in one commit, or 409.
RegisterBegins(f) ==
  /\ person.provider = "none" /\ Enter(f, "register", "verify")
  /\ UNCHANGED window

Register(f) ==
  /\ form[f].op = "register" /\ Finish(f)
  /\ IF person.provider = "none"
     THEN /\ person' = [NoPerson EXCEPT !.provider = "email"]
          /\ codes' = [codes EXCEPT !["verify"] = Append(@, NewCode)]
     ELSE UNCHANGED <<person, codes>>
  /\ UNCHANGED window

\* Created verified; known by address only if it is not a password account.
GoogleUser ==
  /\ person.provider = "none"
  /\ person' = [NoPerson EXCEPT !.provider = "google", !.verified = TRUE]
  /\ UNCHANGED <<codes, window, form, peak>>

CompleteOnboarding ==
  /\ person.verified /\ ~person.onboarded
  /\ person' = [person EXCEPT !.onboarded = TRUE]
  /\ UNCHANGED <<codes, window, form, peak>>

\* After 24 hours, or 15 minutes, a code is of no more use.
CodeExpires(kind) ==
  /\ \E n \in Unused(kind) : codes' = [codes EXCEPT ![kind][n].state = "used"]
  /\ UNCHANGED <<person, window, form, peak>>

--------------------------------------------------------------------------------
(* Codes: the row is loaded, and written when the request commits *)

EnterOtp(f) ==
  /\ person.provider # "none" /\ ~person.verified
  /\ \E n \in Live("verify") : codes["verify"][n].attempts < OtpMax /\ Load(f, "guess", "verify", n)

EnterLink(f) == \E n \in Live("verify") : Load(f, "link", "verify", n)

\* A wrong code counts one more than was loaded.
WrongOtp(f) ==
  /\ form[f].op = "guess"
  /\ codes' = [codes EXCEPT ![form[f].kind][form[f].code].attempts = form[f].attempts + 1]
  /\ Finish(f)
  /\ UNCHANGED <<person, window>>

VerifyEmail(f) ==
  /\ form[f].op \in {"guess", "link"} /\ form[f].kind = "verify"
  /\ person' = [person EXCEPT !.verified = TRUE]
  /\ codes' = [codes EXCEPT !["verify"][form[f].code].state = "used"]
  /\ Finish(f)
  /\ UNCHANGED window

\* The newest session that is neither verified nor used.
EnterResetOtp(f) ==
  \E n \in Live("reset") :
    /\ \A m \in Live("reset") : m <= n
    /\ codes["reset"][n].attempts < OtpMax
    /\ Load(f, "guess", "reset", n)

EnterResetLink(f) == \E n \in Live("reset") : Load(f, "link", "reset", n)

\* Only the column that says verified is written.
VerifyReset(f) ==
  /\ form[f].op \in {"guess", "link"} /\ form[f].kind = "reset"
  /\ codes' = [codes EXCEPT !["reset"][form[f].code].state = IF @ = "live" THEN "proved" ELSE @]
  /\ Finish(f)
  /\ UNCHANGED <<person, window>>

\* The password is hashed between the look-up and the commit.
ResetBegins(f) ==
  \E n \in Unused("reset") \ Live("reset") : Load(f, "new_password", "reset", n)

ResetPassword(f) ==
  /\ form[f].op = "new_password"
  /\ codes' = [codes EXCEPT ![form[f].kind][form[f].code].state = "used"]
  /\ Finish(f)
  /\ UNCHANGED <<person, window>>

\* The process dies, or the database fails: nothing of the request remains.
FormDies(f) ==
  /\ form[f].op # "idle" /\ Finish(f)
  /\ UNCHANGED <<person, codes, window>>

--------------------------------------------------------------------------------
SignUpInit ==
  /\ person = NoPerson
  /\ codes = [k \in Kinds |-> <<>>] /\ peak = [k \in Kinds |-> 1]
  /\ window = [k \in Kinds |-> NoWindow]
  /\ form = [f \in Forms |-> NoForm]

SignUpNext ==
  \/ \E f \in Forms :
       \/ \E kind \in Kinds : OpenWindow(f, kind)
       \/ MailRefused(f) \/ MarkCodes(f) \/ MailCode(f)
       \/ RegisterBegins(f) \/ Register(f)
       \/ EnterOtp(f) \/ EnterLink(f) \/ WrongOtp(f) \/ VerifyEmail(f)
       \/ EnterResetOtp(f) \/ EnterResetLink(f) \/ VerifyReset(f)
       \/ ResetBegins(f) \/ ResetPassword(f) \/ FormDies(f)
  \/ GoogleUser \/ CompleteOnboarding
  \/ \E kind \in Kinds : CloseWindow(kind) \/ CodeExpires(kind)

SignUpSpec == SignUpInit /\ [][SignUpNext]_signUpVars

--------------------------------------------------------------------------------
(* Properties *)

\* A code replaces the earlier ones: no more codes of a kind can be used than requests
\* were mailing one at once, whatever is proved, reset or lost meanwhile
\* (resend_verification, create_password_reset_session).
FewCodesWork == \A kind \in Kinds : Cardinality(Unused(kind)) <= peak[kind]

\* A counter of mails always carries a time to live (auth_service.py:162-169).
WindowAlwaysCloses == \A kind \in Kinds : window[kind].count > 0 => window[kind].ttl
================================================================================
