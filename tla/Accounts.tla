------------------------------ MODULE Accounts ------------------------------
(***************************************************************************)
(* The sessions of one account (src/auth/auth.service.ts): signup, login,  *)
(* refresh with rotation and reuse detection, logout, password reset and   *)
(* email verification.                                                     *)
(*                                                                         *)
(* Handlers run concurrently and interleave at their awaits; each          *)
(* $transaction is one step.  A refresh token is a row of the store:       *)
(* "live", "revoked" (revokedAt set) or "gone" (deleted).  Reset and       *)
(* verification tokens are "unused", "used" or "none"; hashes, passwords   *)
(* and mail are left out.                                                  *)
(***************************************************************************)
EXTENDS Naturals

CONSTANTS
  Tokens,       \* refresh tokens the account can be issued
  Devices,      \* callers of login and refresh, one call each at a time
  MaxResets     \* bound: password resets

ASSUME AccountsAssumption == MaxResets \in Nat

VARIABLES
  token,        \* per refresh token: its row
  issuedIn,     \* ghost: per token, the reset its chain was begun after
  signin,       \* per device: its login or refresh call
  resetToken,   \* the password reset token
  resetting,    \* a resetPassword call between its lookup and its transaction
  resets,       \* password resets so far
  verifyToken,  \* the email verification token
  verified

accountVars == <<token, issuedIn, signin, resetToken, resetting, resets, verifyToken, verified>>

NoCall == [op |-> "idle", on |-> {}]
Unissued == {t \in Tokens : token[t] = "unissued"}

AccountsTypeOK ==
  /\ token \in [Tokens -> {"unissued", "live", "revoked", "gone"}]
  /\ issuedIn \in [Tokens -> 0..MaxResets]
  /\ \A d \in Devices : /\ signin[d].op \in {"idle", "login", "refresh"}
                        /\ signin[d].on \subseteq Tokens
  /\ resetToken \in {"none", "unused", "used"} /\ resetting \in BOOLEAN
  /\ resets \in 0..MaxResets
  /\ verifyToken \in {"none", "unused", "used"} /\ verified \in BOOLEAN

\* signup has created the user and issued a verification token
\* (issueEmailVerification).
AccountsInit ==
  /\ token = [t \in Tokens |-> "unissued"]
  /\ issuedIn = [t \in Tokens |-> 0]
  /\ signin = [d \in Devices |-> NoCall]
  /\ resetToken = "none" /\ resetting = FALSE /\ resets = 0
  /\ verifyToken = "unused" /\ verified = FALSE

----------------------------------------------------------------------------
(* Sessions *)

\* generateTokens: a fresh row, the start of a chain.
GenerateTokens(d) ==
  /\ signin[d].op = "login"
  /\ \E t \in Unissued :
       /\ token' = [token EXCEPT ![t] = "live"]
       /\ issuedIn' = [issuedIn EXCEPT ![t] = resets]
  /\ signin' = [signin EXCEPT ![d] = NoCall]
  /\ UNCHANGED <<resetToken, resetting, resets, verifyToken, verified>>

\* login up to the password comparison.
Login(d) ==
  /\ signin[d] = NoCall
  /\ signin' = [signin EXCEPT ![d].op = "login"]
  /\ UNCHANGED <<token, issuedIn, resetToken, resetting, resets, verifyToken, verified>>

\* refreshTokens, the lookup of an active token.
RefreshReads(d, t) ==
  /\ signin[d] = NoCall /\ token[t] = "live"
  /\ signin' = [signin EXCEPT ![d] = [op |-> "refresh", on |-> {t}]]
  /\ UNCHANGED <<token, issuedIn, resetToken, resetting, resets, verifyToken, verified>>

\* A revoked token presented again ends every active session.
RefreshDetectsReuse(t) ==
  /\ token[t] = "revoked"
  /\ token' = [u \in Tokens |-> IF token[u] = "live" THEN "revoked" ELSE token[u]]
  /\ UNCHANGED <<issuedIn, signin, resetToken, resetting, resets, verifyToken, verified>>

\* rotateTokens whose revoke is an updateMany: no row to revoke is no error.
RotateTokens_Lenient(d) ==
  /\ signin[d].op = "refresh"
  /\ \E t \in signin[d].on, u \in Unissued :
       /\ token' = [token EXCEPT ![t] = IF @ = "gone" THEN @ ELSE "revoked", ![u] = "live"]
       /\ issuedIn' = [issuedIn EXCEPT ![u] = issuedIn[t]]
  /\ signin' = [signin EXCEPT ![d] = NoCall]
  /\ UNCHANGED <<resetToken, resetting, resets, verifyToken, verified>>

\* rotateTokens: one transaction; the update throws when the row was deleted in
\* the meantime, and the new row rolls back with it.
RotateTokens(d) ==
  /\ signin[d].op = "refresh"
  /\ \E t \in signin[d].on, u \in Unissued :
       /\ token[t] # "gone"
       /\ token' = [token EXCEPT ![t] = "revoked", ![u] = "live"]
       /\ issuedIn' = [issuedIn EXCEPT ![u] = issuedIn[t]]
  /\ signin' = [signin EXCEPT ![d] = NoCall]
  /\ UNCHANGED <<resetToken, resetting, resets, verifyToken, verified>>

\* The call is refused, fails, or its transaction rolls back.
SigninFails(d) ==
  /\ signin[d].op # "idle"
  /\ signin' = [signin EXCEPT ![d] = NoCall]
  /\ UNCHANGED <<token, issuedIn, resetToken, resetting, resets, verifyToken, verified>>

\* logout deletes the row.
Logout(t) ==
  /\ token[t] \in {"live", "revoked"}
  /\ token' = [token EXCEPT ![t] = "gone"]
  /\ UNCHANGED <<issuedIn, signin, resetToken, resetting, resets, verifyToken, verified>>

----------------------------------------------------------------------------
(* Password reset and email verification *)

\* forgotPassword: the outstanding token is used up, a new one issued.
ForgotPassword ==
  /\ resets < MaxResets /\ resetToken # "unused"
  /\ resetToken' = "unused"
  /\ UNCHANGED <<token, issuedIn, signin, resetting, resets, verifyToken, verified>>

ResetReads ==
  /\ ~resetting /\ resetToken = "unused"
  /\ resetting' = TRUE
  /\ UNCHANGED <<token, issuedIn, signin, resetToken, resets, verifyToken, verified>>

\* resetPassword's transaction: password, reset tokens and every session.
ResetPassword ==
  /\ resetting /\ resets < MaxResets
  /\ resetting' = FALSE
  /\ resetToken' = "used"
  /\ resets' = resets + 1
  /\ token' = [t \in Tokens |-> IF token[t] = "unissued" THEN token[t] ELSE "gone"]
  /\ UNCHANGED <<issuedIn, signin, verifyToken, verified>>

VerifyEmail ==
  /\ verifyToken = "unused"
  /\ verifyToken' = "used" /\ verified' = TRUE
  /\ UNCHANGED <<token, issuedIn, signin, resetToken, resetting, resets>>

ResendVerification ==
  /\ ~verified /\ verifyToken = "used"
  /\ verifyToken' = "unused"
  /\ UNCHANGED <<token, issuedIn, signin, resetToken, resetting, resets, verified>>

\* A token past its TTL no longer verifies.
VerificationLapses ==
  /\ verifyToken = "unused" /\ verifyToken' = "used"
  /\ UNCHANGED <<token, issuedIn, signin, resetToken, resetting, resets, verified>>

AccountsNext ==
  \/ \E d \in Devices :
       \/ Login(d) \/ GenerateTokens(d) \/ RotateTokens(d) \/ SigninFails(d)
       \/ \E t \in Tokens : RefreshReads(d, t)
  \/ \E t \in Tokens : RefreshDetectsReuse(t) \/ Logout(t)
  \/ ForgotPassword \/ ResetReads \/ ResetPassword
  \/ VerifyEmail \/ ResendVerification \/ VerificationLapses

AccountsSpec == AccountsInit /\ [][AccountsNext]_accountVars

----------------------------------------------------------------------------
(* Properties *)

\* A password reset ends every session begun before it: no refresh that was in
\* flight when the reset committed can rotate its way past it
\* (auth.service.ts resetPassword, rotateTokens).
ResetEndsSessions == \A t \in Tokens : token[t] = "live" => issuedIn[t] = resets
=============================================================================
