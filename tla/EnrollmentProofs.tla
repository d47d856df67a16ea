-------------------------- MODULE EnrollmentProofs --------------------------
(***************************************************************************)
(* Theorems about Enrollment for any users, calls, scans and bounds.       *)
(*                                                                         *)
(* NoAccessLeft is not inductive: it has to be known which list a handler  *)
(* at work will still revoke (AccessInv), a role being revoked before a    *)
(* document.  The two locks are the invariants LockInv: what the holder    *)
(* has read is still so when it writes.                                    *)
(*                                                                         *)
(* UsedTokensReplaced needs to know whose hands tokens are in: what a visit has   *)
(* been given, or a scan renewed, is nobody else's until it is stored, and *)
(* so has not been used (TokenInv).                                        *)
(***************************************************************************)
EXTENDS Enrollment, TLAPS

RoleHeld(u) == \E x \in Call : call[x].user = u /\ call[x].step \in {"role", "unrole"}

(* Whoever is being visited or scanned exists. *)
UserInv ==
    /\ \A x \in Call : call[x].step # "idle" => call[x].user \in User
    /\ \A s \in Scanner : scan[s].step # "idle" => scan[s].user \in known

(* Members of the role will lose it at "unrole", and collaborators of the  *)
(* document at "undoc".                                                    *)
AccessInv ==
    /\ ~Granting => role = {} /\ doc = {} /\ \A x \in Call : call[x].step \notin Touching
    /\ \A u \in role \ (enabled \cup owed) : RoleHeld(u)
    /\ \A u \in doc \ (enabled \cup owed) : AtWork(u)

(* One call at most holds a lock, and what it has read is still so. *)
LockInv ==
    /\ \A x, y \in Call : call[x].step = "first" /\ call[y].step = "first" => x = y
    /\ \A x, y \in Call : call[x].step = "solo" /\ call[y].step = "solo" => x = y
    /\ \A x \in Call : call[x].step = "first" => Bootstrap /\ first = {}
    /\ \A x \in Call : call[x].step = "solo" => Pilot /\ known \subseteq {call[x].user}

IInv == TypeOK /\ UserInv /\ AccessInv /\ LockInv /\ OneFirstUser

LEMMA InitOK == Init => IInv
  BY EnrollmentAssumption
     DEF Init, IInv, TypeOK, UserInv, AccessInv, Granting, LockInv, OneFirstUser, Mode, ConsentState,
         CallState, ScanState, Step, Someone, NoConsent, Nothing, Touching

-----------------------------------------------------------------------------
(* What becomes of the calls. *)

LEMMA CallMoves ==
    ASSUME call \in [Call -> CallState], NEW x \in Call, NEW st \in Step, Goes(x, st)
    PROVE  /\ call' \in [Call -> CallState]
           /\ call'[x] = [call[x] EXCEPT !.step = st]
           /\ call'[x].step = st /\ call'[x].user = call[x].user
           /\ \A y \in Call \ {x} : call'[y] = call[y]
  BY DEF Goes, CallState

LEMMA CallEnds ==
    ASSUME call \in [Call -> CallState], NEW x \in Call, Ends(x)
    PROVE  /\ call' \in [Call -> CallState]
           /\ call'[x].step = "idle"
           /\ \A y \in Call \ {x} : call'[y] = call[y]
  BY EnrollmentAssumption DEF Ends, CallState, Nothing, Step, Someone

LEMMA CallComes ==
    ASSUME call \in [Call -> CallState], NEW x \in Call, NEW st \in Step, NEW u \in User,
           NEW n \in 0 .. MaxTokens, Comes(x, st, u, n)
    PROVE  /\ call' \in [Call -> CallState]
           /\ call'[x].step = st /\ call'[x].user = u
           /\ \A y \in Call \ {x} : call'[y] = call[y]
  BY DEF Comes, CallState, Someone

-----------------------------------------------------------------------------
(* Types. *)

LEMMA RequestTypes ==
    ASSUME TypeOK, UserInv, NEW x \in Call, NEW u \in User, Request(x, u)
    PROVE  TypeOK' /\ UserInv'
<1>. USE EnrollmentAssumption
<1>1. CASE Callback(x, u)
  <2>1. PICK n \in Token : /\ consent' = [consent EXCEPT ![n] = Given(u)]
                           /\ Comes(x, "identified", u, n)
    BY <1>1 DEF Callback
  <2>2. consent' \in [Token -> ConsentState]
    BY <2>1 DEF TypeOK, ConsentState, Given, Someone
  <2>3. n \in 0 .. MaxTokens /\ "identified" \in Step
    BY DEF Token, Step
  <2>4. /\ call' \in [Call -> CallState]
        /\ \A y \in Call : call'[y].step # "idle" => call'[y].user \in User
    BY <2>1, <2>3, CallComes DEF TypeOK, UserInv
  <2>. QED  BY <1>1, <2>2, <2>4 DEF Callback, TypeOK, UserInv, accountVars, accessVars, history
<1>2. CASE Enable(x, u)
  BY <1>2 DEF Enable, EnableUser, TypeOK, UserInv, accessVars, history
<1>3. CASE CheckSolo(x, u)
  BY <1>3, CallComes DEF CheckSolo, CheckSoloUnlocked, TypeOK, UserInv, Step,
                         accountVars, accessVars, history
<1>4. CASE Disable(x, u)
  <2>1. /\ call' \in [Call -> CallState]
        /\ \A y \in Call : call'[y].step # "idle" => call'[y].user \in User
        /\ owed' \subseteq User
    <3>1. CASE Granting
      BY <1>4, <3>1, CallComes DEF Disable, TypeOK, UserInv, Step
    <3>2. CASE ~Granting
      BY <1>4, <3>2 DEF Disable, TypeOK, UserInv
    <3>. QED  BY <3>1, <3>2
  <2>2. tokens' \in [User -> 0 .. MaxTokens] /\ \A v \in User : tokens'[v] # 0 => v \in known'
    BY <1>4 DEF Disable, DisableUser, TypeOK
  <2>. QED  BY <1>4, <2>1, <2>2 DEF Disable, DisableUser, TypeOK, UserInv, accessVars
<1>. QED  BY <1>1, <1>2, <1>3, <1>4 DEF Request

LEMMA HandlerTypes ==
    ASSUME TypeOK, UserInv, NEW x \in Call, NEW u \in User, HandlerStep(x, u)
    PROVE  TypeOK' /\ UserInv'
<1>1. CASE CheckAllowlist(x, u)
  BY <1>1, CallMoves, CallEnds
     DEF CheckAllowlist, TypeOK, UserInv, accountVars, accessVars, history, Step, Is
<1>2. CASE BootstrapRead(x, u)
  <2>1. Goes(x, "first") \/ Goes(x, "bootstrapped") \/ Goes(x, "allowed") \/ Ends(x)
    BY <1>2 DEF BootstrapRead, BootstrapUnlocked
  <2>2. call[x].user \in User /\ call \in [Call -> CallState]
    BY <1>2 DEF BootstrapRead, BootstrapUnlocked, Is, TypeOK
  <2>3. /\ call' \in [Call -> CallState]
        /\ \A y \in Call : call'[y].step # "idle" => call'[y].user \in User
    BY <2>1, <2>2, CallMoves, CallEnds DEF UserInv, Step
  <2>4. UNCHANGED <<mode, accountVars, accessVars, consent, scan, history>>
    BY <1>2 DEF BootstrapRead, BootstrapUnlocked
  <2>. QED  BY <2>3, <2>4 DEF TypeOK, UserInv, accountVars, accessVars, history
<1>3. CASE BootstrapEnable(x, u)
  BY <1>3, CallMoves DEF BootstrapEnable, EnableUser, TypeOK, UserInv, Is, accessVars, Step
<1>4. CASE GrantDoc(x, u)
  BY <1>4, CallMoves DEF GrantDoc, TypeOK, UserInv, Is, accountVars, history, Step
<1>5. CASE GrantRole(x, u)
  BY <1>5, CallMoves DEF GrantRole, TypeOK, UserInv, Is, accountVars, history, Step
<1>6. CASE Activate(x, u)
  <2>1. CASE u \in enabled
    <3>1. tokens' \in [User -> 0 .. MaxTokens] /\ \A v \in User : tokens'[v] # 0 => v \in known
      BY <1>6, <2>1 DEF Activate, ActivateUser, TypeOK, CallState
    <3>. QED  BY <1>6, <2>1, <3>1, CallEnds
              DEF Activate, ActivateUser, TypeOK, UserInv, accessVars, history
  <2>2. CASE u \notin enabled
    <3>1. Goes(x, "unrole") \/ Ends(x)
      BY <1>6, <2>2 DEF Activate
    <3>2. call[x].user \in User
      BY <1>6 DEF Activate, Ready, Is
    <3>3. /\ call' \in [Call -> CallState]
          /\ \A y \in Call : call'[y].step # "idle" => call'[y].user \in User
      BY <3>1, <3>2, CallMoves, CallEnds DEF TypeOK, UserInv, Step
    <3>. QED  BY <1>6, <2>2, <3>3
              DEF Activate, TypeOK, UserInv, accountVars, accessVars, history
  <2>. QED  BY <2>1, <2>2
<1>7. CASE EnableSolo(x, u)
  BY <1>7, CallEnds DEF EnableSolo, EnableUser, TypeOK, UserInv, accessVars, history
<1>8. CASE RevokeRole(x, u)
  BY <1>8, CallMoves DEF RevokeRole, TypeOK, UserInv, Is, accountVars, history, Step
<1>9. CASE RevokeDoc(x, u)
  BY <1>9, CallEnds DEF RevokeDoc, TypeOK, UserInv, accountVars, history
<1>. QED  BY <1>1, <1>2, <1>3, <1>4, <1>5, <1>6, <1>7, <1>8, <1>9 DEF HandlerStep

LEMMA ScanTypes ==
    ASSUME TypeOK, UserInv, NEW s \in Scanner, NEW u \in User, ListActive(s, u) \/ ScanStep(s, u)
    PROVE  TypeOK' /\ UserInv'
<1>. USE EnrollmentAssumption DEF TypeOK, UserInv, accessVars, history
<1>1. CASE ListActive(s, u)
  <2>1. scan' \in [Scanner -> ScanState]
    BY <1>1 DEF ListActive, ScanState, Someone
  <2>2. \A r \in Scanner : scan'[r].step # "idle" => scan'[r].user \in known
    BY <1>1 DEF ListActive
  <2>. QED  BY <1>1, <2>1, <2>2 DEF ListActive, accountVars
<1>2. CASE RefreshToken(s, u)
  <2>1. CASE consent[scan[s].token].state = "live"
    <3>1. PICK n \in Token :
            /\ consent' = [consent EXCEPT ![scan[s].token].state = "used", ![n] = Given(u)]
            /\ scan' = [scan EXCEPT ![s].step = "store", ![s].token = n]
      BY <1>2, <2>1 DEF RefreshToken
    <3>2. consent' \in [Token -> ConsentState]
      <4>1. Given(u) \in ConsentState
        BY DEF Given, ConsentState, Someone
      <4>2. [consent EXCEPT ![scan[s].token].state = "used"] \in [Token -> ConsentState]
        BY DEF ConsentState
      <4>. QED  BY <3>1, <4>1, <4>2
    <3>3. scan' \in [Scanner -> ScanState]
      <4>1. [scan EXCEPT ![s].step = "store"] \in [Scanner -> ScanState]
        BY DEF ScanState
      <4>2. n \in 0 .. MaxTokens
        BY DEF Token
      <4>. QED  BY <3>1, <4>1, <4>2 DEF ScanState
    <3>4. \A r \in Scanner : scan'[r].step # "idle" => scan'[r].user \in known
      <4>1. scan[s].user \in known
        BY <1>2 DEF RefreshToken, ScanIs
      <4>2. scan'[s].user = scan[s].user /\ \A r \in Scanner \ {s} : scan'[r] = scan[r]
        BY <3>1 DEF ScanState
      <4>. QED  BY <4>1, <4>2
    <3>. QED  BY <1>2, <3>2, <3>3, <3>4 DEF RefreshToken, accountVars
  <2>2. CASE consent[scan[s].token].state # "live"
    <3>1. scan' = [scan EXCEPT ![s].step = "expire"] /\ UNCHANGED consent
      BY <1>2, <2>2 DEF RefreshToken
    <3>2. scan[s].user \in known
      BY <1>2 DEF RefreshToken, ScanIs
    <3>3. /\ scan' \in [Scanner -> ScanState]
          /\ \A r \in Scanner : scan'[r].step # "idle" => scan'[r].user \in known
      BY <3>1, <3>2 DEF ScanState
    <3>. QED  BY <1>2, <3>1, <3>3 DEF RefreshToken, accountVars
  <2>. QED  BY <2>1, <2>2
<1>3. CASE StoreTokens(s, u)
  <2>1. tokens' \in [User -> 0 .. MaxTokens] /\ \A v \in User : tokens'[v] # 0 => v \in known
    BY <1>3 DEF StoreTokens, ScanIs, ScanState
  <2>. QED  BY <1>3, <2>1 DEF StoreTokens, ScanIs, ScanState
<1>4. CASE ListChats(s, u)
  BY <1>4 DEF ListChats, ScanState, Nothing, Someone, accountVars
<1>5. CASE MarkExpired(s, u)
  BY <1>5 DEF MarkExpired, ScanState, Nothing, Someone
<1>. QED  BY <1>1, <1>2, <1>3, <1>4, <1>5 DEF ScanStep

LEMMA OutsideTypes ==
    ASSUME TypeOK, UserInv,
           \/ \E u \in User : Withdraw(u)
           \/ \E x \in Call : CallFails(x)
           \/ \E s \in Scanner : ScanFails(s)
           \/ Restart
    PROVE  TypeOK' /\ UserInv'
<1>. USE EnrollmentAssumption DEF TypeOK, UserInv, accountVars, accessVars
<1>1. ASSUME NEW u \in User, Withdraw(u) PROVE TypeOK' /\ UserInv'
  BY <1>1 DEF Withdraw, ConsentState, history
<1>2. ASSUME NEW x \in Call, CallFails(x) PROVE TypeOK' /\ UserInv'
  <2>1. faults' \in 0 .. MaxFaults /\ owed' \subseteq User
    BY <1>2 DEF CallFails, Fault
  <2>. QED  BY <1>2, <2>1, CallEnds DEF CallFails
<1>3. ASSUME NEW s \in Scanner, ScanFails(s) PROVE TypeOK' /\ UserInv'
  BY <1>3 DEF ScanFails, Fault, ScanState, Nothing, Someone
<1>4. CASE Restart
  <2>1. mode' \in Mode /\ faults' \in 0 .. MaxFaults /\ owed' \subseteq User
    BY <1>4 DEF Restart, Fault, Mode
  <2>2. call' \in [Call -> CallState] /\ scan' \in [Scanner -> ScanState]
    BY <1>4 DEF Restart, CallState, ScanState, Nothing, Someone, Step
  <2>. QED  BY <1>4, <2>1, <2>2 DEF Restart, Nothing
<1>. QED  BY <1>1, <1>2, <1>3, <1>4

-----------------------------------------------------------------------------
(* The members of the Bitable. *)

(* Steps that neither change the members nor stop, or start, a handler that *)
(* grants or revokes.                                                       *)
LEMMA AccessFrame ==
    ASSUME AccessInv, UNCHANGED <<mode, role, doc, owed>>, enabled \subseteq enabled',
           \A y \in Call : call[y].step \in Touching => call'[y] = call[y],
           \A y \in Call : call'[y].step \in Touching => call[y].step \in Touching
    PROVE  AccessInv'
<1>1. \A u : AtWork(u) => AtWork(u)'
  BY DEF AtWork
<1>2. \A u : RoleHeld(u) => RoleHeld(u)'
  BY DEF RoleHeld, Touching
<1>. QED  BY <1>1, <1>2 DEF AccessInv, Granting

LEMMA RequestAccess ==
    ASSUME TypeOK, AccessInv, NEW x \in Call, NEW u \in User, Request(x, u)
    PROVE  AccessInv'
<1>. USE EnrollmentAssumption DEF TypeOK
<1>1. CASE Callback(x, u)
  <2>1. PICK n \in Token : Comes(x, "identified", u, n)
    BY <1>1 DEF Callback
  <2>2. /\ call[x].step = "idle" /\ call'[x].step = "identified"
        /\ \A y \in Call \ {x} : call'[y] = call[y]
    BY <1>1, <2>1, CallComes DEF Callback, Token, Step
  <2>. QED  BY <1>1, <2>2, AccessFrame
            DEF Callback, accountVars, accessVars, history, Touching
<1>2. CASE Enable(x, u)
  BY <1>2, AccessFrame DEF Enable, EnableUser, accessVars, history
<1>3. CASE CheckSolo(x, u)
  <2>1. /\ call[x].step = "idle" /\ call'[x].step = "solo"
        /\ \A y \in Call \ {x} : call'[y] = call[y]
    BY <1>3, CallComes DEF CheckSolo, CheckSoloUnlocked, Step
  <2>. QED  BY <1>3, <2>1, AccessFrame
            DEF CheckSolo, CheckSoloUnlocked, accountVars, accessVars, history, Touching
<1>4. CASE Disable(x, u)
  <2>1. CASE ~Granting
    BY <1>4, <2>1 DEF Disable, AccessInv, Granting, accessVars
  <2>2. CASE Granting
    <3>1. /\ call[x].step = "idle"
          /\ call'[x].step = "unrole" /\ call'[x].user = u
          /\ \A y \in Call \ {x} : call'[y] = call[y]
      BY <1>4, <2>2, CallComes DEF Disable, Step
    <3>2. /\ enabled' = enabled \ {u} /\ owed' = owed \ {u}
          /\ role' = role /\ doc' = doc /\ mode' = mode
      BY <1>4, <2>2 DEF Disable, DisableUser, accessVars
    <3>3. AtWork(u)' /\ RoleHeld(u)'
      BY <3>1 DEF AtWork, RoleHeld, Touching
    <3>4. \A v \in User : (AtWork(v) => AtWork(v)') /\ (RoleHeld(v) => RoleHeld(v)')
      BY <3>1 DEF AtWork, RoleHeld, Touching
    <3>. QED  BY <2>2, <3>2, <3>3, <3>4 DEF AccessInv, Granting
  <2>. QED  BY <2>1, <2>2
<1>. QED  BY <1>1, <1>2, <1>3, <1>4 DEF Request

LEMMA HandlerAccess ==
    ASSUME TypeOK, AccessInv, NEW x \in Call, NEW u \in User, HandlerStep(x, u)
    PROVE  AccessInv'
<1>. USE DEF TypeOK, Touching
<1>1. CASE CheckAllowlist(x, u)
  BY <1>1, AccessFrame, CallMoves, CallEnds
     DEF CheckAllowlist, Is, accountVars, accessVars, history, Step
<1>2. CASE BootstrapRead(x, u)
  <2>1. Goes(x, "first") \/ Goes(x, "bootstrapped") \/ Goes(x, "allowed") \/ Ends(x)
    BY <1>2 DEF BootstrapRead, BootstrapUnlocked
  <2>2. /\ call[x].step = "identified" /\ call'[x].step \in {"first", "bootstrapped", "allowed", "idle"}
        /\ \A y \in Call \ {x} : call'[y] = call[y]
    BY <1>2, <2>1, CallMoves, CallEnds DEF BootstrapRead, BootstrapUnlocked, Is, Step
  <2>. QED  BY <1>2, <2>2, AccessFrame
            DEF BootstrapRead, BootstrapUnlocked, accountVars, accessVars, history
<1>3. CASE BootstrapEnable(x, u)
  BY <1>3, AccessFrame, CallMoves DEF BootstrapEnable, EnableUser, Is, accessVars, Step
<1>4. CASE EnableSolo(x, u)
  BY <1>4, AccessFrame, CallEnds DEF EnableSolo, EnableUser, Is, accessVars, history
<1>5. CASE GrantDoc(x, u)
  <2>1. /\ call[x].step = "allowed" /\ call'[x].step = "doc" /\ call'[x].user = u
        /\ \A y \in Call \ {x} : call'[y] = call[y]
    BY <1>5, CallMoves DEF GrantDoc, Is, Step
  <2>2. AtWork(u)' /\ \A v : (AtWork(v) => AtWork(v)') /\ (RoleHeld(v) => RoleHeld(v)')
    BY <2>1 DEF AtWork, RoleHeld
  <2>. QED  BY <1>5, <2>2 DEF GrantDoc, AccessInv, Granting, accountVars, history
<1>6. CASE GrantRole(x, u)
  <2>1. /\ call[x].step = "doc" /\ call'[x].step = "role" /\ call'[x].user = u
        /\ call[x].user = u /\ \A y \in Call \ {x} : call'[y] = call[y]
    BY <1>6, CallMoves DEF GrantRole, Is, Step
  <2>2. RoleHeld(u)' /\ \A v : (AtWork(v) => AtWork(v)') /\ (RoleHeld(v) => RoleHeld(v)')
    BY <2>1 DEF AtWork, RoleHeld
  <2>. QED  BY <1>6, <2>1, <2>2 DEF GrantRole, AccessInv, Granting, accountVars, history
<1>7. CASE Activate(x, u)
  <2>1. CASE call[x].step # "role"
    <3>1. call[x].step \notin Touching
      BY <1>7, <2>1 DEF Activate, Ready, Is
    <3>2. call'[x].step = "idle" /\ \A y \in Call \ {x} : call'[y] = call[y]
      BY <1>7, <2>1, CallEnds DEF Activate
    <3>3. UNCHANGED <<mode, role, doc, owed, enabled>>
      BY <1>7 DEF Activate, ActivateUser, accountVars, accessVars, history
    <3>. QED  BY <3>1, <3>2, <3>3, AccessFrame
  <2>2. CASE call[x].step = "role" /\ u \in enabled
    <3>1. /\ call[x].user = u /\ call'[x].step = "idle"
          /\ \A y \in Call \ {x} : call'[y] = call[y]
      BY <1>7, <2>2, CallEnds DEF Activate, Ready, Is
    <3>2. \A v : v # u => (AtWork(v) => AtWork(v)') /\ (RoleHeld(v) => RoleHeld(v)')
      BY <3>1 DEF AtWork, RoleHeld
    <3>. QED  BY <1>7, <2>2, <3>1, <3>2
              DEF Activate, ActivateUser, AccessInv, Granting, accessVars, history
  <2>3. CASE call[x].step = "role" /\ u \notin enabled
    <3>1. /\ call[x].user = u /\ call'[x].step = "unrole" /\ call'[x].user = u
          /\ \A y \in Call \ {x} : call'[y] = call[y]
      BY <1>7, <2>3, CallMoves DEF Activate, Ready, Is, Step
    <3>2. \A v : (AtWork(v) => AtWork(v)') /\ (RoleHeld(v) => RoleHeld(v)')
      BY <3>1 DEF AtWork, RoleHeld
    <3>. QED  BY <1>7, <2>3, <3>2 DEF Activate, AccessInv, Granting, accountVars, accessVars, history
  <2>. QED  BY <2>1, <2>2, <2>3
<1>8. CASE RevokeRole(x, u)
  <2>1. /\ call[x].step = "unrole" /\ call[x].user = u
        /\ call'[x].step = "undoc" /\ call'[x].user = u
        /\ \A y \in Call \ {x} : call'[y] = call[y]
    BY <1>8, CallMoves DEF RevokeRole, Is, Step
  <2>2. \A v : (AtWork(v) => AtWork(v)') /\ (v # u => (RoleHeld(v) => RoleHeld(v)'))
    BY <2>1 DEF AtWork, RoleHeld
  <2>. QED  BY <1>8, <2>1, <2>2 DEF RevokeRole, AccessInv, Granting, accountVars, history
<1>9. CASE RevokeDoc(x, u)
  <2>1. /\ call[x].step = "undoc" /\ call[x].user = u /\ call'[x].step = "idle"
        /\ \A y \in Call \ {x} : call'[y] = call[y]
    BY <1>9, CallEnds DEF RevokeDoc, Is
  <2>2. \A v : (RoleHeld(v) => RoleHeld(v)') /\ (v # u => (AtWork(v) => AtWork(v)'))
    BY <2>1 DEF AtWork, RoleHeld
  <2>. QED  BY <1>9, <2>1, <2>2 DEF RevokeDoc, AccessInv, Granting, accountVars, history
<1>. QED  BY <1>1, <1>2, <1>3, <1>4, <1>5, <1>6, <1>7, <1>8, <1>9 DEF HandlerStep

LEMMA OutsideAccess ==
    ASSUME TypeOK, AccessInv,
           \/ \E x \in Call : CallFails(x)
           \/ Restart
    PROVE  AccessInv'
<1>1. ASSUME NEW x \in Call, CallFails(x) PROVE AccessInv'
  <2>1. call'[x].step = "idle" /\ \A y \in Call \ {x} : call'[y] = call[y]
    BY <1>1, CallEnds DEF CallFails, TypeOK
  <2>2. call[x].step \in Touching => call[x].user \in owed'
    BY <1>1 DEF CallFails
  <2>3. \A v : v \notin owed' => (AtWork(v) => AtWork(v)') /\ (RoleHeld(v) => RoleHeld(v)')
    BY <2>1, <2>2 DEF AtWork, RoleHeld, Touching
  <2>4. owed \subseteq owed' /\ UNCHANGED <<mode, role, doc, enabled>>
    BY <1>1 DEF CallFails, accountVars, accessVars
  <2>. QED  BY <2>1, <2>3, <2>4 DEF AccessInv, Granting, Touching
<1>2. CASE Restart
  <2>1. \A v \in User : (AtWork(v) \/ RoleHeld(v)) => v \in owed'
    BY <1>2 DEF Restart, AtWork, RoleHeld, Touching
  <2>2. /\ owed \subseteq owed' /\ UNCHANGED <<role, doc, enabled>>
        /\ ~Granting' => ~Granting
    BY <1>2 DEF Restart, Granting, accountVars, accessVars
  <2>3. \A x \in Call : call'[x].step = "idle"
    BY <1>2 DEF Restart, Nothing
  <2>. QED  BY <2>1, <2>2, <2>3 DEF AccessInv, Granting, TypeOK, Touching
<1>. QED  BY <1>1, <1>2

-----------------------------------------------------------------------------
(* The locks. *)

LEMMA RequestLocks ==
    ASSUME TypeOK, LockInv, NEW x \in Call, NEW u \in User, Request(x, u)
    PROVE  LockInv'
<1>. USE EnrollmentAssumption DEF TypeOK
<1>1. CASE Callback(x, u)
  <2>1. PICK n \in Token : Comes(x, "identified", u, n)
    BY <1>1 DEF Callback
  <2>2. call'[x].step = "identified" /\ \A y \in Call \ {x} : call'[y] = call[y]
    BY <2>1, CallComes DEF Token, Step
  <2>. QED  BY <1>1, <2>2 DEF Callback, LockInv, Pilot, Bootstrap, accountVars, history
<1>2. CASE Enable(x, u)
  BY <1>2 DEF Enable, LockInv, Pilot, Bootstrap, history
<1>3. CASE CheckSolo(x, u)
  <2>1. /\ call'[x].step = "solo" /\ call'[x].user = u
        /\ \A y \in Call \ {x} : call'[y] = call[y]
    BY <1>3, CallComes DEF CheckSolo, CheckSoloUnlocked, Step
  <2>. QED  BY <1>3, <2>1
            DEF CheckSolo, CheckSoloUnlocked, LockInv, Pilot, Bootstrap, accountVars, history
<1>4. CASE Disable(x, u)
  <2>1. \A y \in Call : call'[y] = call[y] \/ call'[y].step = "unrole"
    BY <1>4, CallComes DEF Disable, Step
  <2>. QED  BY <1>4, <2>1 DEF Disable, DisableUser, LockInv, Pilot, Bootstrap
<1>. QED  BY <1>1, <1>2, <1>3, <1>4 DEF Request

LEMMA HandlerLocks ==
    ASSUME TypeOK, LockInv, OneFirstUser, NEW x \in Call, NEW u \in User, HandlerStep(x, u)
    PROVE  LockInv' /\ OneFirstUser'
<1>. USE DEF TypeOK
<1>1. CASE BootstrapRead(x, u)
  <2>1. CASE Goes(x, "first")
    <3>1. /\ call'[x].step = "first"
          /\ \A y \in Call \ {x} : call'[y] = call[y] /\ call[y].step # "first"
      BY <1>1, <2>1, CallMoves DEF BootstrapRead, Step
    <3>2. known = {}
      <4>1. CASE ~(u \notin enabled /\ known = {})
        <5>1. Goes(x, "bootstrapped") \/ Goes(x, "allowed") \/ Ends(x)
          BY <1>1, <4>1 DEF BootstrapRead, BootstrapUnlocked
        <5>2. call'[x].step # "first"
          BY <5>1, CallMoves, CallEnds DEF Step
        <5>. QED  BY <3>1, <5>2
      <4>. QED  BY <4>1
    <3>. QED  BY <1>1, <3>1, <3>2
              DEF BootstrapRead, BootstrapUnlocked, LockInv, OneFirstUser, Pilot, Bootstrap,
                  accountVars, history
  <2>2. CASE Goes(x, "bootstrapped") \/ Goes(x, "allowed") \/ Ends(x)
    <3>1. call'[x].step \notin {"first", "solo"} /\ \A y \in Call \ {x} : call'[y] = call[y]
      BY <2>2, CallMoves, CallEnds DEF Step
    <3>. QED  BY <1>1, <3>1
              DEF BootstrapRead, BootstrapUnlocked, LockInv, OneFirstUser, Pilot, Bootstrap,
                  accountVars, history
  <2>. QED  BY <1>1, <2>1, <2>2 DEF BootstrapRead, BootstrapUnlocked
<1>2. CASE BootstrapEnable(x, u)
  <2>1. /\ call[x].step = "first" /\ call'[x].step = "bootstrapped"
        /\ \A y \in Call \ {x} : call'[y] = call[y]
    BY <1>2, CallMoves DEF BootstrapEnable, Is, Step
  <2>2. Bootstrap /\ first = {} /\ \A y \in Call : call[y].step # "solo"
    BY <2>1 DEF LockInv, Pilot, Bootstrap
  <2>3. \A y \in Call : call'[y].step \notin {"first", "solo"}
    BY <2>1, <2>2 DEF LockInv
  <2>. QED  BY <1>2, <2>2, <2>3 DEF BootstrapEnable, LockInv, OneFirstUser
<1>3. CASE EnableSolo(x, u)
  <2>1. /\ call[x].step = "solo" /\ call'[x].step = "idle"
        /\ \A y \in Call \ {x} : call'[y] = call[y]
    BY <1>3, CallEnds DEF EnableSolo, Is
  <2>2. \A y \in Call : call'[y].step # "solo"
    BY <2>1 DEF LockInv
  <2>. QED  BY <1>3, <2>1, <2>2 DEF EnableSolo, LockInv, OneFirstUser, Pilot, Bootstrap, history
<1>4. CASE \/ CheckAllowlist(x, u) \/ GrantDoc(x, u) \/ GrantRole(x, u) \/ Activate(x, u)
           \/ RevokeRole(x, u) \/ RevokeDoc(x, u)
  <2>1. \/ Ends(x)
        \/ \E st \in Step \ {"first", "solo"} : Goes(x, st)
    BY <1>4 DEF CheckAllowlist, GrantDoc, GrantRole, Activate, RevokeRole, RevokeDoc, Step
  <2>2. call'[x].step \notin {"first", "solo"} /\ \A y \in Call \ {x} : call'[y] = call[y]
    BY <2>1, CallMoves, CallEnds
  <2>3. UNCHANGED <<mode, known, first>>
    BY <1>4 DEF CheckAllowlist, GrantDoc, GrantRole, Activate, ActivateUser, RevokeRole,
                RevokeDoc, accountVars, history
  <2>. QED  BY <2>2, <2>3 DEF LockInv, OneFirstUser, Pilot, Bootstrap
<1>. QED  BY <1>1, <1>2, <1>3, <1>4 DEF HandlerStep

-----------------------------------------------------------------------------
LEMMA StepOK == ASSUME IInv, [Next]_vars PROVE IInv'
<1>1. ASSUME NEW x \in Call, NEW u \in Visitor, Request(x, u) PROVE IInv'
  <2>1. u \in User
    BY DEF Visitor, User
  <2>2. UNCHANGED first
    BY <1>1 DEF Request, Callback, Enable, CheckSolo, CheckSoloUnlocked, Disable, history
  <2>. QED  BY <1>1, <2>1, <2>2, RequestTypes, RequestAccess, RequestLocks DEF IInv, OneFirstUser
<1>2. ASSUME NEW x \in Call, NEW u \in User, HandlerStep(x, u) PROVE IInv'
  BY <1>2, HandlerTypes, HandlerAccess, HandlerLocks DEF IInv
<1>3. ASSUME NEW s \in Scanner, NEW u \in User, ListActive(s, u) \/ ScanStep(s, u) PROVE IInv'
  <2>1. UNCHANGED <<mode, known, enabled, role, doc, call, first, owed>>
    BY <1>3 DEF ListActive, ScanStep, RefreshToken, StoreTokens, ListChats, MarkExpired,
                accountVars, accessVars, history
  <2>. QED  BY <1>3, <2>1, ScanTypes, AccessFrame DEF IInv, LockInv, OneFirstUser, Pilot, Bootstrap
<1>4. CASE (\E u \in User : Withdraw(u)) \/ (\E s \in Scanner : ScanFails(s))
  <2>1. UNCHANGED <<mode, known, enabled, role, doc, call, first, owed>>
    BY <1>4 DEF Withdraw, ScanFails, accountVars, accessVars, history
  <2>. QED  BY <1>4, <2>1, OutsideTypes, AccessFrame DEF IInv, LockInv, OneFirstUser, Pilot, Bootstrap
<1>5. ASSUME NEW x \in Call, CallFails(x) PROVE IInv'
  <2>1. call'[x].step = "idle" /\ \A y \in Call \ {x} : call'[y] = call[y]
    BY <1>5, CallEnds DEF CallFails, IInv, TypeOK
  <2>2. UNCHANGED <<mode, known, first>>
    BY <1>5 DEF CallFails, accountVars
  <2>3. LockInv' /\ OneFirstUser'
    BY <2>1, <2>2 DEF IInv, LockInv, OneFirstUser, Pilot, Bootstrap
  <2>. QED  BY <1>5, <2>3, OutsideTypes, OutsideAccess DEF IInv
<1>6. CASE Restart
  <2>1. LockInv' /\ OneFirstUser'
    BY <1>6 DEF Restart, Nothing, IInv, LockInv, OneFirstUser
  <2>. QED  BY <1>6, <2>1, OutsideTypes, OutsideAccess DEF IInv
<1>7. CASE UNCHANGED vars
  <2>1. TypeOK' /\ UserInv'
    BY <1>7 DEF IInv, TypeOK, UserInv, vars, accountVars, accessVars, history
  <2>. QED  BY <1>7, <2>1, AccessFrame
            DEF IInv, LockInv, OneFirstUser, Pilot, Bootstrap, vars, accountVars, accessVars, history
<1>. QED  BY <1>1, <1>2, <1>3, <1>4, <1>5, <1>6, <1>7 DEF Next

LEMMA Invariance == Spec => []IInv
  BY InitOK, StepOK, PTL DEF Spec

-----------------------------------------------------------------------------
(* The variables stay in their types: tokens are stored for users with a   *)
(* row only, whatever scans, callbacks and restarts interleave.            *)
THEOREM TypeCorrect == Spec => []TypeOK
<1>1. IInv => TypeOK
  BY DEF IInv
<1>. QED  BY <1>1, Invariance, PTL

(* For any number of users and of requests at a time: a user who is not    *)
(* enabled has access to the Bitable only while a handler is at work that  *)
(* will revoke it, or after a failure that was reported.                   *)
THEOREM AccessTakenBack == Spec => []NoAccessLeft
<1>1. IInv => NoAccessLeft
  <2> SUFFICES ASSUME IInv, NEW u \in (role \cup doc) \ (enabled \cup owed) PROVE AtWork(u)
    BY DEF NoAccessLeft
  <2>1. CASE u \in doc
    BY <2>1 DEF IInv, AccessInv, Granting
  <2>2. CASE u \in role
    BY <2>2 DEF IInv, AccessInv, Granting, RoleHeld, AtWork, Touching
  <2>. QED  BY <2>1, <2>2
<1>. QED  BY <1>1, Invariance, PTL

(* bootstrap_lock: however many visit at the same time, one is the first.  *)
THEOREM BootstrapOnce == Spec => []OneFirstUser
<1>1. IInv => OneFirstUser
  BY DEF IInv
<1>. QED  BY <1>1, Invariance, PTL

(* single_user_lock: a pilot enrols no second identity.                    *)
THEOREM PilotAlone == Spec => OneIdentity
<1>1. ASSUME IInv, [Next]_vars, Pilot, NEW u \in known' \ known PROVE known' = {u}
  <2>1. PICK x \in Call, v \in User : EnableSolo(x, v) \/ BootstrapEnable(x, v)
    <3>1. known' # known
      OBVIOUS
    <3>. QED  BY <1>1, <3>1
              DEF Next, Request, HandlerStep, ScanStep, vars, accountVars, Callback, Enable,
                  CheckSolo, CheckSoloUnlocked, Disable, DisableUser, CheckAllowlist,
                  BootstrapRead, BootstrapUnlocked, GrantDoc, GrantRole, Activate,
                  ActivateUser, RevokeRole, RevokeDoc, ListActive, RefreshToken, StoreTokens,
                  ListChats, MarkExpired, Withdraw, CallFails, ScanFails, Restart
  <2>2. EnableSolo(x, v)
    BY <1>1, <2>1 DEF BootstrapEnable, Is, IInv, LockInv, Pilot, Bootstrap
  <2>3. known \subseteq {v} /\ known' = known \cup {v}
    BY <1>1, <2>2 DEF EnableSolo, EnableUser, Is, IInv, LockInv
  <2>. QED  BY <2>3
<1>2. IInv /\ [Next]_vars => [Pilot => \A u \in known' \ known : known' = {u}]_vars
  BY <1>1
<1>. QED  BY <1>2, Invariance, PTL DEF Spec, OneIdentity

-----------------------------------------------------------------------------
(* Tokens. *)

(* Whatever is stored or at hand for a user comes from a consent of that   *)
(* user.                                                                   *)
Issued(n, u) == n = 0 \/ (n \in Token /\ consent[n].state # "none" /\ consent[n].user = u)

Owned ==
    /\ \A u \in User : Issued(tokens[u], u)
    /\ \A x \in Call : Issued(call[x].token, call[x].user)
    /\ \A s \in Scanner : Issued(scan[s].token, scan[s].user)

(* What a visit has been given and not stored yet is known to the visit    *)
(* only, and what a scan has renewed and not stored yet to the scan only:  *)
(* nobody can have used it.                                                *)
VisitsAlone ==
    \A x \in Call : call[x].token # 0 =>
        /\ consent[call[x].token].state # "used"
        /\ \A u \in User : tokens[u] # call[x].token
        /\ \A s \in Scanner : scan[s].token # call[x].token
        /\ \A y \in Call \ {x} : call[y].token # call[x].token

ScansAlone ==
    \A s \in Scanner : scan[s].step = "store" =>
        /\ scan[s].token # 0
        /\ consent[scan[s].token].state # "used"
        /\ \A u \in User : tokens[u] # scan[s].token
        /\ \A r \in Scanner \ {s} : scan[r].token # scan[s].token

Underway ==
    faults = 0 =>
        \A u \in User : tokens[u] # 0 /\ consent[tokens[u]].state = "used" =>
            \E s \in Scanner : ScanIs(s, "store", u)

TokenInv == Owned /\ VisitsAlone /\ ScansAlone /\ Underway

LEMMA TokensInit == Init => TokenInv
  BY DEF Init, TokenInv, Owned, Issued, VisitsAlone, ScansAlone, Underway, Nothing

(* Steps that forget tokens, or withdraw a consent, and hand out nothing.  *)
LEMMA TokensFrame ==
    ASSUME TokenInv,
           \A n \in Token : /\ consent'[n].user = consent[n].user
                            /\ consent'[n].state = "used" => consent[n].state = "used"
                            /\ consent[n].state # "none" => consent'[n].state # "none",
           \A u \in User : tokens'[u] \in {tokens[u], 0},
           \A x \in Call : \/ call'[x].token = 0
                           \/ call'[x].token = call[x].token /\ call'[x].user = call[x].user,
           \A s \in Scanner : \/ scan'[s].token = 0
                              \/ scan'[s].token = scan[s].token /\ scan'[s].user = scan[s].user,
           \A s \in Scanner : scan'[s].step = "store" => scan'[s] = scan[s],
           faults' = 0 => /\ faults = 0
                          /\ \A s \in Scanner : scan[s].step = "store" => scan'[s] = scan[s]
    PROVE  TokenInv'
<1>1. Owned'
  BY DEF TokenInv, Owned, Issued
<1>2. VisitsAlone'
  <2>. SUFFICES ASSUME NEW x \in Call, call'[x].token # 0
                PROVE  /\ consent'[call'[x].token].state # "used"
                       /\ \A u \in User : tokens'[u] # call'[x].token
                       /\ \A s \in Scanner : scan'[s].token # call'[x].token
                       /\ \A y \in Call \ {x} : call'[y].token # call'[x].token
    BY DEF VisitsAlone
  <2>1. call'[x].token = call[x].token /\ call[x].token \in Token
    BY DEF TokenInv, Owned, Issued
  <2>. QED
    BY <2>1 DEF TokenInv, VisitsAlone
<1>3. ScansAlone'
  <2>. SUFFICES ASSUME NEW s \in Scanner, scan'[s].step = "store"
                PROVE  /\ scan'[s].token # 0
                       /\ consent'[scan'[s].token].state # "used"
                       /\ \A u \in User : tokens'[u] # scan'[s].token
                       /\ \A r \in Scanner \ {s} : scan'[r].token # scan'[s].token
    BY DEF ScansAlone
  <2>1. scan'[s] = scan[s] /\ scan[s].token # 0
    BY DEF TokenInv, ScansAlone
  <2>2. scan[s].token \in Token
    BY <2>1 DEF TokenInv, Owned, Issued
  <2>. QED
    BY <2>1, <2>2 DEF TokenInv, ScansAlone
<1>4. Underway'
  <2>. SUFFICES ASSUME faults' = 0, NEW u \in User, tokens'[u] # 0,
                       consent'[tokens'[u]].state = "used"
                PROVE  \E s \in Scanner : scan'[s].step = "store" /\ scan'[s].user = u
    BY DEF Underway, ScanIs
  <2>1. tokens'[u] = tokens[u] /\ tokens[u] \in Token
    BY DEF TokenInv, Owned, Issued
  <2>2. PICK s \in Scanner : scan[s].step = "store" /\ scan[s].user = u
    BY <2>1 DEF TokenInv, Underway, ScanIs
  <2>. QED
    BY <2>2
<1>. QED
  BY <1>1, <1>2, <1>3, <1>4 DEF TokenInv

(* A new consent is in nobody's hands. *)
LEMMA NextIsNew ==
    ASSUME TokenInv, NEW n \in Token, consent[n].state = "none"
    PROVE  /\ n # 0
           /\ \A u \in User : tokens[u] # n
           /\ \A x \in Call : call[x].token # n
           /\ \A s \in Scanner : scan[s].token # n
  BY EnrollmentAssumption DEF Token, TokenInv, Owned, Issued

LEMMA CallbackTokens ==
    ASSUME TypeOK, TokenInv, NEW x \in Call, NEW u \in User, Callback(x, u)
    PROVE  TokenInv'
<1>1. PICK n \in Token : /\ IsNext(n)
                         /\ consent' = [consent EXCEPT ![n] = Given(u)]
                         /\ Comes(x, "identified", u, n)
  BY DEF Callback
<1>2. UNCHANGED <<tokens, scan, faults>>
  BY DEF Callback, accountVars, history
<1>3. /\ call'[x].token = n /\ call'[x].user = u
      /\ \A y \in Call \ {x} : call'[y] = call[y]
  BY <1>1 DEF Comes, TypeOK
<1>4. /\ consent'[n].state = "live" /\ consent'[n].user = u
      /\ \A k \in Token \ {n} : consent'[k] = consent[k]
  BY <1>1 DEF Given, TypeOK
<1>5. /\ n # 0
      /\ \A v \in User : tokens[v] # n
      /\ \A y \in Call : call[y].token # n
      /\ \A s \in Scanner : scan[s].token # n
  BY <1>1, NextIsNew DEF IsNext
<1>6. Owned'
  BY <1>2, <1>3, <1>4, <1>5 DEF TokenInv, Owned, Issued
<1>7. VisitsAlone'
  BY <1>2, <1>3, <1>4, <1>5 DEF TokenInv, Owned, Issued, VisitsAlone
<1>8. ScansAlone'
  BY <1>2, <1>4, <1>5 DEF TokenInv, Owned, Issued, ScansAlone
<1>9. Underway'
  BY <1>2, <1>4, <1>5 DEF TokenInv, Owned, Issued, Underway, ScanIs
<1>. QED
  BY <1>6, <1>7, <1>8, <1>9 DEF TokenInv

LEMMA ActivateTokens ==
    ASSUME TypeOK, TokenInv, NEW x \in Call, NEW u \in User, Activate(x, u), u \in enabled
    PROVE  TokenInv'
<1>1. /\ tokens' = [tokens EXCEPT ![u] = call[x].token]
      /\ call' = [call EXCEPT ![x] = Nothing] /\ call[x].user = u
      /\ UNCHANGED <<consent, scan, faults>>
  BY DEF Activate, Ready, ActivateUser, Ends, Is, history
<1>2. /\ tokens'[u] = call[x].token
      /\ \A v \in User \ {u} : tokens'[v] = tokens[v]
  BY <1>1 DEF TypeOK
<1>3. call'[x].token = 0 /\ \A y \in Call \ {x} : call'[y] = call[y]
  BY <1>1 DEF TypeOK, Nothing
<1>4. Owned'
  BY <1>1, <1>2, <1>3 DEF TokenInv, Owned, Issued
<1>5. VisitsAlone'
  BY <1>1, <1>2, <1>3 DEF TokenInv, VisitsAlone
<1>6. ScansAlone'
  BY <1>1, <1>2 DEF TokenInv, VisitsAlone, ScansAlone
<1>7. Underway'
  BY <1>1, <1>2 DEF TokenInv, VisitsAlone, Underway, ScanIs
<1>. QED
  BY <1>4, <1>5, <1>6, <1>7 DEF TokenInv

LEMMA ListTokens ==
    ASSUME TypeOK, TokenInv, NEW s \in Scanner, NEW u \in User, ListActive(s, u)
    PROVE  TokenInv'
<1>1. /\ scan[s].step = "idle"
      /\ scan' = [scan EXCEPT ![s] = [step |-> "listed", user |-> u, token |-> tokens[u]]]
      /\ UNCHANGED <<consent, tokens, call, faults>>
  BY DEF ListActive, accountVars, history
<1>2. /\ scan'[s].step = "listed" /\ scan'[s].user = u /\ scan'[s].token = tokens[u]
      /\ \A r \in Scanner \ {s} : scan'[r] = scan[r]
  BY <1>1 DEF TypeOK
<1>3. Owned'
  BY <1>1, <1>2 DEF TokenInv, Owned, Issued
<1>4. VisitsAlone'
  BY <1>1, <1>2 DEF TokenInv, VisitsAlone
<1>5. ScansAlone'
  BY <1>1, <1>2 DEF TokenInv, ScansAlone
<1>6. Underway'
  <2>1. \A r \in Scanner : scan[r].step = "store" => scan'[r] = scan[r]
    BY <1>1, <1>2
  <2>. QED
    BY <1>1, <2>1 DEF TokenInv, Underway, ScanIs
<1>. QED
  BY <1>3, <1>4, <1>5, <1>6 DEF TokenInv

(* Both who renewed the tokens and who had them listed hold what is known  *)
(* to nobody or has been stored.                                           *)
LEMMA RefreshTokens ==
    ASSUME TypeOK, TokenInv, NEW s \in Scanner, NEW u \in User, RefreshToken(s, u),
           consent[scan[s].token].state = "live"
    PROVE  TokenInv'
<1>. DEFINE t == scan[s].token
<1>1. PICK n \in Token :
         /\ IsNext(n)
         /\ consent' = [consent EXCEPT ![t].state = "used", ![n] = Given(u)]
         /\ scan' = [scan EXCEPT ![s].step = "store", ![s].token = n]
  BY DEF RefreshToken
<1>2. UNCHANGED <<tokens, call, faults>> /\ scan[s].step = "listed" /\ scan[s].user = u
  BY DEF RefreshToken, ScanIs, accountVars, history
<1>3. /\ scan'[s].step = "store" /\ scan'[s].token = n /\ scan'[s].user = u
      /\ \A r \in Scanner \ {s} : scan'[r] = scan[r]
  BY <1>1, <1>2 DEF TypeOK, ScanState
<1>4. n # t /\ consent[n].state = "none"
  BY <1>1 DEF IsNext
<1>5. /\ consent'[n].state = "live" /\ consent'[n].user = u
      /\ \A k \in Token \ {n, t} : consent'[k] = consent[k]
  BY <1>1, <1>4 DEF Given, TypeOK
<1>6. t \in Token => consent'[t].state = "used" /\ consent'[t].user = consent[t].user
  BY <1>1, <1>4 DEF TypeOK, ConsentState
<1>7. /\ n # 0
      /\ \A v \in User : tokens[v] # n
      /\ \A x \in Call : call[x].token # n
      /\ \A r \in Scanner : scan[r].token # n
  BY <1>4, NextIsNew
<1>. HIDE DEF t
<1>8. Owned'
  <2>1. ASSUME NEW k, NEW v, Issued(k, v), k # n
        PROVE  Issued(k, v)'
    BY <1>5, <1>6, <2>1 DEF Issued
  <2>2. Issued(n, u)'
    BY <1>5 DEF Issued
  <2>. QED
    BY <1>2, <1>3, <1>7, <2>1, <2>2 DEF TokenInv, Owned
<1>9. VisitsAlone'
  <2>. SUFFICES ASSUME NEW x \in Call, call[x].token # 0
                PROVE  /\ consent'[call[x].token].state # "used"
                       /\ \A v \in User : tokens[v] # call[x].token
                       /\ \A r \in Scanner : scan'[r].token # call[x].token
                       /\ \A y \in Call \ {x} : call[y].token # call[x].token
    BY <1>2 DEF VisitsAlone
  <2>1. call[x].token \in Token \ {n, t}
    BY <1>7 DEF TokenInv, Owned, Issued, VisitsAlone, t
  <2>. QED
    BY <1>3, <1>5, <1>7, <2>1 DEF TokenInv, VisitsAlone
<1>10. ScansAlone'
  <2>. SUFFICES ASSUME NEW r \in Scanner, scan'[r].step = "store"
                PROVE  /\ scan'[r].token # 0
                       /\ consent'[scan'[r].token].state # "used"
                       /\ \A v \in User : tokens[v] # scan'[r].token
                       /\ \A q \in Scanner \ {r} : scan'[q].token # scan'[r].token
    BY <1>2 DEF ScansAlone
  <2>1. CASE r = s
    BY <1>3, <1>5, <1>7, <2>1
  <2>2. CASE r # s
    <3>1. scan'[r] = scan[r] /\ scan[r].step = "store"
      BY <1>3, <2>2
    <3>2. scan[r].token \in Token \ {n, t}
      BY <1>7, <2>2, <3>1 DEF TokenInv, Owned, Issued, ScansAlone, t
    <3>. QED
      BY <1>3, <1>5, <1>7, <3>1, <3>2 DEF TokenInv, ScansAlone
  <2>. QED
    BY <2>1, <2>2
<1>11. Underway'
  <2>. SUFFICES ASSUME faults = 0, NEW v \in User, tokens[v] # 0,
                       consent'[tokens[v]].state = "used"
                PROVE  \E r \in Scanner : scan'[r].step = "store" /\ scan'[r].user = v
    BY <1>2 DEF Underway, ScanIs
  <2>1. CASE tokens[v] = t
    <3>1. v = u
      BY <1>2, <2>1 DEF TokenInv, Owned, Issued, t
    <3>. QED
      BY <1>3, <3>1
  <2>2. CASE tokens[v] # t
    <3>1. tokens[v] \in Token \ {n, t}
      BY <1>7, <2>2 DEF TokenInv, Owned, Issued
    <3>2. PICK r \in Scanner : scan[r].step = "store" /\ scan[r].user = v
      BY <1>5, <3>1 DEF TokenInv, Underway, ScanIs
    <3>. QED
      BY <1>2, <1>3, <3>2
  <2>. QED
    BY <2>1, <2>2
<1>. QED
  BY <1>8, <1>9, <1>10, <1>11 DEF TokenInv

LEMMA StoreTokensKept ==
    ASSUME TypeOK, TokenInv, NEW s \in Scanner, NEW u \in User, StoreTokens(s, u)
    PROVE  TokenInv'
<1>1. /\ scan[s].step = "store" /\ scan[s].user = u
      /\ tokens' = [tokens EXCEPT ![u] = scan[s].token]
      /\ scan' = [scan EXCEPT ![s].step = "renewed"]
      /\ UNCHANGED <<consent, call, faults>>
  BY DEF StoreTokens, ScanIs, history
<1>2. /\ tokens'[u] = scan[s].token
      /\ \A v \in User \ {u} : tokens'[v] = tokens[v]
  BY <1>1 DEF TypeOK
<1>3. /\ scan'[s].step = "renewed" /\ scan'[s].token = scan[s].token /\ scan'[s].user = u
      /\ \A r \in Scanner \ {s} : scan'[r] = scan[r]
  BY <1>1 DEF TypeOK, ScanState
<1>4. Owned'
  BY <1>1, <1>2, <1>3 DEF TokenInv, Owned, Issued
<1>5. VisitsAlone'
  BY <1>1, <1>2, <1>3 DEF TokenInv, VisitsAlone
<1>6. ScansAlone'
  BY <1>1, <1>2, <1>3 DEF TokenInv, ScansAlone
<1>7. Underway'
  <2>. SUFFICES ASSUME faults = 0, NEW v \in User, tokens'[v] # 0,
                       consent[tokens'[v]].state = "used"
                PROVE  \E r \in Scanner : scan'[r].step = "store" /\ scan'[r].user = v
    BY <1>1 DEF Underway, ScanIs
  <2>1. v # u
    BY <1>1, <1>2 DEF TokenInv, ScansAlone
  <2>2. PICK r \in Scanner : scan[r].step = "store" /\ scan[r].user = v
    BY <1>2, <2>1 DEF TokenInv, Underway, ScanIs
  <2>. QED
    BY <1>1, <1>3, <2>1, <2>2
<1>. QED
  BY <1>4, <1>5, <1>6, <1>7 DEF TokenInv

LEMMA TokensNext == ASSUME IInv, TokenInv, [Next]_vars PROVE TokenInv'
<1>typ. TypeOK /\ faults \in Nat
  BY EnrollmentAssumption DEF IInv, TypeOK
<1>. USE DEF accountVars, accessVars, history
(* The visits. *)
<1>1. ASSUME NEW x \in Call, NEW u \in User, UNCHANGED <<consent, scan, faults>>,
             \A v \in User : tokens'[v] \in {tokens[v], 0},
             \A y \in Call : \/ call'[y].token = 0
                             \/ call'[y].token = call[y].token /\ call'[y].user = call[y].user
      PROVE  TokenInv'
  BY <1>1, TokensFrame
<1>2. ASSUME NEW x \in Call, NEW u \in User, Request(x, u)
      PROVE  TokenInv'
  <2>1. CASE Callback(x, u)
    BY <1>typ, <2>1, CallbackTokens
  <2>2. CASE Enable(x, u)
    BY <1>1, <2>2 DEF Enable, EnableUser
  <2>3. CASE CheckSolo(x, u)
    BY <1>1, <1>typ, <2>3 DEF CheckSolo, CheckSoloUnlocked, Comes, TypeOK
  <2>4. CASE Disable(x, u)
    <3>1. \A v \in User : tokens'[v] \in {tokens[v], 0}
      BY <1>typ, <2>4 DEF Disable, DisableUser, TypeOK
    <3>2. \A y \in Call : call'[y].token = 0 \/ call'[y] = call[y]
      BY <1>typ, <2>4 DEF Disable, Comes, TypeOK
    <3>. QED
      BY <1>1, <2>4, <3>1, <3>2 DEF Disable
  <2>. QED
    BY <1>2, <2>1, <2>2, <2>3, <2>4 DEF Request
<1>3. ASSUME NEW x \in Call, NEW u \in User, HandlerStep(x, u)
      PROVE  TokenInv'
  <2>1. CASE Activate(x, u) /\ u \in enabled
    BY <1>typ, <2>1, ActivateTokens
  <2>2. CASE ~(Activate(x, u) /\ u \in enabled)
    <3>1. UNCHANGED <<consent, scan, faults, tokens>>
      BY <1>3, <2>2 DEF HandlerStep, CheckAllowlist, BootstrapRead, BootstrapUnlocked,
           BootstrapEnable, EnableUser, GrantDoc, GrantRole, Activate, EnableSolo, RevokeRole,
           RevokeDoc
    <3>2. (\E st : Goes(x, st)) \/ Ends(x)
      BY <1>3, <2>2 DEF HandlerStep, CheckAllowlist, BootstrapRead, BootstrapUnlocked,
           BootstrapEnable, GrantDoc, GrantRole, Activate, EnableSolo, RevokeRole, RevokeDoc
    <3>3. \A y \in Call : \/ call'[y].token = 0
                          \/ call'[y].token = call[y].token /\ call'[y].user = call[y].user
      BY <1>typ, <3>2 DEF Goes, Ends, Nothing, TypeOK, CallState
    <3>. QED
      BY <1>1, <3>1, <3>3
  <2>. QED
    BY <2>1, <2>2
(* The scans. *)
<1>4. ASSUME NEW s \in Scanner, NEW u \in User, ListActive(s, u) \/ ScanStep(s, u)
      PROVE  TokenInv'
  <2>1. CASE ListActive(s, u)
    BY <1>typ, <2>1, ListTokens
  <2>2. CASE RefreshToken(s, u) /\ consent[scan[s].token].state = "live"
    BY <1>typ, <2>2, RefreshTokens
  <2>3. CASE StoreTokens(s, u)
    BY <1>typ, <2>3, StoreTokensKept
  <2>4. CASE \/ RefreshToken(s, u) /\ consent[scan[s].token].state # "live"
             \/ ListChats(s, u) \/ MarkExpired(s, u)
    <3>1. UNCHANGED <<consent, call, faults>> /\ \A v \in User : tokens'[v] \in {tokens[v], 0}
      BY <1>typ, <2>4 DEF RefreshToken, ListChats, MarkExpired, TypeOK
    <3>2. scan[s].step # "store"
      BY <2>4 DEF RefreshToken, ListChats, MarkExpired, ScanIs
    <3>3. /\ scan'[s].token = 0 \/ (scan'[s].token = scan[s].token /\ scan'[s].user = scan[s].user)
          /\ scan'[s].step # "store"
          /\ \A r \in Scanner \ {s} : scan'[r] = scan[r]
      BY <1>typ, <2>4 DEF RefreshToken, ListChats, MarkExpired, TypeOK, ScanState, Nothing
    <3>. QED
      BY <3>1, <3>2, <3>3, TokensFrame
  <2>. QED
    BY <1>4, <2>1, <2>2, <2>3, <2>4 DEF ScanStep
(* Feishu, and failures. *)
<1>5. ASSUME NEW u \in User, Withdraw(u)
      PROVE  TokenInv'
  <2>1. UNCHANGED <<tokens, call, scan, faults>>
    BY <1>5 DEF Withdraw
  <2>2. \A n \in Token : /\ consent'[n].user = consent[n].user
                         /\ consent'[n].state = "used" => consent[n].state = "used"
                         /\ consent[n].state # "none" => consent'[n].state # "none"
    BY <1>5, <1>typ DEF Withdraw, TypeOK, ConsentState
  <2>. QED
    BY <2>1, <2>2, TokensFrame
<1>6. ASSUME faults' = faults + 1, UNCHANGED <<consent, tokens>>,
             \A x \in Call : call'[x] = call[x] \/ call'[x] = Nothing,
             \A s \in Scanner : scan'[s] = scan[s] \/ scan'[s] = Nothing
      PROVE  TokenInv'
  <2>1. /\ \A x \in Call : call'[x] = call[x] \/ call'[x].token = 0
        /\ \A s \in Scanner :
             scan'[s] = scan[s] \/ (scan'[s].token = 0 /\ scan'[s].step # "store")
    BY <1>6 DEF Nothing
  <2>2. faults' # 0
    BY <1>6, <1>typ
  <2>. QED
    BY <1>6, <2>1, <2>2, TokensFrame
<1>7. ASSUME NEW x \in Call, CallFails(x)
      PROVE  TokenInv'
  BY <1>6, <1>7, <1>typ DEF CallFails, Fault, Ends, TypeOK
<1>8. ASSUME NEW s \in Scanner, ScanFails(s)
      PROVE  TokenInv'
  BY <1>6, <1>8, <1>typ DEF ScanFails, Fault, TypeOK
<1>9. CASE Restart
  BY <1>6, <1>9 DEF Restart, Fault
<1>10. CASE UNCHANGED vars
  BY <1>10, TokensFrame DEF vars
<1>. QED
  BY <1>2, <1>3, <1>4, <1>5, <1>7, <1>8, <1>9, <1>10 DEF Next, Visitor, User

(* As long as nothing fails, refresh tokens that have been used stay       *)
(* stored only until the renewed ones of the same user are, however many   *)
(* scans, visits and administrators overlap.  That the renewed ones are    *)
(* then kept is not said, and not so.                                      *)
THEOREM StaleTokensReplaced == Spec => []UsedTokensReplaced
<1>1. TokenInv => UsedTokensReplaced
  <2>. SUFFICES ASSUME TokenInv, faults = 0, NEW u \in User, NEW n \in Token,
                       tokens[u] = n, consent[n].state = "used"
                PROVE  \E s \in Scanner : ScanIs(s, "store", u) /\ consent[scan[s].token].user = u
    BY DEF UsedTokensReplaced
  <2>1. n # 0
    BY EnrollmentAssumption DEF Token
  <2>2. PICK s \in Scanner : ScanIs(s, "store", u)
    BY <2>1 DEF TokenInv, Underway
  <2>3. consent[scan[s].token].user = u
    BY <2>2 DEF TokenInv, Owned, Issued, ScansAlone, ScanIs
  <2>. QED
    BY <2>2, <2>3
<1>2. IInv /\ TokenInv /\ [Next]_vars => TokenInv'
  BY TokensNext
<1>. QED
  BY <1>1, <1>2, TokensInit, Invariance, PTL DEF Spec

=============================================================================
