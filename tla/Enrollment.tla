----------------------------- MODULE Enrollment -----------------------------
(***************************************************************************)
(* Who is enrolled, by which consent, and who may open the Bitable: table  *)
(* users, the OAuth callback and the administration of api.py, the token   *)
(* renewal of the hourly scan, and the two lists of members of the Bitable *)
(* (grant_user_access and revoke_user_access of bitable.py).               *)
(*                                                                         *)
(* A call is a request that is being handled, between two awaits of its    *)
(* handler; transactions and requests to Feishu and to the Bitable are     *)
(* actions.  Listing the members and adding or removing one of them is one *)
(* action, because it has its effect at one moment: of the request, or of  *)
(* the list that made the request unnecessary.  A scan is followed through *)
(* one user: users are listed together and then visited one by one, and    *)
(* what is done for one does not depend on the others.                     *)
(*                                                                         *)
(* users.authorized and the stored tokens change in the same statements,   *)
(* so that tokens[u] = 0 says that u is not authorized.                    *)
(*                                                                         *)
(* Left out: the signed state of a visit, the chats a scan and a callback  *)
(* list (module Coverage), the projections, the mapping of the users       *)
(* table, the time of life of a token (any token may be due to be renewed) *)
(* and answers of Feishu that are wrong.                                   *)
(***************************************************************************)
EXTENDS Naturals

CONSTANTS
    Staff,        \* who may visit an installation with the role,
    Local,        \* and one without
    Nobody,
    Call,         \* requests handled at a time: visits and administration
    Scanner,      \* the hourly scan, and those the administrator starts
    MaxTokens,    \* bound on the consents and renewals
    MaxFaults     \* bound on failures and restarts

User == Staff \cup Local

ASSUME EnrollmentAssumption ==
    /\ Nobody \notin User
    /\ MaxTokens \in Nat
    /\ MaxFaults \in Nat

VARIABLES
    mode,         \* how the process was started
    known,        \* users with a row
    enabled,      \* users.enabled
    tokens,       \* tokens[u]: the consent whose tokens are stored, 0 if none
    role,         \* Bitable: members of the restricted role
    doc,          \* Bitable: collaborators of the document
    consent,      \* Feishu: what has become of each consent, and whose it is
    call,         \* call[x]: the handler of a request
    scan,         \* scan[s]: a run of run_coverage_check
    first,        \* history: users enrolled by the first-user bootstrap
    owed,         \* history: users with a failure since they were last disabled
    faults

accountVars == <<known, enabled, tokens>>
accessVars  == <<role, doc>>
history     == <<first, owed, faults>>
vars == <<mode, accountVars, accessVars, consent, call, scan, history>>

Token   == 1 .. MaxTokens
Someone == User \cup {Nobody}

(* "full": workers, and the role is configured; "bootstrap" and "granting": *)
(* --bootstrap-first-user without and with the role; "pilot" and "offline": *)
(* LOCAL_SINGLE_USER_PILOT with and without workers.                        *)
Mode      == {"full", "bootstrap", "granting", "pilot", "offline"}
Bootstrap == mode \in {"bootstrap", "granting"}
Granting  == mode \in {"full", "granting"}
Pilot     == mode \in {"pilot", "offline"}
Workers   == mode \in {"full", "pilot"}
Visitor   == IF Granting THEN Staff ELSE Local

(* Between the awaits of a callback: the identity is known ("identified"),  *)
(* the first user is about to be enabled ("first") or has been              *)
(* ("bootstrapped"), the user is allowed, has been granted the document and *)
(* the role ("doc", "role"); of a pilot's enabling: nobody else is enrolled *)
(* ("solo"); of a callback and of a disabling: the role, then the document  *)
(* are to be revoked.                                                       *)
Step == {"idle", "identified", "first", "bootstrapped", "allowed", "doc", "role", "solo",
         "unrole", "undoc"}

CallState == [step : Step, user : Someone, token : 0 .. MaxTokens]

ScanState == [step : {"idle", "listed", "store", "renewed", "expire"}, user : Someone,
              token : 0 .. MaxTokens]

ConsentState == [state : {"none", "live", "used", "withdrawn"}, user : Someone]

TypeOK ==
    /\ mode \in Mode
    /\ known \subseteq User /\ enabled \subseteq known
    /\ tokens \in [User -> 0 .. MaxTokens]
    /\ \A u \in User : tokens[u] # 0 => u \in known
    /\ role \subseteq User /\ doc \subseteq User
    /\ consent \in [Token -> ConsentState]
    /\ call \in [Call -> CallState]
    /\ scan \in [Scanner -> ScanState]
    /\ first \subseteq known /\ owed \subseteq User
    /\ faults \in 0 .. MaxFaults

Nothing   == [step |-> "idle", user |-> Nobody, token |-> 0]
NoConsent == [state |-> "none", user |-> Nobody]

(* A new installation; a pilot with workers does not start without its user. *)
Init ==
    /\ mode \in Mode \ {"pilot"}
    /\ known = {} /\ enabled = {} /\ tokens = [u \in User |-> 0]
    /\ role = {} /\ doc = {}
    /\ consent = [n \in Token |-> NoConsent]
    /\ call = [x \in Call |-> Nothing]
    /\ scan = [s \in Scanner |-> Nothing]
    /\ first = {} /\ owed = {} /\ faults = 0

(* The user is active, by a consent that is no more. *)
Outdated(u) == u \in enabled /\ \E n \in Token : tokens[u] = n /\ consent[n].state = "withdrawn"

(* The handler x is at a step, and on behalf of a user. *)
Is(x, step, u) == call[x].step = step /\ call[x].user = u

Goes(x, step) == call' = [call EXCEPT ![x].step = step]
Ends(x)       == call' = [call EXCEPT ![x] = Nothing]
Comes(x, step, u, n) == call' = [call EXCEPT ![x] = [step |-> step, user |-> u, token |-> n]]

(* The n-th consent is the next one that Feishu gives out. *)
IsNext(n) == /\ consent[n].state = "none"
             /\ \A k \in 1 .. (n - 1) : consent[k].state # "none"

Given(u) == [state |-> "live", user |-> u]

(* The handler has granted, or is about to revoke. *)
Touching == {"doc", "role", "unrole", "undoc"}
AtWork(u) == \E x \in Call : call[x].user = u /\ call[x].step \in Touching

-----------------------------------------------------------------------------
(* Transactions on users. *)

(* Faulty: a user without a row is not inserted. *)
UpdateUser(u) ==
    /\ enabled' = enabled \cup {u}
    /\ UNCHANGED <<known, tokens>>

(* enable_user: tokens stay as they are. *)
EnableUser(u) ==
    /\ known' = known \cup {u}
    /\ enabled' = enabled \cup {u}
    /\ UNCHANGED tokens

(* activate_user, when the user is enabled. *)
ActivateUser(u, n) ==
    /\ tokens' = [tokens EXCEPT ![u] = n]
    /\ UNCHANGED <<known, enabled>>

(* disable_user. *)
DisableUser(u) ==
    /\ enabled' = enabled \ {u}
    /\ tokens' = [tokens EXCEPT ![u] = 0]
    /\ UNCHANGED known

-----------------------------------------------------------------------------
(* The OAuth callback. *)

(* The state is consumed, the code exchanged for tokens, the identity looked *)
(* up.                                                                       *)
Callback(x, u) ==
    /\ call[x].step = "idle"
    /\ \E n \in Token :
         /\ IsNext(n)
         /\ consent' = [consent EXCEPT ![n] = Given(u)]
         /\ Comes(x, "identified", u, n)
    /\ UNCHANGED <<mode, accountVars, accessVars, scan, history>>

(* The allowlist without bootstrap; a pilot has this user and no other. *)
CheckAllowlist(x, u) ==
    /\ ~Bootstrap
    /\ Is(x, "identified", u)
    /\ IF u \in enabled /\ (Pilot => known = {u}) THEN Goes(x, "allowed") ELSE Ends(x)
    /\ UNCHANGED <<mode, accountVars, accessVars, consent, scan, history>>

(* Of two users who are not enabled only the first is; a sole enabled user  *)
(* who has not authorized resumes; anybody else who is enabled goes on as   *)
(* without bootstrap, and is refused later if no role is configured.        *)
BootstrapUnlocked(x, u) ==
    /\ Bootstrap
    /\ Is(x, "identified", u)
    /\ CASE u \notin enabled /\ known = {}                -> Goes(x, "first")
         [] known = {u} /\ u \in enabled /\ tokens[u] = 0 -> Goes(x, "bootstrapped")
         [] u \in enabled /\ Granting /\ (known # {u} \/ tokens[u] # 0) -> Goes(x, "allowed")
         [] OTHER                                         -> Ends(x)
    /\ UNCHANGED <<mode, accountVars, accessVars, consent, scan, history>>

(* The same under bootstrap_lock, which is held at "first". *)
BootstrapRead(x, u) ==
    /\ \A y \in Call : call[y].step # "first"
    /\ BootstrapUnlocked(x, u)

BootstrapEnable(x, u) ==
    /\ Is(x, "first", u)
    /\ EnableUser(u)
    /\ first' = first \cup {u}
    /\ Goes(x, "bootstrapped")
    /\ UNCHANGED <<mode, accessVars, consent, scan, owed, faults>>

(* grant_user_access: first the document, then the role. *)
GrantDoc(x, u) ==
    /\ Granting
    /\ Is(x, "allowed", u)
    /\ doc' = doc \cup {u}
    /\ Goes(x, "doc")
    /\ UNCHANGED <<mode, accountVars, role, consent, scan, history>>

GrantRole(x, u) ==
    /\ Is(x, "doc", u)
    /\ role' = role \cup {u}
    /\ Goes(x, "role")
    /\ UNCHANGED <<mode, accountVars, doc, consent, scan, history>>

(* All that precedes activate_user is done; a bootstrap grants nothing. *)
Ready(x, u) == Is(x, "bootstrapped", u) \/ Is(x, IF Granting THEN "role" ELSE "allowed", u)

(* Faulty: what was granted stays when the user is not enabled any more. *)
ActivateOnly(x, u) ==
    /\ Ready(x, u)
    /\ IF u \in enabled THEN ActivateUser(u, call[x].token) ELSE UNCHANGED accountVars
    /\ Ends(x)
    /\ UNCHANGED <<mode, accessVars, consent, scan, history>>

(* activate_user; what was granted to a user who is not enabled any more is *)
(* revoked.                                                                 *)
Activate(x, u) ==
    /\ Ready(x, u)
    /\ IF u \in enabled
       THEN ActivateUser(u, call[x].token) /\ Ends(x)
       ELSE /\ IF call[x].step = "role" THEN Goes(x, "unrole") ELSE Ends(x)
            /\ UNCHANGED accountVars
    /\ UNCHANGED <<mode, accessVars, consent, scan, history>>

-----------------------------------------------------------------------------
(* The administrator, by the API or the table of users. *)

(* _enable_allowlist_user without the pilot's restriction. *)
Enable(x, u) ==
    /\ ~Pilot
    /\ call[x].step = "idle"
    /\ EnableUser(u)
    /\ UNCHANGED <<mode, accessVars, consent, call, scan, history>>

(* The pilot's: nobody else may be enrolled ... *)
CheckSoloUnlocked(x, u) ==
    /\ Pilot
    /\ call[x].step = "idle"
    /\ known \subseteq {u}
    /\ Comes(x, "solo", u, 0)
    /\ UNCHANGED <<mode, accountVars, accessVars, consent, scan, history>>

(* ... under single_user_lock, which is held at "solo". *)
CheckSolo(x, u) ==
    /\ \A y \in Call : call[y].step # "solo"
    /\ CheckSoloUnlocked(x, u)

EnableSolo(x, u) ==
    /\ Is(x, "solo", u)
    /\ EnableUser(u)
    /\ Ends(x)
    /\ UNCHANGED <<mode, accessVars, consent, scan, history>>

(* Faulty: access is revoked only of a user who had been enabled. *)
DisableOnce(x, u) ==
    /\ call[x].step = "idle"
    /\ u \in known
    /\ DisableUser(u)
    /\ IF Granting
       THEN /\ IF u \in enabled THEN Comes(x, "unrole", u, 0) ELSE UNCHANGED call
            /\ owed' = owed \ {u}
       ELSE UNCHANGED <<call, owed>>
    /\ UNCHANGED <<mode, accessVars, consent, scan, first, faults>>

(* _disable_allowlist_user: disable_user, then revoke_user_access, also if  *)
(* the user was disabled before: that is how a failure is repaired.         *)
Disable(x, u) ==
    /\ call[x].step = "idle"
    /\ u \in known
    /\ DisableUser(u)
    /\ IF Granting THEN Comes(x, "unrole", u, 0) /\ owed' = owed \ {u}
                   ELSE UNCHANGED <<call, owed>>
    /\ UNCHANGED <<mode, accessVars, consent, scan, first, faults>>

(* revoke_user_access: first the role, then the document. *)
RevokeRole(x, u) ==
    /\ Is(x, "unrole", u)
    /\ role' = role \ {u}
    /\ Goes(x, "undoc")
    /\ UNCHANGED <<mode, accountVars, doc, consent, scan, history>>

RevokeDoc(x, u) ==
    /\ Is(x, "undoc", u)
    /\ doc' = doc \ {u}
    /\ Ends(x)
    /\ UNCHANGED <<mode, accountVars, role, consent, scan, history>>

-----------------------------------------------------------------------------
(* The scan. *)

ScanIs(s, step, u) == scan[s].step = step /\ scan[s].user = u

(* list_active_users, with their tokens as of now. *)
ListActive(s, u) ==
    /\ Workers
    /\ scan[s].step = "idle"
    /\ u \in enabled /\ tokens[u] # 0
    /\ scan' = [scan EXCEPT ![s] = [step |-> "listed", user |-> u, token |-> tokens[u]]]
    /\ UNCHANGED <<mode, accountVars, accessVars, consent, call, history>>

(* Faulty: the renewed tokens serve this scan only. *)
RefreshForgotten(s, u) ==
    /\ ScanIs(s, "listed", u)
    /\ LET t == scan[s].token
       IN  IF consent[t].state = "live"
           THEN \E n \in Token :
                  /\ IsNext(n)
                  /\ consent' = [consent EXCEPT ![t].state = "used", ![n] = Given(u)]
                  /\ scan' = [scan EXCEPT ![s].step = "renewed", ![s].token = n]
           ELSE scan' = [scan EXCEPT ![s].step = "expire"] /\ UNCHANGED consent
    /\ UNCHANGED <<mode, accountVars, accessVars, call, history>>

(* refresh_user_token, when the access token is about to end.  A refresh    *)
(* token can be used once.                                                  *)
RefreshToken(s, u) ==
    /\ ScanIs(s, "listed", u)
    /\ LET t == scan[s].token
       IN  IF consent[t].state = "live"
           THEN \E n \in Token :
                  /\ IsNext(n)
                  /\ consent' = [consent EXCEPT ![t].state = "used", ![n] = Given(u)]
                  /\ scan' = [scan EXCEPT ![s].step = "store", ![s].token = n]
           ELSE scan' = [scan EXCEPT ![s].step = "expire"] /\ UNCHANGED consent
    /\ UNCHANGED <<mode, accountVars, accessVars, call, history>>

(* update_user_tokens: whatever has become of the user meanwhile. *)
StoreTokens(s, u) ==
    /\ ScanIs(s, "store", u)
    /\ tokens' = [tokens EXCEPT ![u] = scan[s].token]
    /\ scan' = [scan EXCEPT ![s].step = "renewed"]
    /\ UNCHANGED <<mode, known, enabled, accessVars, consent, call, history>>

(* list_user_chats: answered as long as the consent is not withdrawn. *)
ListChats(s, u) ==
    /\ scan[s].step \in {"listed", "renewed"} /\ scan[s].user = u
    /\ scan' = IF consent[scan[s].token].state = "withdrawn"
               THEN [scan EXCEPT ![s].step = "expire"]
               ELSE [scan EXCEPT ![s] = Nothing]
    /\ UNCHANGED <<mode, accountVars, accessVars, consent, call, history>>

(* Faulty: a refused renewal is logged, the tokens stay. *)
ExpireQuietly(s, u) ==
    /\ ScanIs(s, "expire", u)
    /\ scan' = [scan EXCEPT ![s] = Nothing]
    /\ UNCHANGED <<mode, accountVars, accessVars, consent, call, history>>

(* mark_user_auth_expired: whatever tokens are stored by now. *)
MarkExpired(s, u) ==
    /\ ScanIs(s, "expire", u)
    /\ tokens' = [tokens EXCEPT ![u] = 0]
    /\ scan' = [scan EXCEPT ![s] = Nothing]
    /\ UNCHANGED <<mode, known, enabled, accessVars, consent, call, history>>

-----------------------------------------------------------------------------
(* Feishu, and failures. *)

(* The user withdraws the consent, or leaves. *)
Withdraw(u) ==
    /\ \E n \in Token : consent[n].user = u /\ consent[n].state # "withdrawn"
    /\ consent' = [n \in Token |->
                     IF consent[n].user = u THEN [consent[n] EXCEPT !.state = "withdrawn"]
                     ELSE consent[n]]
    /\ UNCHANGED <<mode, accountVars, accessVars, call, scan, history>>

Fault == faults < MaxFaults /\ faults' = faults + 1

(* A request of the handler fails, before or after it had its effect. *)
CallFails(x) ==
    /\ Fault
    /\ call[x].step # "idle"
    /\ owed' = IF call[x].step \in Touching THEN owed \cup {call[x].user} ELSE owed
    /\ Ends(x)
    /\ UNCHANGED <<mode, accountVars, accessVars, consent, scan, first>>

(* An error other than a refusal ends the scan. *)
ScanFails(s) ==
    /\ Fault
    /\ scan[s].step # "idle"
    /\ scan' = [scan EXCEPT ![s] = Nothing]
    /\ UNCHANGED <<mode, accountVars, accessVars, consent, call, first, owed>>

(* A local installation may start again in another mode; a pilot with       *)
(* workers insists on a single active user.  The role stays configured, or  *)
(* not.                                                                     *)
Restart ==
    /\ Fault
    /\ mode' \in IF Granting THEN {"full", "granting"} ELSE {"bootstrap", "pilot", "offline"}
    /\ mode' = "pilot" => \E u \in User : known = {u} /\ u \in enabled /\ tokens[u] # 0
    /\ owed' = owed \cup {u \in User : AtWork(u)}
    /\ call' = [x \in Call |-> Nothing]
    /\ scan' = [s \in Scanner |-> Nothing]
    /\ UNCHANGED <<accountVars, accessVars, consent, first>>

-----------------------------------------------------------------------------
(* A handler that has been called goes on. *)
HandlerStep(x, u) ==
    \/ CheckAllowlist(x, u) \/ BootstrapRead(x, u) \/ BootstrapEnable(x, u)
    \/ GrantDoc(x, u) \/ GrantRole(x, u) \/ Activate(x, u)
    \/ EnableSolo(x, u) \/ RevokeRole(x, u) \/ RevokeDoc(x, u)

Request(x, u) == Callback(x, u) \/ Enable(x, u) \/ CheckSolo(x, u) \/ Disable(x, u)

ScanStep(s, u) ==
    \/ RefreshToken(s, u) \/ StoreTokens(s, u) \/ ListChats(s, u) \/ MarkExpired(s, u)

Next ==
    \/ \E x \in Call, u \in Visitor : Request(x, u)
    \/ \E x \in Call, u \in User : HandlerStep(x, u)
    \/ \E s \in Scanner, u \in User : ListActive(s, u) \/ ScanStep(s, u)
    \/ \E u \in User : Withdraw(u)
    \/ \E x \in Call : CallFails(x)
    \/ \E s \in Scanner : ScanFails(s)
    \/ Restart

Spec == Init /\ [][Next]_vars

(* Handlers and scans go on; scans are run for ever, and each is for every  *)
(* active user.                                                             *)
Fairness ==
    /\ \A x \in Call : WF_vars(\E u \in User : HandlerStep(x, u))
    /\ \A s \in Scanner : WF_vars(\E u \in User : ScanStep(s, u))
    /\ \A s \in Scanner, u \in User : SF_vars(ListActive(s, u))

FairSpec == Spec /\ Fairness

-----------------------------------------------------------------------------
(* Properties. *)

(* A user who is not enabled has access to the Bitable only while a handler *)
(* is at work that will revoke it, or after a failure that was reported and *)
(* not repaired since: grants of callbacks that overlap the disabling are   *)
(* taken back (oauth_callback, _disable_allowlist_user).                    *)
NoAccessLeft == \A u \in (role \cup doc) \ (enabled \cup owed) : AtWork(u)

(* A disabled user loses the access, however visits and the administrator   *)
(* overlap, unless a failure was reported (502 of _disable_allowlist_user)  *)
(* or the user is enabled again.                                            *)
DisableTakesEffect ==
    \A u \in User : u \notin enabled ~> (u \in enabled \cup owed \/ u \notin role \cup doc)

(* While it is a pilot an installation enrols no second identity, whatever  *)
(* requests are made at the same time (single_user_lock).                   *)
OneIdentity == [][Pilot => \A u \in known' \ known : known' = {u}]_vars

(* The bootstrap enrols one user at most, however many visit at the same    *)
(* time and however often the process is started (bootstrap_lock).          *)
OneFirstUser == \A u, v \in first : u = v

(* Refresh tokens that a scan has used are worth nothing: as long as        *)
(* nothing fails they stay stored only while a scan is on its way to store  *)
(* the ones the same user was given for them, whatever scans and visits     *)
(* overlap (refresh_user_token, update_user_tokens).  It does not say that  *)
(* the new ones last: a scan that had listed the old ones too is refused,   *)
(* and mark_user_auth_expired then forgets whatever is stored by now.       *)
UsedTokensReplaced ==
    faults = 0 =>
        \A u \in User, n \in Token :
            tokens[u] = n /\ consent[n].state = "used" =>
                \E s \in Scanner : ScanIs(s, "store", u) /\ consent[scan[s].token].user = u

(* A consent that was withdrawn is noticed: its tokens do not stay stored   *)
(* (run_coverage_check, mark_user_auth_expired), unless no scan runs.       *)
WithdrawalNoticed ==
    \A u \in User : (Outdated(u) /\ Workers) ~> (~Outdated(u) \/ ~Workers)
=============================================================================
