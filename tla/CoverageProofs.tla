--------------------------- MODULE CoverageProofs ---------------------------
(***************************************************************************)
(* Theorems about Coverage for any users, chats and bounds.                *)
(*                                                                         *)
(* CoveredMeansPresent is preserved by the transactions that rewrite the   *)
(* rows of a chat for all of its members, but replace_user_chats rewrites  *)
(* the chat and the rows of one member only.  It is safe because all it    *)
(* changes of a chat it found is the external flag, which the property     *)
(* leaves out: the rows of other members may well be "covered" then.       *)
(***************************************************************************)
EXTENDS Coverage, TLAPS

Present(r) == r.present /\ ~r.disbanded /\ ~r.unsupported

(* The part of TypeOK about chats, user_chats and their jobs.              *)
RowsOK ==
    /\ chat  \in [Chat -> ChatRow]
    /\ cover \in [User -> [Chat -> [status : Stored, active : BOOLEAN]]]
    /\ \A u \in User, c \in Chat : cover[u][c].status # "none" => chat[c].known
    /\ due \subseteq {p \in User \X Chat : cover[p[1]][p[2]].status # "none"}

ActiveHasRow == \A u \in User, c \in Chat : cover[u][c].active => HasRow(u, c)

RowInv == RowsOK /\ ActiveHasRow /\ CoveredMeansPresent

(* The rest of TypeOK. *)
RestOK ==
    /\ bot \subseteq Chat /\ member \in [User -> SUBSET Chat]
    /\ outside \subseteq Chat /\ events \subseteq Event
    /\ enabled \subseteq User /\ authorized \subseteq User
    /\ shown \in [User -> [Chat -> Stored]]
    /\ login \in [User -> Login]
    /\ adding \subseteq Chat \X Answer
    /\ phase \in {"idle", "bots", "set", "users", "refreshed", "list", "replace", "expire"}
    /\ todo \subseteq User /\ cur \subseteq User /\ seen \subseteq Chat /\ seenOut \subseteq Chat
    /\ changes \in 0 .. MaxChanges /\ faults \in 0 .. MaxFaults

LEMMA TypeParts == TypeOK <=> RowsOK /\ RestOK
  BY DEF TypeOK, RowsOK, RestOK

LEMMA StatusOfType == \A r : StatusOf(r) \in Status
  BY DEF StatusOf, Status

LEMMA CoveredPresent == \A r \in ChatRow : StatusOf(r) = "covered" => Present(r)
  BY DEF StatusOf, Present, ChatRow

-----------------------------------------------------------------------------
(* The transactions. *)

(* A chat changes, and the rows of all present members with it. *)
LEMMA RecoverKeeps ==
    ASSUME RowInv, NEW c \in Chat, NEW r \in ChatRow, NEW S, NEW s \in Status,
           Members(c) \subseteq S, S \subseteq Holders(c),
           r.known,
           s = "covered" => Present(r),
           chat' = [chat EXCEPT ![c] = r],
           Recover(c, S, s)
    PROVE  RowInv'
<1>1. chat' \in [Chat -> ChatRow] /\ chat'[c] = r /\ \A d \in Chat \ {c} : chat'[d] = chat[d]
  BY DEF RowInv, RowsOK
<1>2. /\ cover' \in [User -> [Chat -> [status : Stored, active : BOOLEAN]]]
      /\ \A u \in User, d \in Chat :
           cover'[u][d] = IF u \in S /\ d = c THEN [status |-> s, active |-> cover[u][d].active]
                          ELSE cover[u][d]
  <2>1. ASSUME NEW u \in User
        PROVE  /\ [cover[u] EXCEPT ![c].status = s] \in [Chat -> [status : Stored, active : BOOLEAN]]
               /\ \A d \in Chat :
                    [cover[u] EXCEPT ![c].status = s][d]
                      = IF d = c THEN [status |-> s, active |-> cover[u][d].active] ELSE cover[u][d]
    BY DEF RowInv, RowsOK, Stored
  <2>. QED  BY <2>1 DEF Recover, RowInv, RowsOK
<1>3. \A u \in User, d \in Chat :
        /\ cover'[u][d].active = cover[u][d].active
        /\ HasRow(u, d) => cover'[u][d].status # "none"
        /\ cover'[u][d].status # "none" => HasRow(u, d)
  <2> TAKE u \in User, d \in Chat
  <2>1. CASE u \in S /\ d = c
    <3>1. cover'[u][d] = [status |-> s, active |-> cover[u][d].active]
      BY <1>2, <2>1
    <3>2. HasRow(u, d)
      BY <2>1 DEF Holders
    <3>3. s # "none"
      BY DEF Status
    <3>. QED  BY <3>1, <3>2, <3>3
  <2>2. CASE ~(u \in S /\ d = c)
    <3>1. cover'[u][d] = cover[u][d]
      BY <1>2, <2>2
    <3>. QED  BY <3>1 DEF HasRow
  <2>. QED  BY <2>1, <2>2
<1>4. \A u \in User, d \in Chat : cover'[u][d].status # "none" => chat'[d].known
  BY <1>1, <1>3 DEF RowInv, RowsOK, HasRow
<1>5. due' \subseteq {p \in User \X Chat : cover'[p[1]][p[2]].status # "none"}
  <2>1. due \subseteq {p \in User \X Chat : cover'[p[1]][p[2]].status # "none"}
    BY <1>3 DEF RowInv, RowsOK, HasRow
  <2>2. S \X {c} \subseteq {p \in User \X Chat : cover'[p[1]][p[2]].status # "none"}
    BY <1>3 DEF Holders
  <2>. QED  BY <2>1, <2>2 DEF Recover
<1>6. RowsOK'
  BY <1>1, <1>2, <1>4, <1>5 DEF RowsOK
<1>7. ActiveHasRow'
  BY <1>3 DEF RowInv, ActiveHasRow, HasRow
<1>8. CoveredMeansPresent'
  <2> SUFFICES ASSUME NEW u \in User, NEW d \in Chat,
                      cover'[u][d] = [status |-> "covered", active |-> TRUE]
               PROVE  Present(chat'[d])
    BY DEF CoveredMeansPresent, Present
  <2>1. CASE d = c
    <3>1. u \in S
      BY <1>3, <2>1 DEF Members
    <3>2. cover'[u][d] = [status |-> s, active |-> cover[u][d].active]
      BY <1>2, <2>1, <3>1
    <3>3. s = "covered"
      BY <3>2
    <3>4. chat'[d] = r
      BY <1>1, <2>1
    <3>. QED  BY <3>3, <3>4
  <2>2. CASE d # c
    <3>1. chat'[d] = chat[d] /\ cover'[u][d] = cover[u][d]
      BY <1>1, <1>2, <2>2
    <3>. QED  BY <3>1 DEF RowInv, CoveredMeansPresent, Present
  <2>. QED  BY <2>1, <2>2
<1>. QED  BY <1>6, <1>7, <1>8 DEF RowInv

LEMMA MembersHold == ASSUME RowInv, NEW c \in Chat PROVE Members(c) \subseteq Holders(c)
  BY DEF RowInv, ActiveHasRow, Members, Holders

LEMMA BotGoneKeeps == ASSUME RowInv, NEW c \in Chat, BotGone(c) PROVE RowInv'
<1> DEFINE r == [chat[c] EXCEPT !.known = TRUE, !.present = FALSE]
<1>1. r \in ChatRow /\ r.known
  BY DEF RowInv, RowsOK, ChatRow
<1>. QED  BY <1>1, RecoverKeeps, MembersHold, StatusOfType, CoveredPresent DEF BotGone

LEMMA QuarantineKeeps == ASSUME RowInv, NEW c \in Chat, Quarantine(c) PROVE RowInv'
<1> DEFINE r == [chat[c] EXCEPT !.known = TRUE, !.present = FALSE, !.external = TRUE]
<1>1. r \in ChatRow /\ r.known /\ r.external
  BY DEF RowInv, RowsOK, ChatRow
<1>. QED  BY <1>1, RecoverKeeps, MembersHold, StatusOfType, CoveredPresent DEF Quarantine

LEMMA BotThereKeeps == ASSUME RowInv, NEW c \in Chat, NEW e \in BOOLEAN, BotThere(c, e) PROVE RowInv'
<1> DEFINE r == [known |-> TRUE, external |-> e, present |-> TRUE,
                 disbanded |-> FALSE, unsupported |-> FALSE]
<1>1. r \in ChatRow /\ r.known
  BY DEF ChatRow
<1>. QED  BY <1>1, RecoverKeeps, MembersHold, StatusOfType, CoveredPresent DEF BotThere

LEMMA DisbandKeeps == ASSUME RowInv, NEW c \in Chat, Disband(c) PROVE RowInv'
<1> DEFINE r == [chat[c] EXCEPT !.known = TRUE, !.present = FALSE, !.disbanded = TRUE]
<1>1. r \in ChatRow /\ r.known
  BY DEF RowInv, RowsOK, ChatRow
<1>2. chat' = [chat EXCEPT ![c] = r]
  BY DEF Disband, RowInv, RowsOK, ChatRow
<1>3. "unsupported" \in Status
  BY DEF Status
<1>. QED  BY <1>1, <1>2, <1>3, RecoverKeeps, MembersHold DEF Disband

LEMMA MarkChatKeeps == ASSUME RowInv, NEW c \in Chat, MarkChat(c) PROVE RowInv'
<1>1. PICK b \in BOOLEAN :
        LET r == [chat[c] EXCEPT !.unsupported = b]
        IN  chat' = [chat EXCEPT ![c] = r] /\ Recover(c, Members(c), StatusOf(r))
  BY DEF MarkChat
<1> DEFINE r == [chat[c] EXCEPT !.unsupported = b]
<1>2. r \in ChatRow /\ r.known
  BY DEF MarkChat, RowInv, RowsOK, ChatRow
<1>. QED  BY <1>1, <1>2, RecoverKeeps, MembersHold, StatusOfType, CoveredPresent

(* The chats of one member are replaced. *)
LEMMA ReplaceKeeps ==
    ASSUME RowInv, NEW u \in User, NEW S \in SUBSET Chat, NEW out, ReplaceChats(u, S, out)
    PROVE  RowInv'
<1>1. /\ chat' \in [Chat -> ChatRow]
      /\ \A c \in Chat :
           chat'[c] = IF c \in S
                      THEN [chat[c] EXCEPT !.known = TRUE, !.external = c \in out]
                      ELSE chat[c]
  <2> DEFINE row(c) == IF c \in S THEN [chat[c] EXCEPT !.known = TRUE, !.external = c \in out]
                       ELSE chat[c]
  <2>1. chat' = [c \in Chat |-> row(c)]
    BY DEF ReplaceChats
  <2>2. \A c \in Chat : row(c) \in ChatRow
    <3> TAKE c \in Chat
    <3>1. chat[c] \in [known : BOOLEAN, external : BOOLEAN, present : BOOLEAN,
                       disbanded : BOOLEAN, unsupported : BOOLEAN]
      BY DEF RowInv, RowsOK, ChatRow
    <3>2. (c \in out) \in BOOLEAN
      OBVIOUS
    <3>. QED  BY <3>1, <3>2 DEF ChatRow
  <2>. QED  BY <2>1, <2>2
<1>2. ASSUME NEW c \in S
      PROVE  /\ chat'[c].known
             /\ chat'[c].present = chat[c].present
             /\ chat'[c].disbanded = chat[c].disbanded
             /\ chat'[c].unsupported = chat[c].unsupported
  <2>1. chat'[c] = [chat[c] EXCEPT !.known = TRUE, !.external = c \in out]
    BY <1>1
  <2>2. chat[c] \in [known : BOOLEAN, external : BOOLEAN, present : BOOLEAN,
                     disbanded : BOOLEAN, unsupported : BOOLEAN]
    BY DEF RowInv, RowsOK, ChatRow
  <2>. QED  BY <2>1, <2>2
<1> DEFINE mine(c) == IF c \in S THEN [status |-> StatusOf(chat'[c]), active |-> TRUE]
                      ELSE IF cover[u][c].active THEN [status |-> "unsupported", active |-> FALSE]
                      ELSE cover[u][c]
<1>3. cover' = [cover EXCEPT ![u] = [c \in Chat |-> mine(c)]]
  BY DEF ReplaceChats, RowInv, RowsOK
<1>4. /\ cover'[u] = [c \in Chat |-> mine(c)]
      /\ \A v \in User \ {u} : cover'[v] = cover[v]
  BY <1>3 DEF RowInv, RowsOK
<1>5. \A c \in Chat : mine(c) \in [status : Stored, active : BOOLEAN]
  BY StatusOfType DEF RowInv, RowsOK, Stored, Status
<1>6. cover' \in [User -> [Chat -> [status : Stored, active : BOOLEAN]]]
  BY <1>3, <1>5 DEF RowInv, RowsOK
<1>7. \A v \in User, c \in Chat : cover'[v][c].status # "none" => chat'[c].known
  <2>1. \A v \in User, c \in Chat : cover'[v][c].status # "none" => HasRow(v, c) \/ c \in S
    BY <1>4 DEF RowInv, ActiveHasRow, HasRow
  <2>. QED  BY <1>1, <1>2, <2>1 DEF RowInv, RowsOK, HasRow
<1>8. \A v \in User, c \in Chat : HasRow(v, c) => cover'[v][c].status # "none"
  BY <1>4, StatusOfType DEF HasRow, Status
<1>9. due' \subseteq {p \in User \X Chat : cover'[p[1]][p[2]].status # "none"}
  <2>1. \A c \in S : cover'[u][c].status # "none"
    BY <1>4, StatusOfType DEF Status
  <2>2. \A c \in Chat : cover[u][c].active => cover'[u][c].status # "none"
    BY <1>8 DEF RowInv, ActiveHasRow
  <2>3. due' = due \cup {p \in {u} \X Chat : p[2] \in S \/ cover[u][p[2]].active}
    BY DEF ReplaceChats
  <2>4. due \subseteq {p \in User \X Chat : cover'[p[1]][p[2]].status # "none"}
    BY <1>8 DEF RowInv, RowsOK, HasRow
  <2>. QED  BY <2>1, <2>2, <2>3, <2>4
<1>10. RowsOK'
  BY <1>1, <1>6, <1>7, <1>9 DEF RowsOK
<1>11. ActiveHasRow'
  <2>1. \A v \in User, c \in Chat : cover'[v][c].active => HasRow(v, c) \/ (v = u /\ c \in S)
    BY <1>4 DEF RowInv, ActiveHasRow
  <2>. QED  BY <1>4, <1>8, <2>1, StatusOfType DEF ActiveHasRow, HasRow, Status
<1>12. CoveredMeansPresent'
  <2> SUFFICES ASSUME NEW v \in User, NEW c \in Chat,
                      cover'[v][c] = [status |-> "covered", active |-> TRUE]
               PROVE  Present(chat'[c])
    BY DEF CoveredMeansPresent, Present
  <2>1. CASE v = u
    <3>1. mine(c) = [status |-> "covered", active |-> TRUE]
      BY <1>4, <2>1
    <3>2. CASE c \in S
      BY <1>1, <3>1, <3>2, CoveredPresent
    <3>3. CASE c \notin S
      <4>1. mine(c) = cover[u][c]
        BY <3>1, <3>3
      <4>. QED  BY <1>1, <3>1, <3>3, <4>1 DEF RowInv, CoveredMeansPresent, Present
    <3>. QED  BY <3>2, <3>3
  <2>2. CASE v # u
    <3>1. Present(chat[c])
      BY <1>4, <2>2 DEF RowInv, CoveredMeansPresent, Present
    <3>. QED  BY <1>1, <1>2, <3>1 DEF Present
  <2>. QED  BY <2>1, <2>2
<1>. QED  BY <1>10, <1>11, <1>12 DEF RowInv

(* set_bot_chats: every row takes the status of its chat. *)
LEMMA SetBotChatsKeeps == ASSUME RowInv, SetBotChats PROVE RowInv'
<1>1. /\ chat' \in [Chat -> ChatRow]
      /\ \A c \in Chat : /\ chat'[c].known = chat[c].known
                        /\ chat'[c].external = chat[c].external
  BY DEF SetBotChats, RowInv, RowsOK, ChatRow
<1>2. \A u \in User, c \in Chat :
        cover'[u][c] = IF HasRow(u, c) THEN [cover[u][c] EXCEPT !.status = StatusOf(chat'[c])]
                       ELSE cover[u][c]
  BY DEF SetBotChats
<1>3. cover' \in [User -> [Chat -> [status : Stored, active : BOOLEAN]]]
  <2>1. ASSUME NEW u \in User, NEW c \in Chat
        PROVE  (IF HasRow(u, c) THEN [cover[u][c] EXCEPT !.status = StatusOf(chat'[c])]
                ELSE cover[u][c]) \in [status : Stored, active : BOOLEAN]
    BY StatusOfType DEF RowInv, RowsOK, Stored
  <2>2. cover' = [u \in User |-> [c \in Chat |->
                    IF HasRow(u, c) THEN [cover[u][c] EXCEPT !.status = StatusOf(chat'[c])]
                    ELSE cover[u][c]]]
    BY DEF SetBotChats
  <2>. QED  BY <2>1, <2>2
<1>4. \A u \in User, c \in Chat :
        /\ cover'[u][c].active = cover[u][c].active
        /\ cover'[u][c].status # "none" <=> HasRow(u, c)
        /\ HasRow(u, c) => cover'[u][c].status = StatusOf(chat'[c])
  <2> TAKE u \in User, c \in Chat
  <2>1. cover[u][c] \in [status : Stored, active : BOOLEAN]
    BY DEF RowInv, RowsOK
  <2>2. CASE HasRow(u, c)
    <3>1. cover'[u][c] = [cover[u][c] EXCEPT !.status = StatusOf(chat'[c])]
      BY <1>2, <2>2
    <3>2. StatusOf(chat'[c]) # "none"
      BY StatusOfType DEF Status
    <3>. QED  BY <2>1, <2>2, <3>1, <3>2
  <2>3. CASE ~HasRow(u, c)
    <3>1. cover'[u][c] = cover[u][c]
      BY <1>2, <2>3
    <3>. QED  BY <2>3, <3>1 DEF HasRow
  <2>. QED  BY <2>2, <2>3
<1>5. due' = due
  BY DEF SetBotChats
<1>6. RowsOK'
  <2>1. \A u \in User, c \in Chat : cover'[u][c].status # "none" => chat'[c].known
    BY <1>1, <1>4 DEF RowInv, RowsOK, HasRow
  <2>2. due' \subseteq {p \in User \X Chat : cover'[p[1]][p[2]].status # "none"}
    BY <1>4, <1>5 DEF RowInv, RowsOK, HasRow
  <2>. QED  BY <1>1, <1>3, <2>1, <2>2 DEF RowsOK
<1>7. ActiveHasRow'
  BY <1>4 DEF RowInv, ActiveHasRow, HasRow
<1>8. CoveredMeansPresent'
  <2>1. \A u \in User, c \in Chat :
          cover'[u][c].status = "covered" => StatusOf(chat'[c]) = "covered"
    BY <1>4
  <2>2. \A c \in Chat : StatusOf(chat'[c]) = "covered" => Present(chat'[c])
    BY <1>1, CoveredPresent
  <2>. QED  BY <2>1, <2>2 DEF CoveredMeansPresent, Present
<1>. QED  BY <1>6, <1>7, <1>8 DEF RowInv

(* mark_user_auth_expired: nothing becomes covered. *)
LEMMA MarkExpiredKeeps == ASSUME RowInv, cur \subseteq User, MarkExpired PROVE RowInv'
<1>1. /\ chat' = chat
      /\ \A u \in User, c \in Chat :
           cover'[u][c] = IF u \in cur /\ cover[u][c].active
                          THEN [cover[u][c] EXCEPT !.status = "expired"] ELSE cover[u][c]
  BY DEF MarkExpired
<1>2. cover' \in [User -> [Chat -> [status : Stored, active : BOOLEAN]]]
  BY DEF MarkExpired, RowInv, RowsOK, Stored, Status
<1>3. \A u \in User, c \in Chat :
        /\ cover'[u][c].active = cover[u][c].active
        /\ cover'[u][c].status # "none" <=> HasRow(u, c)
        /\ cover'[u][c].status = "covered" => cover'[u][c] = cover[u][c]
  <2> TAKE u \in User, c \in Chat
  <2>1. cover[u][c] \in [status : Stored, active : BOOLEAN]
    BY DEF RowInv, RowsOK
  <2>2. CASE u \in cur /\ cover[u][c].active
    <3>1. cover'[u][c] = [cover[u][c] EXCEPT !.status = "expired"]
      BY <1>1, <2>2
    <3>2. HasRow(u, c)
      BY <2>2 DEF RowInv, ActiveHasRow
    <3>. QED  BY <2>1, <3>1, <3>2
  <2>3. CASE ~(u \in cur /\ cover[u][c].active)
    <3>1. cover'[u][c] = cover[u][c]
      BY <1>1, <2>3
    <3>. QED  BY <3>1 DEF HasRow
  <2>. QED  BY <2>2, <2>3
<1>4. due' \subseteq {p \in User \X Chat : cover'[p[1]][p[2]].status # "none"}
  <2>1. due \subseteq {p \in User \X Chat : cover'[p[1]][p[2]].status # "none"}
    BY <1>3 DEF RowInv, RowsOK, HasRow
  <2>2. {p \in cur \X Chat : cover[p[1]][p[2]].active}
          \subseteq {p \in User \X Chat : cover'[p[1]][p[2]].status # "none"}
    BY <1>3 DEF RowInv, ActiveHasRow
  <2>. QED  BY <2>1, <2>2 DEF MarkExpired
<1>5. RowsOK'
  <2>1. \A u \in User, c \in Chat : cover'[u][c].status # "none" => chat'[c].known
    BY <1>1, <1>3 DEF RowInv, RowsOK, HasRow
  <2>. QED  BY <1>1, <1>2, <1>4, <2>1 DEF RowInv, RowsOK
<1>6. ActiveHasRow'
  BY <1>3 DEF RowInv, ActiveHasRow, HasRow
<1>7. CoveredMeansPresent'
  BY <1>1, <1>3 DEF RowInv, CoveredMeansPresent
<1>. QED  BY <1>5, <1>6, <1>7 DEF RowInv

(* A projection only takes a job away. *)
LEMMA ProjectKeeps ==
    ASSUME RowInv, NEW u \in User, NEW c \in Chat, Project(u, c) PROVE RowInv'
<1>1. UNCHANGED <<chat, cover>> /\ due' \subseteq due
  BY DEF Project
<1>. QED  BY <1>1 DEF RowInv, RowsOK, ActiveHasRow, HasRow, CoveredMeansPresent

-----------------------------------------------------------------------------
(* The steps. *)

IInv == RowInv /\ RestOK

LEMMA InitOK == Init => IInv
<1> SUFFICES ASSUME Init PROVE IInv
  OBVIOUS
<1>1. NoChat \in ChatRow /\ NoChat.external
  BY DEF NoChat, ChatRow
<1>2. NoCover \in [status : Stored, active : BOOLEAN]
  BY DEF NoCover, Stored
<1>3. RowInv
  BY <1>1, <1>2 DEF Init, RowInv, RowsOK, ActiveHasRow, HasRow,
                    CoveredMeansPresent, NoCover
<1>4. NoLogin \in Login
  BY DEF NoLogin, Login
<1>5. "none" \in Stored
  BY DEF Stored
<1>6. RestOK
  BY <1>4, <1>5, CoverageAssumption DEF Init, RestOK
<1>. QED  BY <1>3, <1>6 DEF IInv

(* Steps that leave chats, user_chats and their jobs alone.                *)
LEMMA RowsAlone == ASSUME RowInv, UNCHANGED rowVars PROVE RowInv'
  BY DEF rowVars, RowInv, RowsOK, ActiveHasRow, HasRow, CoveredMeansPresent

LEMMA WorldKeeps == ASSUME IInv, World PROVE IInv'
<1>1. ASSUME NEW c \in Chat, BotJoins(c) \/ BotLeaves(c) \/ ChatDisbands(c) \/ ChatTurns(c)
      PROVE  IInv'
  <2>1. RowInv'
    BY <1>1, RowsAlone DEF IInv, BotJoins, BotLeaves, ChatDisbands, ChatTurns
  <2>2. /\ bot' \subseteq Chat /\ outside' \subseteq Chat
        /\ events' \subseteq Event /\ member' \in [User -> SUBSET Chat]
    BY <1>1 DEF IInv, RestOK, BotJoins, BotLeaves, ChatDisbands, ChatTurns, Event
  <2>3. changes' \in 0 .. MaxChanges
    BY <1>1, CoverageAssumption DEF IInv, RestOK, BotJoins, BotLeaves, ChatDisbands, ChatTurns, Change
  <2>. QED  BY <1>1, <2>1, <2>2, <2>3
            DEF IInv, RestOK, BotJoins, BotLeaves, ChatDisbands, ChatTurns, accountVars, scanVars
<1>2. ASSUME NEW c \in Chat, MarkChat(c) PROVE IInv'
  <2>1. changes' \in 0 .. MaxChanges
    BY <1>2, CoverageAssumption DEF IInv, RestOK, MarkChat, Change
  <2>. QED  BY <1>2, <2>1, MarkChatKeeps
            DEF IInv, RestOK, MarkChat, worldVars, accountVars, scanVars
<1>. QED  BY <1>1, <1>2 DEF World

LEMMA AccountKeeps == ASSUME IInv, Account PROVE IInv'
<1>1. ASSUME NEW u \in User, EnableUser(u) \/ DisableUser(u) PROVE IInv'
  BY <1>1, RowsAlone
     DEF IInv, RestOK, EnableUser, DisableUser, worldVars, scanVars
<1>2. ASSUME NEW u \in User, ListForLogin(u) \/ ActivateUser(u) PROVE IInv'
  <2>1. login' \in [User -> Login]
    <3>1. CASE ListForLogin(u)
      <4>1. [at |-> "listed", chats |-> member[u], out |-> member[u] \cap outside] \in Login
        BY DEF IInv, RestOK, Login
      <4>. QED  BY <3>1, <4>1 DEF IInv, RestOK, ListForLogin
    <3>2. CASE ActivateUser(u)
      <4>1. NoLogin \in Login /\ [login[u] EXCEPT !.at = "active"] \in Login
        BY DEF IInv, RestOK, NoLogin, Login
      <4>. QED  BY <3>2, <4>1 DEF IInv, RestOK, ActivateUser
    <3>. QED  BY <1>2, <3>1, <3>2
  <2>2. authorized' \subseteq User /\ enabled' \subseteq User
    BY <1>2 DEF IInv, RestOK, ListForLogin, ActivateUser, accountVars
  <2>. QED  BY <1>2, <2>1, <2>2, RowsAlone
            DEF IInv, RestOK, ListForLogin, ActivateUser, worldVars, scanVars
<1>3. ASSUME NEW u \in User, FinishLogin(u) PROVE IInv'
  <2>1. login[u].chats \in SUBSET Chat
    BY DEF IInv, RestOK, Login
  <2>2. RowInv'
    BY <1>3, <2>1, ReplaceKeeps DEF IInv, FinishLogin
  <2>3. login' \in [User -> Login]
    BY <1>3 DEF IInv, RestOK, FinishLogin, NoLogin, Login
  <2>. QED  BY <1>3, <2>2, <2>3 DEF IInv, RestOK, FinishLogin, worldVars, accountVars, scanVars
<1>. QED  BY <1>1, <1>2, <1>3 DEF Account

LEMMA EventWorkerKeeps == ASSUME IInv, EventWorker PROVE IInv'
<1>1. ASSUME NEW c \in Chat, AddedBegins(c) PROVE IInv'
  BY <1>1, QuarantineKeeps
     DEF IInv, RestOK, AddedBegins, Answer, worldVars, accountVars, scanVars
<1>2. ASSUME NEW c \in Chat, ResolveChat(c) PROVE IInv'
  BY <1>2, RowsAlone DEF IInv, RestOK, ResolveChat, Answer, worldVars, accountVars, scanVars
<1>6. ASSUME NEW c \in Chat, AddedEnds(c) PROVE IInv'
  <2>1. RowInv'
    BY <1>6, BotThereKeeps DEF IInv, AddedEnds
  <2>. QED  BY <1>6, <2>1 DEF IInv, RestOK, AddedEnds, accountVars, scanVars
<1>3. ASSUME NEW c \in Chat, BotDeleted(c) PROVE IInv'
  BY <1>3, BotGoneKeeps DEF IInv, RestOK, BotDeleted, accountVars, scanVars
<1>4. ASSUME NEW c \in Chat, ChatDisbanded(c) PROVE IInv'
  BY <1>4, DisbandKeeps DEF IInv, RestOK, ChatDisbanded, accountVars, scanVars
<1>5. CASE AddedFails
  <2>1. faults' \in 0 .. MaxFaults
    BY <1>5, CoverageAssumption DEF IInv, RestOK, AddedFails
  <2>. QED  BY <1>5, <2>1, RowsAlone
            DEF IInv, RestOK, AddedFails, worldVars, accountVars, scanVars
<1>. QED  BY <1>1, <1>2, <1>3, <1>4, <1>5, <1>6 DEF EventWorker

LEMMA ScanKeeps == ASSUME IInv, Scan \/ Refused \/ ScanFails PROVE IInv'
<1>1. CASE ListUsers \/ ListBotChats \/ UpdateTokens \/ EndScan
  BY <1>1, RowsAlone
     DEF IInv, RestOK, ListUsers, ListBotChats, UpdateTokens, EndScan, Goto,
         worldVars, accountVars
<1>2. CASE SetBotChats
  BY <1>2, SetBotChatsKeeps DEF IInv, RestOK, SetBotChats, Goto, worldVars, accountVars
<1>3. ASSUME NEW u \in User, NextUser(u) PROVE IInv'
  BY <1>3, RowsAlone DEF IInv, RestOK, NextUser, Goto, worldVars, accountVars
<1>4. CASE ListUserChats
  <2>1. seen' \subseteq Chat /\ seenOut' \subseteq Chat
    BY <1>4 DEF IInv, RestOK, ListUserChats
  <2>. QED  BY <1>4, <2>1, RowsAlone
            DEF IInv, RestOK, ListUserChats, Goto, worldVars, accountVars
<1>5. CASE ReplaceUserChats
  <2>1. PICK u \in cur : ReplaceChats(u, seen, seenOut)
    BY <1>5 DEF ReplaceUserChats
  <2>2. RowInv'
    BY <2>1, ReplaceKeeps DEF IInv, RestOK
  <2>. QED  BY <1>5, <2>2 DEF IInv, RestOK, ReplaceUserChats, Goto, worldVars, accountVars
<1>6. CASE MarkExpired
  <2>1. RowInv'
    BY <1>6, MarkExpiredKeeps DEF IInv, RestOK
  <2>. QED  BY <1>6, <2>1 DEF IInv, RestOK, MarkExpired, Goto, worldVars
<1>7. CASE Refused \/ ScanFails
  <2>1. faults' \in 0 .. MaxFaults
    BY <1>7, CoverageAssumption DEF IInv, RestOK, Refused, ScanFails
  <2>. QED  BY <1>7, <2>1, RowsAlone
            DEF IInv, RestOK, Refused, ScanFails, Goto, worldVars, accountVars
<1>. QED  BY <1>1, <1>2, <1>3, <1>4, <1>5, <1>6, <1>7 DEF Scan

LEMMA ProjectsKeep == ASSUME IInv, Projects PROVE IInv'
<1>1. PICK u \in User, c \in Chat : Project(u, c)
  BY DEF Projects
<1>2. RowInv'
  BY <1>1, ProjectKeeps DEF IInv
<1>3. cover[u][c].status \in Stored
  BY DEF IInv, RowInv, RowsOK
<1>4. shown' \in [User -> [Chat -> Stored]]
  BY <1>1, <1>3 DEF IInv, RestOK, Project
<1>. QED  BY <1>1, <1>2, <1>4 DEF IInv, RestOK, Project, worldVars, accountVars, scanVars

LEMMA Invariance == Spec => []IInv
<1>1. IInv /\ [Next]_vars => IInv'
  <2> SUFFICES ASSUME IInv, [Next]_vars PROVE IInv'
    OBVIOUS
  <2>1. CASE UNCHANGED vars
    BY <2>1, RowsAlone
       DEF IInv, RestOK, vars, rowVars, worldVars, accountVars, scanVars
  <2>. QED  BY <2>1, WorldKeeps, AccountKeeps, EventWorkerKeeps, ScanKeeps, ProjectsKeep DEF Next
<1>. QED  BY <1>1, InitOK, PTL DEF Spec

-----------------------------------------------------------------------------
(* The variables stay in their types: in particular no job of the outbox   *)
(* names a row of user_chats that does not exist, and no row a chat that   *)
(* was never stored, whichever transactions of scan, events, callbacks and *)
(* administrator interleave.                                               *)
THEOREM TypeCorrect == Spec => []TypeOK
<1>1. IInv => TypeOK
  BY TypeParts DEF IInv, RowInv
<1>. QED  BY <1>1, Invariance, PTL

(* What is recorded as covered can be, but for chats that turn external:   *)
(* for any number of users and chats, no interleaving of the scan, bot     *)
(* events, callbacks and administrative marks leaves a present member's    *)
(* row "covered" when the bot is not in the chat, or the chat is disbanded *)
(* or marked.                                                              *)
THEOREM CoverageSound == Spec => []CoveredMeansPresent
<1>1. IInv => CoveredMeansPresent
  BY DEF IInv, RowInv
<1>. QED  BY <1>1, Invariance, PTL
=============================================================================
