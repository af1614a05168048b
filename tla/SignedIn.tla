------------------------------ MODULE SignedIn ------------------------------
(***************************************************************************)
(* Staying signed in: refresh tokens used once each (core/sessions.py,     *)
(* routes/auth.py) and what the tabs of one browser make of them (api.ts). *)
(* The tabs share the cookie and the access token in local storage, each   *)
(* keeps an access token in memory and asks for a new one by itself, one   *)
(* refresh at a time.  Answers are late, or lost; the hour, the grace and  *)
(* the sign-in run out; somebody signs out in one of the tabs.             *)
(*                                                                         *)
(* A refresh token and the access token it is handed out with have one     *)
(* number, 0 is none.                                                      *)
(***************************************************************************)
EXTENDS Integers, Sequences, FiniteSets, SequencesExt

CONSTANTS
  Tabs,
  MaxTokens     \* bound: tokens handed out

VARIABLES
  refresh_tokens,  \* the rows, in the order they were issued: [family, used, revoked]
  over,            \* families past session_ends_at
  good,            \* access tokens whose hour has not run out
  cookie,          \* the browser's: a refresh token
  local_storage,   \* the browser's: an access token
  memory,          \* _token of each tab
  tab,             \* "in", "waiting" for a refresh, or "out" at the sign-in page
  refreshing,      \* each tab's refresh: [step, token], what it was asked with or is answered
  leaving,         \* tabs whose sign-out is answered and not here yet
  befell           \* (for the properties) what has gone wrong or been done

session_vars ==
  <<refresh_tokens, over, good, cookie, local_storage, memory, tab, refreshing, leaving, befell>>

NoRefresh == [step |-> "none", token |-> 0]
AllTokens == DOMAIN refresh_tokens
FamilyOf(token) == IF token = 0 THEN 0 ELSE refresh_tokens[token].family
Newest == Len(refresh_tokens)
InFlight == {t \in Tabs : refreshing[t].step # "none"}
Issued(family) == [family |-> family, used |-> "no", revoked |-> FALSE]

SessionInit ==
  /\ refresh_tokens = <<Issued(1)>> /\ over = {} /\ good = {1} /\ cookie = 1 /\ local_storage = 1
  /\ memory = [t \in Tabs |-> 1]
  /\ tab = [t \in Tabs |-> "in"] /\ refreshing = [t \in Tabs |-> NoRefresh] /\ leaving = {} /\ befell = {}

server_vars == <<refresh_tokens, over, good>>
browser_vars == <<cookie, local_storage, memory, tab>>

----------------------------------------------------------------------------
(* api.ts                                                                  *)

\* getToken: the tab's own, or the one in local storage, which it then keeps.
TokenOf(t) == IF memory[t] # 0 THEN memory[t] ELSE local_storage
setToken(t, token) == memory' = [memory EXCEPT ![t] = token] /\ local_storage' = token
clearToken(t) == memory' = [memory EXCEPT ![t] = 0] /\ local_storage' = 0

\* A request: sent with the token; answered 401 it waits for a refresh, the tab's one.  freshToken asks for
\* one before the hour is over, and nothing waits for that.
Ask(t) ==
  IF refreshing[t].step = "none" THEN refreshing' = [refreshing EXCEPT ![t] = [step |-> "asked", token |-> cookie]]
  ELSE UNCHANGED refreshing
Request(t) ==
  /\ tab[t] = "in" /\ TokenOf(t) # 0 /\ memory' = [memory EXCEPT ![t] = TokenOf(t)]
  /\ IF TokenOf(t) \in good THEN UNCHANGED <<tab, refreshing>>
     ELSE tab' = [tab EXCEPT ![t] = "waiting"] /\ Ask(t)
  /\ UNCHANGED <<server_vars, cookie, local_storage, leaving, befell>>
freshToken(t) ==
  /\ tab[t] = "in" /\ TokenOf(t) # 0 /\ refreshing[t].step = "none" /\ Ask(t)
  /\ memory' = [memory EXCEPT ![t] = TokenOf(t)]
  /\ UNCHANGED <<server_vars, cookie, local_storage, tab, leaving, befell>>

\* The pages' guards: no token, no page; with one, the page again.
Guarded(t) ==
  /\ tab[t] # "waiting" /\ tab' = [tab EXCEPT ![t] = IF TokenOf(t) = 0 THEN "out" ELSE "in"] /\ tab' # tab
  /\ memory' = [memory EXCEPT ![t] = TokenOf(t)]
  /\ UNCHANGED <<server_vars, cookie, local_storage, refreshing, leaving, befell>>

\* The answer: its cookie is the browser's at once; what waited is sent again, or the visitor is signed out.
RefreshAnswered(t) ==
  /\ refreshing[t].step \in {"next", "ended", "lost"} /\ refreshing' = [refreshing EXCEPT ![t] = NoRefresh]
  /\ CASE refreshing[t].step = "next" ->
            /\ cookie' = refreshing[t].token /\ setToken(t, refreshing[t].token)
            /\ tab' = [tab EXCEPT ![t] = IF @ = "waiting" THEN "in" ELSE @]
       [] OTHER ->
            /\ cookie' = IF refreshing[t].step = "ended" THEN 0 ELSE cookie
            /\ IF tab[t] = "waiting" THEN clearToken(t) /\ tab' = [tab EXCEPT ![t] = "out"]
               ELSE UNCHANGED <<memory, local_storage, tab>>
  /\ UNCHANGED <<server_vars, leaving, befell>>

----------------------------------------------------------------------------
(* The server.                                                             *)

Alive(token) ==
  token # 0 /\ ~refresh_tokens[token].revoked /\ refresh_tokens[token].family \notin over
Answer(t, step, token) == refreshing' = [refreshing EXCEPT ![t] = [step |-> step, token |-> token]]

\* POST /auth/refresh: the row is read ...
RotateReads(t) ==
  /\ refreshing[t].step = "asked"
  /\ IF Alive(refreshing[t].token) THEN Answer(t, "read", refreshing[t].token) ELSE Answer(t, "ended", 0)
  /\ UNCHANGED <<server_vars, browser_vars, leaving, befell>>
\* ... and claimed where it is not used yet; used a moment ago it is exchanged again, longer ago it ends the family.
Exchanged(t) ==
  LET token == refreshing[t].token
      marked == [refresh_tokens EXCEPT ![token].used = IF @ = "no" THEN "just now" ELSE @]
  IN /\ refresh_tokens[token].used # "long ago" /\ Newest < MaxTokens
     /\ refresh_tokens' = Append(marked, Issued(FamilyOf(token))) /\ good' = good \cup {Newest + 1}
     /\ Answer(t, "next", Newest + 1)
UsedTwice(t) ==
  LET token == refreshing[t].token
  IN /\ refresh_tokens[token].used = "long ago"
     /\ refresh_tokens' = [n \in AllTokens |-> [refresh_tokens[n] EXCEPT !.revoked = @ \/ FamilyOf(n) = FamilyOf(token)]]
     /\ Answer(t, "ended", 0) /\ UNCHANGED good
RotateClaims(t) ==
  /\ refreshing[t].step = "read" /\ (Exchanged(t) \/ UsedTwice(t))
  /\ UNCHANGED <<over, browser_vars, leaving, befell>>

\* POST /auth/logout: the family of the cookie's token, every token of it.
logout(t) ==
  /\ tab[t] = "in" /\ befell = {} /\ leaving' = leaving \cup {t}
  /\ refresh_tokens' = [n \in AllTokens |->
       [refresh_tokens[n] EXCEPT !.revoked = @ \/ (cookie # 0 /\ FamilyOf(n) = FamilyOf(cookie))]]
  /\ befell' = befell \cup {"signed out"} \cup (IF InFlight = {} THEN {} ELSE {"overtaken"})
  /\ UNCHANGED <<over, good, browser_vars, refreshing>>
LogoutAnswered(t) ==
  /\ t \in leaving /\ leaving' = leaving \ {t} /\ cookie' = 0 /\ clearToken(t) /\ tab' = [tab EXCEPT ![t] = "out"]
  /\ befell' = befell \cup (IF InFlight = {} THEN {} ELSE {"overtaken"})
  /\ UNCHANGED <<server_vars, refreshing>>

\* POST /auth/login: a new family; the browser signs in again.
login(t) ==
  /\ tab[t] = "out" /\ TokenOf(t) = 0 /\ Newest < MaxTokens
  /\ refresh_tokens' = Append(refresh_tokens, Issued(refresh_tokens[Newest].family + 1)) /\ good' = good \cup {Newest + 1}
  /\ cookie' = Newest + 1 /\ setToken(t, Newest + 1) /\ tab' = [tab EXCEPT ![t] = "in"]
  /\ befell' = befell \cup (IF InFlight = {} /\ leaving = {} THEN {} ELSE {"crossed"})
  /\ UNCHANGED <<over, refreshing, leaving>>

----------------------------------------------------------------------------
(* Time, and the network.                                                  *)

AccessRunsOut == good # {} /\ good' = {} /\ UNCHANGED <<refresh_tokens, over, browser_vars, refreshing, leaving, befell>>
GracePasses ==
  /\ \E n \in AllTokens : refresh_tokens[n].used = "just now"
  /\ refresh_tokens' = [n \in AllTokens |->
       [refresh_tokens[n] EXCEPT !.used = IF @ = "just now" THEN "long ago" ELSE @]]
  /\ befell' = befell \cup (IF InFlight = {} THEN {} ELSE {"outlived the grace"})
  /\ UNCHANGED <<over, good, browser_vars, refreshing, leaving>>
SignInEnds ==
  /\ befell = {} /\ over' = {FamilyOf(Newest)} /\ befell' = befell \cup {"over"}
  /\ UNCHANGED <<refresh_tokens, good, browser_vars, refreshing, leaving>>
AnswerLost(t) ==
  /\ refreshing[t].step \in {"asked", "next", "ended"} /\ befell = {} /\ Answer(t, "lost", 0)
  /\ befell' = befell \cup {"lost"}
  /\ UNCHANGED <<server_vars, browser_vars, leaving>>

TabNext(t) ==
  \/ Request(t) \/ freshToken(t) \/ Guarded(t) \/ RefreshAnswered(t) \/ RotateReads(t) \/ RotateClaims(t)
  \/ logout(t) \/ LogoutAnswered(t) \/ login(t) \/ AnswerLost(t)
\* Bound: one of a sign-out, an end and a lost answer; what follows an overtaken refresh is not followed.
Unsettled == {"overtaken", "crossed", "outlived the grace"}
SessionNext ==
  /\ befell \cap Unsettled = {}
  /\ \/ \E t \in Tabs : TabNext(t)
     \/ AccessRunsOut \/ GracePasses \/ SignInEnds

----------------------------------------------------------------------------
SessionTypeOK ==
  /\ \A n \in AllTokens : refresh_tokens[n].used \in {"no", "just now", "long ago"}
  /\ {cookie, local_storage} \cup {memory[t] : t \in Tabs} \cup good \subseteq 0..MaxTokens
  /\ \A t \in Tabs : tab[t] \in {"in", "waiting", "out"}
       /\ refreshing[t].step \in {"none", "asked", "read", "next", "ended", "lost"}
  /\ befell \subseteq {"signed out", "overtaken", "crossed", "outlived the grace", "over", "lost"}

\* However many tabs find their hour over at once: while nobody has signed out, the sign-in has not ended, no
\* answer was lost and no refresh took longer than the grace, nobody is signed out, and the browser's cookie
\* is good for another refresh - unused once the tabs' refreshes have ended.
StaysSignedIn ==
  befell = {} =>
    /\ \A t \in Tabs : tab[t] # "out"
    /\ Alive(cookie) /\ refresh_tokens[cookie].used # "long ago"
    /\ InFlight = {} => refresh_tokens[cookie].used = "no"

\* A sign-in ends as a whole: no token of it is good beside one that was ended, and at rest the browser keeps none
\* that was - where no refresh was under way when a sign-out was asked or answered, nor outlived the grace, and
\* nobody signed in over either of them.
EndsAsAWhole ==
  befell \cap Unsettled = {} =>
    /\ \A a, b \in AllTokens : FamilyOf(a) = FamilyOf(b) => refresh_tokens[a].revoked = refresh_tokens[b].revoked
    /\ InFlight = {} /\ leaving = {} /\ cookie # 0 /\ "lost" \notin befell => ~refresh_tokens[cookie].revoked

SessionHolds == StaysSignedIn /\ EndsAsAWhole
=============================================================================
