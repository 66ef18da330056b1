------------------------------ MODULE Sessions ------------------------------
(***************************************************************************)
(* Who a browser is to the server, and how it finds its way back: session  *)
(* tokens and the cookie of server.cjs; the token and name a browser       *)
(* remembers (session.js), the recovery from a 401 that every request goes *)
(* through (api.js), and the flows built on it (sessionFlows.js, main.js). *)
(*                                                                         *)
(* The server keeps no sessions: a token is good until it expires or the   *)
(* secret changes, which a restart may do.  It renews the cookie of a      *)
(* session that is about to expire; the bearer token, which has precedence,*)
(* is renewed by the answers that carry one.  The browser drops a cookie   *)
(* once its Max-Age is over, and is then one without a session rather than *)
(* one with an expired session.  Any answer may be an error (rate limit,   *)
(* database) or get lost.                                                  *)
(***************************************************************************)
EXTENDS Integers

CONSTANTS
  Names,
  NoName, NoToken,
  Keep,         \* an answer without a Set-Cookie
  Slots,        \* flows that may be under way at the same time
  TTL,          \* session.ttlSeconds
  RefreshWindow,       \* session.refreshWindowSeconds
  LastSecond,      \* bound: the time
  MaxRestarts   \* bound: the restarts that change the secret

Tokens == [sub : Names, exp : 0..(LastSecond + TTL), secret : 0..MaxRestarts]

ASSUME SessionsAssumption ==
  /\ NoName \notin Names /\ NoToken \notin Tokens
  /\ Keep \notin Tokens \cup {NoToken}
  /\ RefreshWindow \in Nat /\ TTL \in Nat /\ TTL > RefreshWindow
  /\ LastSecond \in Nat /\ MaxRestarts \in Nat

VARIABLES
  now,         \* the time, in seconds
  secret,      \* which SESSION_SECRET the process has
  registered,  \* accounts
  cookie,      \* the browser's session cookie
  legacy,      \* the name in its old cookie
  token,       \* readSessionToken()
  name,        \* readSessionUsername()
  player,      \* net.user
  online,      \* net.online
  reauth,      \* reauthInProgress
  flow,        \* the flows under way
  disturbed,   \* history: "yes" once flows overlap, or an account or the secret goes while
               \* one is under way; "mending" from the next one that begins alone, and
               \* "no" when one that did has signed somebody in
  seen         \* history: who was last recognised, and when

browserVars == <<cookie, legacy, token, name>>
pageVars == <<player, online, reauth>>
sessionVars == <<now, secret, registered, browserVars, pageVars, flow, disturbed, seen>>

\* An answer: the user and session token of its body, and its Set-Cookie (NoToken clears).
NoAnswer == [status |-> "none", user |-> NoName, gives |-> NoToken, sets |-> Keep, at |-> 0]
Statuses == {"none", "ok", "unauthorized", "limited", "error", "lost"}
Answers == [status : Statuses, user : Names \cup {NoName}, gives : Tokens \cup {NoToken},
            sets : {Keep, NoToken} \cup Tokens, at : 0..LastSecond]

\* why: what the page asked for; url: the request under way; step: its place in requestJson;
\* who: the name it registers; as: the token, cookie and old cookie it was sent with.
NoFlow == [at |-> "idle", why |-> "none", url |-> "none", step |-> "first", who |-> NoName,
         bearer |-> NoToken, cookie |-> NoToken, legacy |-> NoName,
         answer |-> NoAnswer, refused |-> "no"]
Whys == {"none", "refresh", "recover", "save", "register", "binds", "reauth"}
Urls == {"none", "sync", "save", "register", "me"}

Flows == [at : {"idle", "sent", "answered"}, why : Whys, url : Urls,
          step : {"first", "refresh", "reauth", "retry"}, who : Names \cup {NoName},
          bearer : Tokens \cup {NoToken}, cookie : Tokens \cup {NoToken},
          legacy : Names \cup {NoName}, answer : Answers, refused : {"no", "yes"}]

SessionsTypeOK ==
  /\ now \in 0..LastSecond /\ secret \in 0..MaxRestarts /\ registered \subseteq Names
  /\ cookie \in Tokens \cup {NoToken} /\ token \in Tokens \cup {NoToken}
  /\ {legacy, name, player} \subseteq Names \cup {NoName}
  /\ {online, reauth} \subseteq {"no", "yes"} /\ disturbed \in {"no", "yes", "mending"}
  /\ flow \in [Slots -> Flows]
  /\ seen \in [who : Names \cup {NoName}, at : 0..LastSecond]

SessionsInit ==
  /\ now = 0 /\ secret = 0 /\ registered = Names
  /\ cookie = NoToken /\ token = NoToken /\ name = NoName
  /\ legacy \in Names \cup {NoName}
  /\ player = NoName /\ online = "no" /\ reauth = "no"
  /\ flow = [p \in Slots |-> NoFlow]
  /\ disturbed = "no" /\ seen = [who |-> NoName, at |-> 0]
-----------------------------------------------------------------------------
(* The server. *)

\* signSessionToken
Sign(u) == [sub |-> u, exp |-> now + TTL, secret |-> secret]

\* verifySessionToken
Verified(t) == t # NoToken /\ (t # NoToken => t.exp > now /\ t.secret = secret)

\* getUserFromReqWithSession: the session that counts, the bearer's or else the cookie's.
Session(bearer, c) ==
  IF bearer # NoToken /\ Verified(bearer) THEN bearer
  ELSE IF Verified(c) THEN c ELSE NoToken

Presented(bearer, c, old) ==
  LET s == Session(bearer, c)
  IN  IF s # NoToken THEN s.sub
      ELSE IF bearer = NoToken /\ c = NoToken THEN old ELSE NoName

Recognised(bearer, c, old) ==
  LET u == Presented(bearer, c, old) IN IF u \in registered THEN u ELSE NoName

\* Mutant: a session is renewed when less than the window is left.
SetsLate(bearer, c, old) ==
  LET s == Session(bearer, c)
      u == Recognised(bearer, c, old)
  IN  IF u # NoName
      THEN IF s = NoToken \/ (s # NoToken /\ s.exp - now < RefreshWindow) THEN Sign(u) ELSE Keep
      ELSE IF Presented(bearer, c, old) = NoName /\ (bearer # NoToken \/ c # NoToken)
      THEN NoToken ELSE Keep

\* The cookie the answer sets: a new one for an old name and for a session that is about
\* to expire; none for a session that is not good.
Sets(bearer, c, old) ==
  LET s == Session(bearer, c)
      u == Recognised(bearer, c, old)
  IN  IF u # NoName
      THEN IF s = NoToken \/ (s # NoToken /\ s.exp - now <= RefreshWindow) THEN Sign(u) ELSE Keep
      ELSE IF Presented(bearer, c, old) = NoName /\ (bearer # NoToken \/ c # NoToken)
      THEN NoToken ELSE Keep

\* GET /api/me and /api/sync, which give a new token; the endpoints that save something,
\* which do not; and POST /api/register, which signs in as anybody.
Answer(q) ==
  LET u == Recognised(q.bearer, q.cookie, q.legacy)
  IN  IF q.url = "register"
      THEN [status |-> "ok", user |-> q.who, gives |-> Sign(q.who), sets |-> Sign(q.who),
             at |-> now]
      ELSE [status |-> IF u = NoName /\ q.url # "sync" THEN "unauthorized" ELSE "ok",
            user |-> u,
            gives |-> IF u # NoName /\ q.url \in {"me", "sync"} THEN Sign(u) ELSE NoToken,
            sets |-> Sets(q.bearer, q.cookie, q.legacy),
            at |-> now]

\* The browser may not get the answer.
Serve(p, arrives) ==
  /\ flow[p].at = "sent"
  /\ flow' = [flow EXCEPT ![p].at = "answered",
       ![p].answer = IF arrives = "yes" THEN Answer(flow[p]) ELSE [NoAnswer EXCEPT !.status = "lost"]]
  /\ registered' = IF flow[p].url = "register" THEN registered \cup {flow[p].who} ELSE registered
  /\ UNCHANGED <<now, secret, browserVars, pageVars, disturbed, seen>>

\* The rate limiter or the database answers with an error before anything is done.
ServeBadly(p, status) ==
  /\ flow[p].at = "sent"
  /\ flow' = [flow EXCEPT ![p].at = "answered", ![p].answer = [NoAnswer EXCEPT !.status = status]]
  /\ UNCHANGED <<now, secret, registered, browserVars, pageVars, disturbed, seen>>

Busy == \E p \in Slots : flow[p].at # "idle"
Disturbs ==
  /\ seen' = [who |-> NoName, at |-> 0]
  /\ disturbed' = IF Busy THEN "yes" ELSE disturbed

\* Without a SESSION_SECRET in the environment the process makes one up.
Restart ==
  /\ secret < MaxRestarts /\ secret' = secret + 1
  /\ Disturbs
  /\ UNCHANGED <<now, registered, browserVars, pageVars, flow>>

RemoveAccount(u) ==
  /\ u \in registered /\ registered' = registered \ {u}
  /\ Disturbs
  /\ UNCHANGED <<now, secret, browserVars, pageVars, flow>>

SecondPasses ==
  /\ now < LastSecond /\ now' = now + 1
  /\ UNCHANGED <<secret, registered, browserVars, pageVars, flow, disturbed, seen>>
-----------------------------------------------------------------------------
(* The browser. *)

Under(p) == {q \in Slots : q # p /\ flow[q].at # "idle"}

\* requestJsonRaw: what is sent carries the token and cookies the browser has by then.
Request(why, url, step, who, t, c, refused) ==
  [at |-> "sent", why |-> why, url |-> url, step |-> step, who |-> who,
   bearer |-> t, cookie |-> c, legacy |-> legacy, answer |-> NoAnswer, refused |-> refused]

UrlOf(why) ==
  CASE why \in {"refresh", "recover"} -> "sync" [] why \in {"save", "binds"} -> "save"
    [] why \in {"register", "reauth"} -> "register" [] OTHER -> "none"

Begins(p) ==
  /\ disturbed' = IF Under(p) # {} THEN "yes" ELSE IF disturbed = "no" THEN "no" ELSE "mending"
  /\ seen' = IF Under(p) = {} THEN seen ELSE [who |-> NoName, at |-> 0]

\* The page syncs (a start, a return to the menu), saves something, or signs in by name.
Begin(p, why, who) ==
  /\ flow[p].at = "idle" /\ why \in {"refresh", "save", "register"}
  /\ why = "save" => player # NoName
  /\ who # NoName <=> why = "register"
  /\ flow' = [flow EXCEPT ![p] = Request(why, UrlOf(why), "first", who, token, cookie, "no")]
  /\ Begins(p)
  /\ UNCHANGED <<now, secret, registered, browserVars, pageVars>>

\* setUserHint of a page without a player, one attempt at a time: ensureLoggedInForSave
\* registers the name in the username input, whatever was typed there by then, or else the
\* remembered one.
Reauthenticate(p, who) ==
  /\ flow[p].at = "idle" /\ player = NoName
  /\ online = "yes" /\ reauth = "no" /\ reauth' = "yes"
  /\ flow' = [flow EXCEPT ![p] = Request("reauth", "register", "first", who, token, cookie, "no")]
  /\ Begins(p)
  /\ UNCHANGED <<now, secret, registered, browserVars, player, online>>

\* The browser drops a cookie whose Max-Age is over.  Max-Age is the lifetime of the token
\* in it and counts from the answer's arrival, so that the token may expire before.  One
\* that is over while a flow is under way is dropped when the flow has ended.
CookieLapses ==
  /\ ~Busy /\ cookie # NoToken /\ cookie.exp <= now /\ cookie' = NoToken
  /\ UNCHANGED <<now, secret, registered, legacy, token, name, pageVars, flow, disturbed, seen>>

\* Mutant: a browser that has a token keeps it.
KeepsToken(a) == IF token = NoToken THEN a.gives ELSE token

\* applySessionFromResponse, and what the browser itself does with Set-Cookie.
TokenAfter(a) == IF a.gives # NoToken THEN a.gives ELSE token
NameAfter(a) == IF a.user # NoName THEN a.user ELSE name
CookieAfter(a) == IF a.sets = Keep THEN cookie ELSE a.sets

Takes(p, a) ==
  /\ cookie' = CookieAfter(a)
  /\ seen' = IF a.user # NoName /\ disturbed' = "no" THEN [who |-> a.user, at |-> a.at] ELSE seen
  /\ UNCHANGED <<now, secret, registered, legacy>>

\* requestJson goes on after a 401: to /api/me with the cookie, then to the remembered
\* name, then to the request it was called for.
GoesOn(p, url, step, who, refused) ==
  LET a == flow[p].answer
  IN  /\ flow' = [flow EXCEPT ![p] =
            Request(flow[p].why, url, step, who, TokenAfter(a), CookieAfter(a), refused)]
      /\ token' = TokenAfter(a) /\ name' = NameAfter(a)
      /\ UNCHANGED <<pageVars, disturbed>>
      /\ Takes(p, a)

Recovers(p) ==
  LET q == flow[p]
      a == q.answer
      isRefused == IF a.status = "unauthorized" THEN "yes" ELSE q.refused
  IN  /\ q.at = "answered"
      /\ \/ /\ q.step = "first" /\ a.status = "unauthorized"
            /\ GoesOn(p, "me", "refresh", q.who, "no")
         \/ /\ q.step = "refresh" /\ a.status # "ok" /\ name # NoName
            /\ GoesOn(p, "register", "reauth", name, isRefused)
         \/ /\ q.step \in {"refresh", "reauth"} /\ a.status = "ok"
            /\ GoesOn(p, UrlOf(q.why), "retry", q.who, "no")

\* Is the request over?
Settled(q) ==
  /\ q.at = "answered"
  /\ \/ q.step = "first" /\ q.answer.status # "unauthorized"
     \/ q.step = "retry"
     \/ q.step = "refresh" /\ q.answer.status # "ok" /\ name = NoName
     \/ q.step = "reauth" /\ q.answer.status # "ok"

\* Neither attempt came through and one of them was refused: the browser forgets.
Forgets(q) ==
  q.step \in {"refresh", "reauth"} /\ (q.refused = "yes" \/ q.answer.status = "unauthorized")

\* What requestJson returns when it gave up is the 401 it began with.
Result(q) == IF q.step \in {"refresh", "reauth"} THEN "unauthorized" ELSE q.answer.status

\* refreshProfileAndHighscores, for a refresh and for recoverSession; a save's answer;
\* registerUser; recoverUserFromUsername.
PlayerAfter(q) ==
  IF Result(q) = "ok" THEN IF q.why = "binds" THEN player ELSE q.answer.user
  ELSE IF q.why = "refresh" THEN NoName ELSE player

OnlineAfter(q) ==
  CASE Result(q) = "ok" -> "yes"
    [] Result(q) # "ok" /\ q.why \in {"refresh", "recover"} -> "no"
    [] Result(q) # "ok" /\ q.why \in {"save", "register"} ->
         IF Result(q) \in {"unauthorized", "limited"} THEN "yes" ELSE "no"
    [] OTHER -> online

\* Does the browser get a new token and a new cookie?
SignsIn(q) == Result(q) = "ok" /\ q.answer.gives # NoToken /\ q.answer.sets = q.answer.gives

\* A save that was refused is followed by recoverSession; a sign-in by the key bindings
\* and a refresh.
Follows(q) ==
  CASE q.why = "save" /\ Result(q) = "unauthorized" -> "recover"
    [] q.why = "register" /\ Result(q) = "ok" -> "binds"
    [] q.why = "binds" -> "refresh"
    [] OTHER -> "none"

Settle(p) ==
  LET q == flow[p]
      a == q.answer
      t == IF Forgets(q) THEN NoToken ELSE TokenAfter(a)
  IN  /\ Settled(q)
      /\ token' = t
      /\ name' = IF Forgets(q) THEN NoName ELSE NameAfter(a)
      /\ disturbed' = IF disturbed = "mending" /\ SignsIn(q) THEN "no" ELSE disturbed
      /\ Takes(p, a)
      /\ player' = PlayerAfter(q) /\ online' = OnlineAfter(q)
      /\ reauth' = IF q.why = "reauth" THEN "no" ELSE reauth
      /\ flow' = [flow EXCEPT ![p] =
           IF Follows(q) = "none" THEN NoFlow
           ELSE Request(Follows(q), UrlOf(Follows(q)), "first", NoName, t, CookieAfter(a), "no")]

SessionsNext ==
  \/ \E p \in Slots, status \in {"limited", "error"} : ServeBadly(p, status)
  \/ \E p \in Slots : Recovers(p) \/ Settle(p)
  \/ \E p \in Slots, who \in Names : Reauthenticate(p, who)
  \/ \E p \in Slots, arrives \in {"yes", "no"} : Serve(p, arrives)
  \/ \E p \in Slots, why \in Whys, who \in Names \cup {NoName} : Begin(p, why, who)
  \/ \E u \in Names : RemoveAccount(u)
  \/ Restart \/ SecondPasses \/ CookieLapses

SessionsSpec == SessionsInit /\ [][SessionsNext]_sessionVars
-----------------------------------------------------------------------------
\* A player who was recognised no longer ago than the refresh window is recognised still,
\* although tokens are never renewed by most answers, bearer tokens take precedence over
\* cookies that are, and answers fail and get lost: a session slides with its use, as
\* long as requests do not overlap, accounts stay and the secret does.
ActiveStaysSignedIn ==
  seen.who # NoName /\ disturbed = "no" /\ now - seen.at <= RefreshWindow
    => Recognised(token, cookie, legacy) = seen.who

\* While flows do not overlap, the page never saves for somebody other than the player
\* it shows: names, tokens, cookies and the player are set by different answers and
\* forgotten at different times.  Only the name of an old cookie may come back, once the
\* browser has forgotten its token.
SavesForWhomItShows ==
  disturbed = "no" /\ player # NoName
    => Recognised(token, cookie, legacy) \in {player, legacy, NoName}

\* Whoever is shown is signed in, and nobody else is saved for.
SignedInAsShown == ActiveStaysSignedIn /\ SavesForWhomItShows
=============================================================================
