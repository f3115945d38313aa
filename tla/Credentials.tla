----------------------------- MODULE Credentials -----------------------------
(* What lets somebody in: the form tokens and the sessions of the admin       *)
(* dashboard, each kept in memory and in SQLite, the failed logins, and the   *)
(* API keys of an agent.  One process, which may be restarted at any time: it *)
(* then loads the sessions, and finds the form tokens when they are shown.    *)
EXTENDS Integers, Sequences, SequencesExt, FiniteSets

CONSTANTS
  SESSION_MAX_AGE, CSRF_MAX_AGE, LOCKOUT_SECONDS, MAX_ATTEMPTS, MAX_KEYS_PER_AGENT,
  MaxHour, MaxTokens, MaxSessions, MaxKeys    \* bounds

VARIABLES
  hour,             \* time.time()
  csrf_cache, csrf_tokens,   \* form tokens [token, at], in memory and in SQLite
  session_cache, sessions,   \* sessions, likewise
  login_attempts,   \* times of failed logins from one address
  api_keys,         \* is_active of the agent's keys, by id
  spent,            \* history: form tokens that were accepted
  logged_out        \* history: sessions that were ended

credential_vars == <<hour, csrf_cache, csrf_tokens, session_cache, sessions,
                     login_attempts, api_keys, spent, logged_out>>
csrf_vars == <<csrf_cache, csrf_tokens, spent>>
session_vars == <<session_cache, sessions, logged_out>>

CredentialInit ==
  /\ hour = 0
  /\ csrf_cache = {} /\ csrf_tokens = {} /\ spent = {}
  /\ session_cache = {} /\ sessions = {} /\ logged_out = {}
  /\ login_attempts = <<>> /\ api_keys = <<>>

Without(rows, token) == {r \in rows : r.token # token}
Fresh(rows, max_age) == {r \in rows : hour - r.at < max_age}
Tokens(rows) == {r.token : r \in rows}

HourPasses ==
  /\ hour < MaxHour /\ hour' = hour + 1
  /\ UNCHANGED <<csrf_vars, session_vars, login_attempts, api_keys>>

-----------------------------------------------------------------------------
(* Form tokens and logins *)

\* Tokens are random: the ones given out before are never given out again.
Issued == Tokens(csrf_cache \cup csrf_tokens) \cup spent

\* Rows that are too old go; what is in memory stays.
_save_csrf(token) ==
  /\ csrf_cache' = csrf_cache \cup {[token |-> token, at |-> hour]}
  /\ csrf_tokens' = {r \in csrf_tokens : hour - r.at <= CSRF_MAX_AGE}
                      \cup {[token |-> token, at |-> hour]}

LoginPage ==
  /\ \E token \in (1 .. MaxTokens) \ Issued : _save_csrf(token)
  /\ UNCHANGED <<hour, spent, session_vars, login_attempts, api_keys>>

\* Mutant of ForgetCsrf: the row of a token found in memory stays.
ForgetCsrfCached(token) ==
  /\ csrf_cache' = Without(csrf_cache, token)
  /\ csrf_tokens' = IF token \in Tokens(csrf_cache) THEN csrf_tokens
                    ELSE Without(csrf_tokens, token)

\* Found in memory or, after a restart, only in SQLite: gone from both.
ForgetCsrf(token) ==
  /\ csrf_cache' = Without(csrf_cache, token)
  /\ csrf_tokens' = Without(csrf_tokens, token)

_verify_csrf(token) ==
  /\ token \in Tokens(Fresh(csrf_cache \cup csrf_tokens, CSRF_MAX_AGE))
  /\ ForgetCsrf(token)
  /\ spent' = spent \cup {token}

_is_locked_out ==
  Len(SelectSeq(login_attempts, LAMBDA t : t > hour - LOCKOUT_SECONDS)) >= MAX_ATTEMPTS

_record_login_attempt ==
  login_attempts' = Append(SelectSeq(login_attempts, LAMBDA t : t >= hour - LOCKOUT_SECONDS), hour)

WrongPassword(token) ==
  /\ ~_is_locked_out
  /\ _verify_csrf(token)
  /\ _record_login_attempt
  /\ UNCHANGED <<hour, session_vars, api_keys>>

_save_session(s) ==
  /\ session_cache' = session_cache \cup {[token |-> s, at |-> hour]}
  /\ sessions' = sessions \cup {[token |-> s, at |-> hour]}

Login(token) ==
  /\ ~_is_locked_out
  /\ _verify_csrf(token)
  /\ login_attempts' = <<>>
  /\ \E s \in (1 .. MaxSessions) \ (Tokens(session_cache \cup sessions) \cup logged_out) :
       _save_session(s)
  /\ UNCHANGED <<hour, logged_out, api_keys>>

-----------------------------------------------------------------------------
(* Sessions *)

\* _check_session(): an old session leaves memory when it is shown.
Admitted(token) == \E r \in session_cache : r.token = token /\ hour - r.at <= SESSION_MAX_AGE

ShowExpired(token) ==
  /\ token \in Tokens(session_cache) /\ ~Admitted(token)
  /\ session_cache' = Without(session_cache, token)
  /\ UNCHANGED <<hour, csrf_vars, sessions, logged_out, login_attempts, api_keys>>

_delete_session(token) ==
  /\ session_cache' = Without(session_cache, token)
  /\ sessions' = Without(sessions, token)

\* GET /admin/logout: whatever the cookie names.
Logout(token) ==
  /\ _delete_session(token)
  /\ logged_out' = logged_out \cup {token}
  /\ UNCHANGED <<hour, csrf_vars, login_attempts, api_keys>>

\* Memory is lost; _load_sessions() deletes the rows that are too old.
Restart ==
  /\ csrf_cache' = {}
  /\ sessions' = {r \in sessions : r.at >= hour - SESSION_MAX_AGE}
  /\ session_cache' = sessions'
  /\ UNCHANGED <<hour, csrf_tokens, spent, logged_out, login_attempts, api_keys>>

-----------------------------------------------------------------------------
(* API keys of one agent *)

ActiveKeys == {k \in DOMAIN api_keys : api_keys[k]}

\* The keys are counted and the new one inserted by one handler.
create_key ==
  /\ Cardinality(ActiveKeys) < MAX_KEYS_PER_AGENT
  /\ api_keys' = Append(api_keys, TRUE)

\* POST /create, with a signature of the hour it is made in.
CreateKey ==
  /\ Len(api_keys) < MaxKeys
  /\ create_key
  /\ UNCHANGED <<hour, csrf_vars, session_vars, login_attempts>>

\* Any active key of the agent may revoke one, or all of them.
require_agent == ActiveKeys # {}

RevokeKey(key) ==
  /\ require_agent
  /\ api_keys' = [api_keys EXCEPT ![key] = FALSE]
  /\ UNCHANGED <<hour, csrf_vars, session_vars, login_attempts>>

RevokeAllKeys ==
  /\ require_agent
  /\ api_keys' = [k \in DOMAIN api_keys |-> FALSE]
  /\ UNCHANGED <<hour, csrf_vars, session_vars, login_attempts>>

-----------------------------------------------------------------------------
CredentialNext ==
  \/ HourPasses \/ LoginPage \/ Restart \/ CreateKey \/ RevokeAllKeys
  \/ \E token \in 1 .. MaxTokens : WrongPassword(token) \/ Login(token)
  \/ \E token \in Tokens(session_cache) : ShowExpired(token) \/ Logout(token)
  \/ \E key \in DOMAIN api_keys : RevokeKey(key)

CredentialSpec == CredentialInit /\ [][CredentialNext]_credential_vars

-----------------------------------------------------------------------------
(* Properties *)

\* What has come to its end lets nobody in again, also when memory and
\* SQLite disagree after a restart: a form token is accepted once, and a
\* session is over after the logout and after its time (_verify_csrf,
\* _delete_session, _load_sessions).
EndedStaysEnded ==
  /\ spent \cap Tokens(Fresh(csrf_cache \cup csrf_tokens, CSRF_MAX_AGE)) = {}
  /\ \A token \in 1 .. MaxSessions : Admitted(token) =>
       /\ token \notin logged_out
       /\ \E r \in sessions : r.token = token /\ hour - r.at <= SESSION_MAX_AGE
=============================================================================
