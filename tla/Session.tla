-------------------------------- MODULE Session --------------------------------
(***************************************************************************)
(* The configuration file and the authorization, over any number of runs:  *)
(* Config, OAuth2, and what main does with them.                           *)
(*                                                                         *)
(* A run reads .grive when it starts and writes all of it back when it     *)
(* ends, and with -a once before.  Nothing locks the file: cron may start  *)
(* a run while another is under way, and the user edits it by hand.        *)
(***************************************************************************)
EXTENDS Integers

CONSTANTS
    Proc,       \* runs that may overlap
    Wish,       \* values of a setting of the file: the ignore expression
    Absent,     \* a key that an object has not
    Missing,    \* no file
    Torn,       \* a file that was truncated and not yet, or never, written
    MaxGrants,  \* bound: how many tokens the server gives out
    MaxHands,   \* bound: how often the user edits the file or revokes a token
    MaxDeaths   \* bound: how often a run dies while it writes

VARIABLES
    config,     \* .grive: an object, Missing or Torn
    pc,         \* where each run is
    m_file,     \* Config::m_file
    m_cmd,      \* Config::m_cmd
    refresh,    \* OAuth2::m_refresh
    granted,    \* the server: tokens 1..granted were given out
    revoked,    \* and these are no longer accepted
    wished,     \* history: the setting the user last wrote
    had,        \* history: there was a token in the file
    mixed,      \* history: two touched the file at once, or a run died writing it
    hands,      \* edits and revocations so far
    deaths      \* deaths so far

memory  == <<m_file, m_cmd, refresh>>
account == <<granted, revoked>>
history == <<wished, had, mixed, hands, deaths>>
sessvars == <<config, pc, memory, account, history>>

Key == {"refresh_token", "ignore", "force"}
Value == Wish \cup BOOLEAN \cup Nat \cup {Absent}

ASSUME SessionAssumption ==
    /\ Absent \notin Wish \cup BOOLEAN \cup Nat
    /\ Missing # Torn /\ Missing \notin [Key -> Value] /\ Torn \notin [Key -> Value]
    /\ MaxGrants \in Nat /\ MaxHands \in Nat /\ MaxDeaths \in Nat

\* Val(): an object without keys.
NoKeys == [k \in Key |-> Absent]

-----------------------------------------------------------------------------
(* Val, as an object.                                                      *)

Has(obj, k) == obj[k] # Absent

\* Val::Add: insert or do nothing.
Add(obj, k, v) == IF Has(obj, k) THEN obj ELSE [obj EXCEPT ![k] = v]

\* Config::GetAll: the command line overrides the file.
GetAll(p) == [k \in Key |-> IF Has(m_cmd[p], k) THEN m_cmd[p][k] ELSE m_file[p][k]]

\* Config::Get
Get(p, k) == GetAll(p)[k]

-----------------------------------------------------------------------------
(* A run.                                                                  *)

\* Config::Config: the command line is in m_cmd, -f present or not; a file that is not
\* there or that cannot be parsed is an object without keys.
Begin(p) ==
    /\ pc[p] = "ended"
    /\ \E force \in BOOLEAN, ignore \in Wish \cup {Absent}, auth \in BOOLEAN :
         /\ m_cmd' = [m_cmd EXCEPT ![p] = [NoKeys EXCEPT !["force"] = force, !["ignore"] = ignore]]
         /\ pc' = [pc EXCEPT ![p] = IF auth THEN "auth" ELSE "token"]
    /\ m_file' = [m_file EXCEPT ![p] = IF config \in {Missing, Torn} THEN NoKeys ELSE config]
    /\ mixed' = (mixed \/ config = Torn)
    /\ UNCHANGED <<config, refresh, account, wished, had, hands, deaths>>

\* A run ends, and what it had in memory is gone.
Quit(p) ==
    /\ pc' = [pc EXCEPT ![p] = "ended"]
    /\ m_file' = [m_file EXCEPT ![p] = NoKeys]
    /\ m_cmd' = [m_cmd EXCEPT ![p] = NoKeys]
    /\ refresh' = [refresh EXCEPT ![p] = Absent]

\* OAuth2::Auth and Config::Set. An error ends the run, and so does an answer without a
\* refresh token, by an exception of Val::operator[].
Auth(p) ==
    /\ pc[p] = "auth"
    /\ \/ /\ granted < MaxGrants
          /\ granted' = granted + 1
          /\ refresh' = [refresh EXCEPT ![p] = granted']
          /\ m_file' = [m_file EXCEPT ![p] = Add(@, "refresh_token", granted')]
          /\ pc' = [pc EXCEPT ![p] = "save auth"]
          /\ UNCHANGED m_cmd
       \/ Quit(p) /\ UNCHANGED granted
    /\ UNCHANGED <<config, revoked, history>>

\* Faulty: without a token the run goes on to its end.
TokenMissing(p) == pc' = [pc EXCEPT ![p] = "save end"] /\ UNCHANGED memory

\* "Please run grive with the -a option"
NoToken(p) == Quit(p)

\* OAuth2::OAuth2
Construct(p, token) == refresh' = [refresh EXCEPT ![p] = token]

\* The token of the configuration, and OAuth2::Refresh: one that was revoked ends the run.
Login(p) ==
    /\ pc[p] = "token"
    /\ \/ Get(p, "refresh_token") = Absent /\ NoToken(p)
       \/ Get(p, "refresh_token") \in revoked /\ Quit(p)
       \/ /\ Get(p, "refresh_token") \notin revoked \cup {Absent}
          /\ Construct(p, Get(p, "refresh_token"))
          /\ pc' = [pc EXCEPT ![p] = "drive"]
          /\ UNCHANGED <<m_file, m_cmd>>
    /\ UNCHANGED <<config, account, history>>

\* The run itself, which may fail.
Work(p) ==
    /\ pc[p] = "drive"
    /\ \/ pc' = [pc EXCEPT ![p] = "save end"] /\ UNCHANGED memory
       \/ Quit(p)
    /\ UNCHANGED <<config, account, history>>

\* Config::Save opens the file, which truncates it,
Truncate(p) ==
    /\ pc[p] \in {"save auth", "save end"}
    /\ config' = Torn
    /\ pc' = [pc EXCEPT ![p] = IF @ = "save auth" THEN "write auth" ELSE "write end"]
    /\ UNCHANGED <<memory, account, history>>

\* Faulty: what was given on the command line is saved too.
AllOptions(p) == GetAll(p)

\* What is written: what was read, and the new token.
Saved(p) == m_file[p]

\* and writes it. Where another run has written since, the shorter text leaves the end of
\* the longer behind it.
Rewrite(p) ==
    /\ pc[p] \in {"write auth", "write end"}
    /\ \/ config' = Saved(p)
       \/ config \notin {Torn, Saved(p)} /\ config' = Torn
    /\ IF pc[p] = "write auth"
       THEN pc' = [pc EXCEPT ![p] = "token"] /\ UNCHANGED memory
       ELSE Quit(p)
    /\ had' = (had \/ (config' # Torn /\ Has(config', "refresh_token")))
    /\ mixed' = (mixed \/ config # Torn)
    /\ UNCHANGED <<account, wished, hands, deaths>>

\* A run dies between the two, or anywhere else.
Die(p) ==
    /\ pc[p] # "ended" /\ deaths < MaxDeaths
    /\ Quit(p)
    /\ deaths' = deaths + 1
    /\ mixed' = (mixed \/ pc[p] \in {"write auth", "write end"})
    /\ UNCHANGED <<config, account, wished, had, hands>>

\* The user writes another ignore expression in the file.
Edit ==
    /\ hands < MaxHands /\ config \notin {Missing, Torn}
    /\ \E w \in Wish : config' = [config EXCEPT !["ignore"] = w] /\ wished' = w
    /\ mixed' = (mixed \/ \E p \in Proc : pc[p] # "ended")
    /\ hands' = hands + 1
    /\ UNCHANGED <<pc, memory, account, had, deaths>>

\* The user withdraws the permission in the settings of the account.
Revoke ==
    /\ hands < MaxHands
    /\ revoked' = 1..granted /\ revoked' # revoked
    /\ hands' = hands + 1
    /\ UNCHANGED <<config, pc, memory, granted, wished, had, mixed, deaths>>

SessionIdle ==
    /\ config = Missing
    /\ pc = [p \in Proc |-> "ended"]
    /\ m_file = [p \in Proc |-> NoKeys] /\ m_cmd = [p \in Proc |-> NoKeys]
    /\ refresh = [p \in Proc |-> Absent]
    /\ granted = 0 /\ revoked = {}
    /\ wished = Absent /\ had = FALSE /\ mixed = FALSE /\ hands = 0 /\ deaths = 0

SessionNext ==
    \/ \E p \in Proc :
          \/ Begin(p) \/ Auth(p) \/ Login(p) \/ Work(p)
          \/ Truncate(p) \/ Rewrite(p) \/ Die(p)
    \/ Edit
    \/ Revoke

SessionSpec == SessionIdle /\ [][SessionNext]_sessvars

-----------------------------------------------------------------------------
(* Properties.                                                             *)

Saving == \E p \in Proc : pc[p] \in {"write auth", "write end"}

\* Once there was a token in the file there is one whenever the file can be read, whatever
\* runs overlap and wherever they die: a run that reads the file while another writes it
\* finds nothing, and must not write back what it found (Config.cc:111, main.cc:203).
TokenKept == had /\ config # Torn => config # Missing /\ Has(config, "refresh_token")

\* As long as nobody touches the file between another's reading and writing, it is never left
\* unreadable, a setting stays as the user wrote it, and nothing that was given on a command
\* line is found there by a later run.
SettingsKept ==
    ~mixed => /\ config = Torn => Saving
              /\ config \notin {Torn, Missing} => config["ignore"] = wished /\ config["force"] = Absent

===============================================================================
