------------------------------ MODULE DiskProofs ------------------------------
(***************************************************************************)
(* What grive keeps on the disk is kept, though others write there too.    *)
(*                                                                         *)
(* A token that was saved is never lost again (Session.tla), for any       *)
(* number of runs that overlap.  A run that finds no token in the file     *)
(* ends without writing; one that writes therefore has a token, and it is  *)
(* in what it read from the file and not only on its command line, for it  *)
(* is m_file that is written.                                              *)
(*                                                                         *)
(* A write is noticed (Transfer.tla), for files of any length, any number  *)
(* of runs and any interleaving.  The record can only be wrong about a     *)
(* file whose change time it covers.  The proof follows what grive knows   *)
(* of the file from call to call: the part that was hashed is the          *)
(* beginning of what is there, the part that was received is all of it,    *)
(* and the checksum is of what is there, unless a write was made since     *)
(* that the change time shows, or that races.                              *)
(***************************************************************************)
EXTENDS Session, Transfer, SequenceTheorems, TLAPS

Place == {"ended", "auth", "token", "drive", "save auth", "write auth", "save end", "write end"}

SessionTypes ==
    /\ pc \in [Proc -> Place]
    /\ m_file \in [Proc -> [Key -> Value]]
    /\ m_cmd \in [Proc -> [Key -> Value]]
    /\ config \in [Key -> Value] \cup {Missing, Torn}
    /\ granted \in Nat

\* Where a run is that may write the file.
Writing == {"drive", "save auth", "write auth", "save end", "write end"}

\* Who writes has a token of the file; no token comes from the command line.
Holders ==
    /\ \A p \in Proc : pc[p] \in Writing => Has(m_file[p], "refresh_token")
    /\ \A p \in Proc : ~Has(m_cmd[p], "refresh_token")

SessionInv == SessionTypes /\ Holders /\ TokenKept

-----------------------------------------------------------------------------

\* A run that ends leaves the others as they were (return and exceptions of Main).
LEMMA QuitKeeps ==
    ASSUME SessionTypes, Holders, NEW p \in Proc, Quit(p)
    PROVE  /\ pc' \in [Proc -> Place]
           /\ m_file' \in [Proc -> [Key -> Value]]
           /\ m_cmd' \in [Proc -> [Key -> Value]]
           /\ Holders'
<1>1. NoKeys \in [Key -> Value] /\ ~Has(NoKeys, "refresh_token")
  BY DEF NoKeys, Key, Value, Has
<1>2. QED
  BY <1>1 DEF Quit, SessionTypes, Holders, Writing, Place

LEMMA InitSession == SessionIdle => SessionInv
<1>1. NoKeys \in [Key -> Value] /\ ~Has(NoKeys, "refresh_token")
  BY DEF NoKeys, Key, Value, Has
<1>2. QED
  BY <1>1 DEF SessionIdle, SessionInv, SessionTypes, Holders, TokenKept, Place, Writing

\* A run starts with what the file holds, or with nothing (Config.cc:39).
LEMMA BeginKeeps ==
    ASSUME SessionInv, NEW p \in Proc, Begin(p)
    PROVE  SessionInv'
<1>1. NoKeys \in [Key -> Value]
  BY DEF NoKeys, Key, Value
<1>2. PICK force \in BOOLEAN, ignore \in Wish \cup {Absent}, auth \in BOOLEAN :
         /\ m_cmd' = [m_cmd EXCEPT ![p] = [NoKeys EXCEPT !["force"] = force, !["ignore"] = ignore]]
         /\ pc' = [pc EXCEPT ![p] = IF auth THEN "auth" ELSE "token"]
  BY DEF Begin
<1>3. DEFINE line == [NoKeys EXCEPT !["force"] = force, !["ignore"] = ignore]
<1>4. line \in [Key -> Value] /\ ~Has(line, "refresh_token")
  BY DEF NoKeys, Key, Value, Has
<1>5. m_cmd' = [m_cmd EXCEPT ![p] = line]
  BY <1>2
<1>6. m_file' \in [Proc -> [Key -> Value]] /\ \A r \in Proc : r # p => m_file'[r] = m_file[r]
  BY <1>1 DEF Begin, SessionInv, SessionTypes
<1>7. m_cmd' \in [Proc -> [Key -> Value]] /\ \A r \in Proc : ~Has(m_cmd'[r], "refresh_token")
  <2>. HIDE DEF line
  <2>. QED BY <1>4, <1>5 DEF SessionInv, SessionTypes, Holders
<1>8. pc' \in [Proc -> Place] /\ pc'[p] \notin Writing /\ \A r \in Proc : r # p => pc'[r] = pc[r]
  BY <1>2 DEF SessionInv, SessionTypes, Place, Writing
<1>9. QED
  BY <1>6, <1>7, <1>8 DEF Begin, SessionInv, SessionTypes, Holders, TokenKept, account

\* With -a there is a token, the new one or the one that was there (Config.cc:81).
LEMMA AuthKeeps ==
    ASSUME SessionInv, NEW p \in Proc, Auth(p)
    PROVE  SessionInv'
<1>1. CASE Quit(p) /\ UNCHANGED granted
  BY <1>1, QuitKeeps DEF Auth, SessionInv, SessionTypes, TokenKept, history
<1>2. CASE ~(Quit(p) /\ UNCHANGED granted)
  <2>1. /\ granted' = granted + 1 /\ UNCHANGED m_cmd
        /\ m_file' = [m_file EXCEPT ![p] = Add(@, "refresh_token", granted')]
        /\ pc' = [pc EXCEPT ![p] = "save auth"]
        /\ UNCHANGED <<config, had>>
    BY <1>2 DEF Auth, history
  <2>2. granted \in Nat
    BY DEF SessionInv, SessionTypes
  <2>3. granted' = granted + 1
    BY <2>1
  <2>4. granted' \in Nat
    BY <2>2, <2>3
  <2>5. granted' # Absent /\ granted' \in Value
    BY <2>4, SessionAssumption DEF Value
  <2>6. DEFINE file == Add(m_file[p], "refresh_token", granted')
  <2>7. file \in [Key -> Value] /\ Has(file, "refresh_token")
    BY <2>5 DEF SessionInv, SessionTypes, Add, Has, Key
  <2>8. m_file' = [m_file EXCEPT ![p] = file]
    BY <2>1
  <2>. HIDE DEF file
  <2>9. QED
    BY <2>1, <2>4, <2>7, <2>8 DEF SessionInv, SessionTypes, Holders, TokenKept, Place, Writing
<1>3. QED
  BY <1>1, <1>2

\* A run goes on only with a token, and it is the file's (main.cc:194).
LEMMA LoginKeeps ==
    ASSUME SessionInv, NEW p \in Proc, Login(p)
    PROVE  SessionInv'
<1>1. CASE Quit(p)
  BY <1>1, QuitKeeps DEF Login, Construct, SessionInv, SessionTypes, TokenKept, history, account
<1>2. CASE ~Quit(p)
  <2>1. /\ Get(p, "refresh_token") # Absent
        /\ pc' = [pc EXCEPT ![p] = "drive"]
        /\ UNCHANGED <<m_file, m_cmd, config, granted, had>>
    BY <1>2 DEF Login, Construct, NoToken, account, history
  <2>2. Has(m_file[p], "refresh_token")
    BY <2>1 DEF Get, GetAll, SessionInv, Holders, Has, Key
  <2>3. QED
    BY <2>1, <2>2 DEF SessionInv, SessionTypes, Holders, TokenKept, Place, Writing
<1>3. QED
  BY <1>1, <1>2

\* The work of a run is no matter of the file (main.cc:215).
LEMMA WorkKeeps ==
    ASSUME SessionInv, NEW p \in Proc, Work(p)
    PROVE  SessionInv'
<1>1. CASE Quit(p)
  BY <1>1, QuitKeeps DEF Work, SessionInv, SessionTypes, TokenKept, history, account
<1>2. CASE pc' = [pc EXCEPT ![p] = "save end"] /\ UNCHANGED memory
  BY <1>2 DEF Work, SessionInv, SessionTypes, Holders, TokenKept, Place, Writing, memory, history, account
<1>3. QED
  BY <1>1, <1>2 DEF Work

\* The file is truncated (Config.cc:76).
LEMMA TruncateKeeps ==
    ASSUME SessionInv, NEW p \in Proc, Truncate(p)
    PROVE  SessionInv'
BY DEF Truncate, SessionInv, SessionTypes, Holders, TokenKept, Place, Writing, memory, history, account

\* What is written has a token, or cannot be read (Config.cc:78).
LEMMA WriteKeeps ==
    ASSUME SessionInv, NEW p \in Proc, Rewrite(p)
    PROVE  SessionInv'
<1>1. pc[p] \in Writing /\ Has(m_file[p], "refresh_token")
  BY DEF Rewrite, SessionInv, Holders, Writing
<1>2. m_file[p] \in [Key -> Value] /\ m_file[p] # Missing
  BY SessionAssumption DEF SessionInv, SessionTypes
<1>3. config' \in [Key -> Value] \cup {Missing, Torn} /\ TokenKept'
  BY <1>1, <1>2, SessionAssumption DEF Rewrite, Saved, SessionInv, SessionTypes, TokenKept
<1>4. granted' = granted
  BY DEF Rewrite, account
<1>5. CASE Quit(p)
  BY <1>3, <1>4, <1>5, QuitKeeps DEF SessionInv, SessionTypes
<1>6. CASE pc' = [pc EXCEPT ![p] = "token"] /\ UNCHANGED memory
  BY <1>3, <1>4, <1>6 DEF SessionInv, SessionTypes, Holders, Place, Writing, memory
<1>7. QED
  BY <1>5, <1>6 DEF Rewrite

\* A run that dies writes nothing more.
LEMMA DieKeeps ==
    ASSUME SessionInv, NEW p \in Proc, Die(p)
    PROVE  SessionInv'
BY QuitKeeps DEF Die, SessionInv, SessionTypes, TokenKept, account

\* The user and the server leave the token where it is.
LEMMA OthersKeep ==
    ASSUME SessionInv, Edit \/ Revoke
    PROVE  SessionInv'
<1>1. CASE Edit
  <2>1. PICK w \in Wish : config' = [config EXCEPT !["ignore"] = w]
    BY <1>1 DEF Edit
  <2>2. config \in [Key -> Value]
    BY <1>1 DEF Edit, SessionInv, SessionTypes
  <2>3. config' \in [Key -> Value] /\ config'["refresh_token"] = config["refresh_token"]
    BY <2>1, <2>2 DEF Key, Value
  <2>4. config' # Missing
    BY <2>3, SessionAssumption
  <2>5. QED
    BY <1>1, <2>3, <2>4 DEF Edit, SessionInv, SessionTypes, Holders, TokenKept, Has, memory, account
<1>2. CASE Revoke
  BY <1>2 DEF Revoke, SessionInv, SessionTypes, Holders, TokenKept, memory
<1>3. QED
  BY <1>1, <1>2

\* No step of a run, the user or the server loses the token.
LEMMA SessionGoesOn == SessionInv /\ [SessionNext]_sessvars => SessionInv'
<1>. SUFFICES ASSUME SessionInv, [SessionNext]_sessvars PROVE SessionInv'
  OBVIOUS
<1>1. CASE UNCHANGED sessvars
  BY <1>1 DEF sessvars, memory, account, history, SessionInv, SessionTypes, Holders, TokenKept
<1>2. ASSUME NEW p \in Proc,
             Begin(p) \/ Auth(p) \/ Login(p) \/ Work(p) \/ Truncate(p) \/ Rewrite(p) \/ Die(p)
      PROVE  SessionInv'
  BY <1>2, BeginKeeps, AuthKeeps, LoginKeeps, WorkKeeps, TruncateKeeps, WriteKeeps, DieKeeps
<1>3. CASE Edit \/ Revoke
  BY <1>3, OthersKeep
<1>4. QED
  BY <1>1, <1>2, <1>3 DEF SessionNext

\* The next run always finds the token that was saved, unless it finds nothing at all
\* (Config::Read and Config::Save, Config.cc:74 and 102; main.cc:186 and 232).
THEOREM TokenIsKept == SessionSpec => []TokenKept
<1>1. SessionInv => TokenKept
  BY DEF SessionInv
<1>2. QED
  BY <1>1, InitSession, SessionGoesOn, PTL DEF SessionSpec

-----------------------------------------------------------------------------

\* Until two meddle with the file, what a run read of it is what the user wrote.
Unmixed ==
    /\ config = Torn => Saving
    /\ config \notin {Torn, Missing} => config["ignore"] = wished /\ config["force"] = Absent
    /\ config = Missing => wished = Absent
    /\ \A p \in Proc : pc[p] # "ended" =>
          m_file[p]["ignore"] = wished /\ m_file[p]["force"] = Absent

SettingsInv == SessionTypes /\ (~mixed => Unmixed)

\* A run that ends, and has not just truncated the file.
LEMMA QuitUnmixed ==
    ASSUME SessionTypes, Unmixed, NEW p \in Proc, Quit(p), UNCHANGED <<config, wished>>,
           pc[p] \notin {"write auth", "write end"}
    PROVE  Unmixed'
<1>1. \A r \in Proc : r # p => pc'[r] = pc[r] /\ m_file'[r] = m_file[r]
  BY DEF Quit, SessionTypes
<1>2. pc'[p] = "ended"
  BY DEF Quit, SessionTypes
<1>3. Saving => Saving'
  BY <1>1 DEF Saving
<1>4. QED
  BY <1>1, <1>2, <1>3 DEF Unmixed

\* A run that goes on with what it read.
LEMMA GoesOnUnmixed ==
    ASSUME SessionTypes, Unmixed, NEW p \in Proc, NEW l \in Place,
           pc' = [pc EXCEPT ![p] = l], UNCHANGED <<config, m_file, wished>>,
           pc[p] \notin {"ended", "write auth", "write end"}
    PROVE  Unmixed'
<1>1. /\ pc'[p] = l
      /\ \A r \in Proc : r # p => pc'[r] = pc[r]
  BY DEF SessionTypes
<1>2. Saving => Saving'
  BY <1>1 DEF Saving
<1>3. QED
  BY <1>1, <1>2 DEF Unmixed

LEMMA BeginUnmixed ==
    ASSUME SessionInv, SettingsInv, ~mixed', NEW p \in Proc, Begin(p)
    PROVE  Unmixed'
<1>1. /\ config # Torn /\ Unmixed /\ UNCHANGED <<config, wished>>
      /\ m_file' = [m_file EXCEPT ![p] = IF config = Missing THEN NoKeys ELSE config]
  BY DEF Begin, SettingsInv
<1>2. \A r \in Proc : r # p => pc'[r] = pc[r] /\ m_file'[r] = m_file[r]
  BY DEF Begin, SessionInv, SessionTypes
<1>3. m_file'[p] = IF config = Missing THEN NoKeys ELSE config
  BY <1>1 DEF SessionInv, SessionTypes
<1>4. NoKeys["ignore"] = Absent /\ NoKeys["force"] = Absent
  BY DEF NoKeys, Key
<1>5. m_file'[p]["ignore"] = wished /\ m_file'[p]["force"] = Absent
  BY <1>1, <1>3, <1>4 DEF Unmixed
<1>6. QED
  BY <1>1, <1>2, <1>5 DEF Unmixed

LEMMA AuthUnmixed ==
    ASSUME SessionInv, SettingsInv, ~mixed', NEW p \in Proc, Auth(p)
    PROVE  Unmixed'
<1>1. SessionTypes /\ Unmixed /\ pc[p] = "auth" /\ UNCHANGED <<config, wished>>
  BY DEF Auth, history, SettingsInv
<1>2. CASE Quit(p)
  BY <1>1, <1>2, QuitUnmixed
<1>3. CASE ~Quit(p)
  <2>1. /\ m_file' = [m_file EXCEPT ![p] = Add(@, "refresh_token", granted')]
        /\ pc' = [pc EXCEPT ![p] = "save auth"]
    BY <1>3 DEF Auth
  <2>2. m_file[p] \in [Key -> Value]
    BY <1>1 DEF SessionTypes
  <2>3. \A v : /\ Add(m_file[p], "refresh_token", v)["ignore"] = m_file[p]["ignore"]
               /\ Add(m_file[p], "refresh_token", v)["force"] = m_file[p]["force"]
    BY <2>2 DEF Add, Key
  <2>4. /\ m_file'[p]["ignore"] = m_file[p]["ignore"] /\ m_file'[p]["force"] = m_file[p]["force"]
        /\ \A r \in Proc : r # p => pc'[r] = pc[r] /\ m_file'[r] = m_file[r]
    BY <1>1, <2>1, <2>3 DEF SessionTypes
  <2>5. Saving => Saving'
    BY <1>1, <2>4 DEF Saving
  <2>6. QED
    BY <1>1, <2>4, <2>5 DEF Unmixed
<1>4. QED
  BY <1>2, <1>3

\* Who truncates the file is about to write it.
LEMMA TruncateUnmixed ==
    ASSUME SessionInv, SettingsInv, ~mixed', NEW p \in Proc, Truncate(p)
    PROVE  Unmixed'
<1>1. /\ Unmixed /\ config' = Torn /\ UNCHANGED <<m_file, wished>>
      /\ pc[p] # "ended" /\ pc'[p] \in {"write auth", "write end"}
      /\ \A r \in Proc : r # p => pc'[r] = pc[r]
  BY DEF Truncate, memory, history, SettingsInv, SessionInv, SessionTypes
<1>2. Saving'
  BY <1>1 DEF Saving
<1>3. QED
  BY <1>1, <1>2, SessionAssumption DEF Unmixed

\* Only one that nobody else has written since leaves the file whole.
LEMMA RewriteUnmixed ==
    ASSUME SessionInv, SettingsInv, ~mixed', NEW p \in Proc, Rewrite(p)
    PROVE  Unmixed'
<1>1. /\ Unmixed /\ config' = m_file[p] /\ UNCHANGED wished
      /\ pc[p] # "ended"
  BY DEF Rewrite, Saved, SettingsInv
<1>2. config' # Missing /\ config'["ignore"] = wished /\ config'["force"] = Absent
  BY <1>1, SessionAssumption DEF Unmixed, SessionInv, SessionTypes
<1>3. \A r \in Proc : pc'[r] # "ended" => pc[r] # "ended" /\ m_file'[r] = m_file[r]
  BY <1>1 DEF Rewrite, Quit, memory, SessionInv, SessionTypes
<1>4. config' # Torn
  BY <1>1, SessionAssumption DEF SessionInv, SessionTypes
<1>5. QED
  BY <1>1, <1>2, <1>3, <1>4 DEF Unmixed

\* As long as nobody touches the file between another's reading and writing, it keeps what the
\* user wrote and nothing of the command line (Config.cc:102 saves what was read, Config.cc:91
\* joins both).
THEOREM SettingsAreKept == SessionSpec => []SettingsKept
<1>1. SessionIdle => SettingsInv
  BY InitSession, SessionAssumption DEF SessionInv, SettingsInv, SessionIdle, Unmixed
<1>2. SessionInv /\ SettingsInv /\ [SessionNext]_sessvars => SettingsInv'
  <2>. SUFFICES ASSUME SessionInv, SettingsInv, [SessionNext]_sessvars, ~mixed'
                PROVE  Unmixed'
    BY SessionGoesOn DEF SessionInv, SettingsInv
  <2>1. CASE UNCHANGED sessvars
    BY <2>1 DEF sessvars, memory, account, history, SettingsInv, Unmixed, Saving
  <2>2. ASSUME NEW p \in Proc, Begin(p) PROVE Unmixed'
    BY <2>2, BeginUnmixed
  <2>3. ASSUME NEW p \in Proc, Auth(p) PROVE Unmixed'
    BY <2>3, AuthUnmixed
  <2>4. ASSUME NEW p \in Proc, Login(p) PROVE Unmixed'
    BY <2>4, QuitUnmixed, GoesOnUnmixed DEF Login, NoToken, history, SettingsInv, Place
  <2>5. ASSUME NEW p \in Proc, Work(p) PROVE Unmixed'
    BY <2>5, QuitUnmixed, GoesOnUnmixed DEF Work, memory, history, SettingsInv, Place
  <2>6. ASSUME NEW p \in Proc, Truncate(p) PROVE Unmixed'
    BY <2>6, TruncateUnmixed
  <2>7. ASSUME NEW p \in Proc, Rewrite(p) PROVE Unmixed'
    BY <2>7, RewriteUnmixed
  <2>8. ASSUME NEW p \in Proc, Die(p) PROVE Unmixed'
    BY <2>8, QuitUnmixed DEF Die, SettingsInv
  <2>9. CASE Edit
    <3>1. PICK w \in Wish : config' = [config EXCEPT !["ignore"] = w] /\ wished' = w
      BY <2>9 DEF Edit
    <3>2. /\ config \in [Key -> Value] /\ config \notin {Torn, Missing} /\ Unmixed
          /\ \A r \in Proc : pc'[r] = "ended"
      BY <2>9 DEF Edit, SettingsInv, SessionTypes, memory
    <3>3. config' \in [Key -> Value] /\ config'["ignore"] = w /\ config'["force"] = config["force"]
      BY <3>1, <3>2 DEF Key, Value
    <3>4. config' \notin {Torn, Missing}
      BY <3>3, SessionAssumption
    <3>5. QED
      BY <3>1, <3>2, <3>3, <3>4 DEF Unmixed
  <2>10. CASE Revoke
    BY <2>10 DEF Revoke, memory, SettingsInv, Unmixed, Saving
  <2>11. QED
    BY <2>1, <2>2, <2>3, <2>4, <2>5, <2>6, <2>7, <2>8, <2>9, <2>10 DEF SessionNext
<1>3. SettingsInv => SettingsKept
  BY DEF SettingsInv, SettingsKept, Unmixed
<1>4. QED
  BY <1>1, <1>2, <1>3, InitSession, SessionGoesOn, PTL DEF SessionSpec

-------------------------------------------------------------------------------
(* A write is noticed.                                                     *)

TypeInv ==
    /\ body \in [Inode -> Seq(Block)] /\ ctime \in [Inode -> Nat]
    /\ name \in Inode \cup {Unnamed} /\ clock \in Nat
    /\ served \in Seq(Block) /\ newer \in BOOLEAN
    /\ rec \in [has : BOOLEAN, ctime : Nat, md5 : Seq(Block) \cup {NoSum}]
    /\ at \in {"idle", "open sum", "sum", "compare", "receive", "stat"}
    /\ m_ctime \in Nat /\ m_size \in Nat /\ m_md5 \in Seq(Block) \cup {NoSum}
    /\ fd \in Inode \cup {Unnamed} /\ total \in Nat /\ sum \in Seq(Block)
    /\ racing \in BOOLEAN /\ raced \in BOOLEAN

\* The change time of the file shows that it was written since the scan.
Later == ctime[name] > m_ctime

Looking == at \in {"open sum", "sum", "compare", "receive", "stat"} => name \in Inode

\* What was hashed is the beginning of what is there.
Summing ==
    at = "sum" =>
        /\ fd \in Inode /\ Len(sum) <= total
        /\ \/ racing \/ Later
           \/ /\ fd = name /\ total = Len(body[name])
              /\ \A k \in 1..Len(sum) : sum[k] = body[name][k]

Comparing == at = "compare" => m_md5 = NoSum \/ racing \/ Later \/ body[name] = m_md5

\* What was received is what is there, and the change time shows that it is new.
Receiving ==
    at = "receive" =>
        /\ fd \in Inode /\ Len(sum) <= Len(served)
        /\ raced \/ ~SameSecond
        /\ racing \/ (fd = name /\ body[name] = sum /\ \A k \in 1..Len(sum) : sum[k] = served[k])

Done == at = "stat" => racing \/ body[name] = served

TransferInv ==
    /\ TypeInv /\ WriteNoticed
    /\ Looking /\ Summing /\ Comparing /\ Receiving /\ Done

-----------------------------------------------------------------------------

\* What people write is a sequence of blocks (Bodies).
LEMMA ContentIsSeq == Content \subseteq Seq(Block)
<1>1. ASSUME NEW k \in 0..MaxLen, NEW c \in [1..k -> Block] PROVE c \in Seq(Block)
  <2>1. k \in Nat
    BY TransferAssumption
  <2> QED
    BY <1>1, <2>1, SeqDef
<1> QED
  BY <1>1 DEF Content

\* A write anywhere leaves blocks, and one at the end of the file appends (File::Write).
LEMMA WriteAtType ==
    ASSUME NEW c \in Seq(Block), NEW k \in Nat \ {0}, NEW x \in Block
    PROVE  /\ WriteAt(c, k, x) \in Seq(Block)
           /\ k = Len(c) + 1 => WriteAt(c, k, x) = Append(c, x)
<1> DEFINE m == IF Len(c) < k THEN k ELSE Len(c)
           w == WriteAt(c, k, x)
<1>1. m \in Nat
  BY LenProperties
<1>2. \A i \in 1..m : (IF i = k THEN x ELSE IF i \in DOMAIN c THEN c[i] ELSE Zero) \in Block
  BY LenProperties, ElementOfSeq, TransferAssumption
<1>3. w \in [1..m -> Block]
  BY <1>2 DEF WriteAt
<1>4. w \in Seq(Block)
  BY <1>1, <1>3, SeqDef
<1>5. ASSUME k = Len(c) + 1 PROVE w = Append(c, x)
  <2>1. m = Len(c) + 1 /\ Len(c) \in Nat /\ DOMAIN c = 1..Len(c)
    BY <1>5, LenProperties
  <2>2. Len(w) = Len(c) + 1
    BY <1>1, <1>3, <1>4, <2>1, LenProperties
  <2>3. Append(c, x) \in Seq(Block) /\ Len(Append(c, x)) = Len(c) + 1
    BY AppendProperties
  <2>4. ASSUME NEW i \in 1..Len(w) PROVE w[i] = Append(c, x)[i]
    BY <1>5, <2>1, <2>2, <2>4, AppendProperties DEF WriteAt
  <2> HIDE DEF w
  <2> QED
    BY <1>4, <2>2, <2>3, <2>4, SeqEqual
<1> QED
  BY <1>4, <1>5

\* The end of a run keeps what is known, for it knows nothing (return and exceptions of
\* Resource::Sync and of Main).
LEMMA ForgottenKnows ==
    ASSUME TransferInv, Forgotten
    PROVE  Looking' /\ Summing' /\ Comparing' /\ Receiving' /\ Done'
BY DEF Forgotten, Close, Looking, Summing, Comparing, Receiving, Done

\* The types of what a run forgets.
LEMMA ForgottenTyped ==
    ASSUME Forgotten
    PROVE  /\ at' \in {"idle", "open sum", "sum", "compare", "receive", "stat"}
           /\ m_ctime' \in Nat /\ m_size' \in Nat /\ m_md5' \in Seq(Block) \cup {NoSum}
           /\ fd' \in Inode \cup {Unnamed} /\ total' \in Nat /\ sum' \in Seq(Block)
           /\ racing' \in BOOLEAN
BY EmptySeq DEF Forgotten, Close

\* A run that ends with a record, or without one, keeps the types (SetIndex, ResourceTree).
LEMMA RecordTyped ==
    ASSUME TypeInv, NEW t \in Nat, NEW c \in Seq(Block), NEW race \in BOOLEAN,
           NEW unsaved \in BOOLEAN, Record(t, c, race, unsaved),
           UNCHANGED files, served' \in Seq(Block)
    PROVE  TypeInv'
<1>1. Forgotten
  BY DEF Record
<1>2. /\ rec' \in [has : BOOLEAN, ctime : Nat, md5 : Seq(Block) \cup {NoSum}]
      /\ raced' \in BOOLEAN /\ newer' \in BOOLEAN
  <2>1. CASE rec' = [has |-> TRUE, ctime |-> t, md5 |-> c] /\ raced' = race /\ newer' = FALSE
    BY <2>1
  <2>2. CASE UNCHANGED index /\ newer' = unsaved
    BY <2>2 DEF index, TypeInv
  <2> QED
    BY <2>1, <2>2 DEF Record
<1>3. /\ body' \in [Inode -> Seq(Block)] /\ ctime' \in [Inode -> Nat]
      /\ name' \in Inode \cup {Unnamed} /\ clock' \in Nat
  BY DEF files, TypeInv
<1> QED
  BY <1>1, <1>2, <1>3, ForgottenTyped DEF TypeInv

\* The scan: what is not vouched for is not known yet.
LEMMA ScanKeeps == ASSUME TransferInv, Scan PROVE TransferInv'
<1> USE DEF TransferInv, TypeInv, Scan
<1>1. TypeInv'
  BY LenProperties DEF files, online, index, io
<1>2. WriteNoticed'
  BY DEF WriteNoticed, Misled, files, index
<1>3. Comparing'
  BY DEF Comparing, Later, Vouches, WriteNoticed, Misled, files, index
<1> QED
  BY <1>1, <1>2, <1>3 DEF Looking, Summing, Receiving, Done, files

\* The checksum: what was hashed is what was there.
LEMMA SumKeeps == ASSUME TransferInv, OpenForRead \/ Map \/ Hashed PROVE TransferInv'
<1> USE DEF TransferInv
<1>1. CASE OpenForRead
  <2> USE <1>1 DEF OpenForRead
  <2>1. TypeInv'
    BY LenProperties, EmptySeq DEF TypeInv, Looking, files, online, scan, index
  <2>2. WriteNoticed'
    BY DEF WriteNoticed, Misled, files, index
  <2>3. Summing'
    <3>1. name \in Inode /\ Len(body[name]) \in Nat
      BY LenProperties DEF Looking, TypeInv
    <3>2. sum' = <<>> /\ Len(sum') = 0 /\ fd' = name /\ name' = name
      BY EmptySeq DEF files
    <3>3. total' = Len(body[name]) /\ total' = Len(body'[name'])
      BY DEF files
    <3>4. Len(sum') <= total'
      <4> HIDE DEF TransferInv, OpenForRead
      <4> QED
        BY <3>1, <3>2, <3>3
    <3>5. \A k \in 1..Len(sum') : sum'[k] = body'[name'][k]
      <4> HIDE DEF TransferInv, OpenForRead
      <4> QED
        BY <3>2
    <3> QED
      BY <3>1, <3>2, <3>3, <3>4, <3>5 DEF Summing
  <2> QED
    BY <2>1, <2>2, <2>3 DEF Looking, Comparing, Receiving, Done, files
<1>2. CASE Map
  <2> USE <1>2 DEF Map
  <2> DEFINE k == Len(sum) + 1
             x == IF Len(sum) < Len(body[fd]) THEN body[fd][k] ELSE Zero
  <2>1. fd \in Inode /\ body[fd] \in Seq(Block) /\ Len(sum) \in Nat /\ sum \in Seq(Block)
    BY LenProperties DEF TypeInv, Summing
  <2>2. x \in Block
    BY <2>1, ElementOfSeq, LenProperties, TransferAssumption
  <2>3. sum' = Append(sum, x)
    OBVIOUS
  <2> HIDE DEF x
  <2>4. sum' \in Seq(Block) /\ Len(sum') = k /\ sum'[k] = x
        /\ \A i \in 1..Len(sum) : sum'[i] = sum[i]
    BY <2>1, <2>2, <2>3, AppendProperties
  <2>5. TypeInv'
    BY <2>4 DEF TypeInv, files, online, scan, index
  <2>6. WriteNoticed'
    BY DEF WriteNoticed, Misled, files, index
  <2>7. Summing'
    <3>1. k <= total
      BY <2>1 DEF TypeInv
    <3>2. CASE racing \/ Later
      BY <2>1, <2>4, <3>1, <3>2 DEF Summing, Later, files, scan
    <3>3. CASE ~(racing \/ Later)
      <4>1. fd = name /\ total = Len(body[name]) /\ \A i \in 1..Len(sum) : sum[i] = body[name][i]
        BY <3>3 DEF Summing
      <4>2. x = body[name][k]
        BY <2>1, <4>1 DEF x
      <4>3. \A i \in 1..k : sum'[i] = body[name][i]
        BY <2>1, <2>4, <4>1, <4>2
      <4> QED
        BY <2>1, <2>4, <3>1, <4>1, <4>3 DEF Summing, files
    <3> QED
      BY <3>2, <3>3
  <2> QED
    BY <2>5, <2>6, <2>7 DEF Looking, Comparing, Receiving, Done, files
<1>3. CASE Hashed
  <2> USE <1>3 DEF Hashed, Close
  <2>1. TypeInv'
    BY EmptySeq DEF TypeInv, files, online, index
  <2>2. WriteNoticed'
    BY DEF WriteNoticed, Misled, files, index
  <2>3. Comparing'
    <3>1. CASE racing \/ Later
      BY <3>1 DEF Comparing, Later, files
    <3>2. CASE ~(racing \/ Later)
      <4>1. /\ fd = name /\ total = Len(body[name]) /\ fd \in Inode
            /\ \A i \in 1..Len(sum) : sum[i] = body[name][i]
        BY <3>2 DEF Summing
      <4>2. sum = body[name]
        BY <4>1, SeqEqual DEF TypeInv
      <4> QED
        BY <4>2 DEF Comparing, files
    <3> QED
      BY <3>1, <3>2
  <2> QED
    BY <2>1, <2>2, <2>3 DEF Looking, Summing, Receiving, Done, files
<1> QED
  BY <1>1, <1>2, <1>3

\* What is recorded without a download: the change time of the scan, and what is there.
LEMMA CompareKeeps == ASSUME TransferInv, NeedSum \/ InSync \/ Upload PROVE TransferInv'
<1> USE DEF TransferInv
<1>1. CASE NeedSum
  <2> USE <1>1 DEF NeedSum
  <2>1. TypeInv'
    BY DEF TypeInv, files, online, scan, index, io
  <2>2. WriteNoticed'
    BY DEF WriteNoticed, Misled, files, index
  <2> QED
    BY <2>1, <2>2 DEF Looking, Summing, Comparing, Receiving, Done, files
<1>2. CASE InSync
  <2> USE <1>2 DEF InSync, Record, Scanned
  <2>1. TypeInv'
    <3>1. Record(m_ctime, served, racing, newer) /\ UNCHANGED files /\ served' = served
      BY DEF files
    <3> QED
      BY <3>1, RecordTyped DEF TypeInv
  <2>2. WriteNoticed'
    <3>1. served # NoSum /\ m_md5 = served
      BY TransferAssumption DEF TypeInv
    <3>2. racing \/ Later \/ body[name] = served
      BY <3>1 DEF Comparing
    <3>3. CASE UNCHANGED index
      BY <3>3 DEF WriteNoticed, Misled, files, index
    <3>4. CASE rec' = [has |-> TRUE, ctime |-> m_ctime, md5 |-> served] /\ raced' = racing
      <4>1. name \in Inode /\ ctime[name] \in Nat /\ m_ctime \in Nat
        BY DEF Looking, TypeInv
      <4> QED
        BY <3>2, <3>4, <4>1 DEF WriteNoticed, Misled, Later, files
    <3> QED
      BY <3>3, <3>4
  <2> QED
    BY <2>1, <2>2, ForgottenKnows
<1>3. CASE Upload
  <2> USE <1>3 DEF Upload, Record, Scanned, Differs
  <2>1. name \in Inode /\ body[name] \in Seq(Block)
    BY DEF Looking, TypeInv
  <2>2. TypeInv'
    <3>1. Record(m_ctime, body[name], racing, TRUE) /\ UNCHANGED files /\ served' = body[name]
      OBVIOUS
    <3> QED
      BY <2>1, <3>1, RecordTyped DEF TypeInv
  <2>3. WriteNoticed'
    BY <2>1 DEF WriteNoticed, Misled, files, index
  <2> QED
    BY <2>2, <2>3, ForgottenKnows
<1> QED
  BY <1>1, <1>2, <1>3

\* The opening of the file to download it: its change time shows it, or the second is the one
\* that is recorded.
LEMMA OpenKeeps == ASSUME TransferInv, OpenForWrite PROVE TransferInv'
<1> USE DEF TransferInv
<1>1. PICK i \in Inode :
        /\ fd' = i /\ name' = i
        /\ body' = [body EXCEPT ![i] = <<>>]
        /\ ctime' = [ctime EXCEPT ![i] = clock]
        /\ raced' = (raced \/ SameSecond)
        /\ sum' = <<>> /\ total' = 0 /\ racing' = FALSE /\ at' = "receive"
        /\ UNCHANGED <<clock, online, scan, rec>>
  <2>1. name \in Inode \cup {Unnamed}
    BY DEF TypeInv
  <2> QED
    BY <2>1 DEF OpenForWrite
<1>2. <<>> \in Seq(Block) /\ Len(<<>>) = 0
  BY EmptySeq
<1>3. TypeInv'
  BY <1>1, <1>2 DEF TypeInv, online, scan, SameSecond
<1>4. i # Unnamed /\ body'[i] = <<>> /\ ctime'[i] = clock
  BY <1>1, TransferAssumption DEF TypeInv
<1>5. WriteNoticed'
  BY <1>1, <1>4 DEF WriteNoticed, Misled, SameSecond
<1>6. Receiving'
  <2>1. fd' \in Inode /\ fd' = name' /\ body'[name'] = sum'
    BY <1>1, <1>4
  <2>2. Len(sum') = 0 /\ served' = served /\ Len(served) \in Nat
    BY <1>1, <1>2, LenProperties DEF online, TypeInv
  <2>3. (raced \/ ~SameSecond)'
    BY <1>1 DEF SameSecond
  <2> QED
    BY <2>1, <2>2, <2>3 DEF Receiving
<1> QED
  BY <1>1, <1>3, <1>5, <1>6 DEF Looking, Summing, Comparing, Done

\* The download: what was received is what is there, until the Stat records it.
LEMMA DownloadKeeps == ASSUME TransferInv, ReceiveBlock \/ SetFileTime \/ Stat PROVE TransferInv'
<1> USE DEF TransferInv
<1>1. CASE ReceiveBlock
  <2> USE <1>1 DEF ReceiveBlock
  <2> DEFINE k == Len(sum) + 1
             x == served[k]
  <2>1. /\ fd \in Inode /\ name \in Inode /\ body[fd] \in Seq(Block)
        /\ sum \in Seq(Block) /\ Len(sum) \in Nat /\ Len(served) \in Nat
    BY LenProperties DEF TypeInv, Receiving, Looking
  <2>2. k \in Nat \ {0} /\ k \in 1..Len(served) /\ x \in Block
    BY <2>1, ElementOfSeq DEF TypeInv
  <2>3. sum' = Append(sum, x)
    OBVIOUS
  <2>4. body' = [body EXCEPT ![fd] = WriteAt(body[fd], k, x)]
    OBVIOUS
  <2> HIDE DEF x
  <2>5. sum' \in Seq(Block) /\ Len(sum') = k /\ sum'[k] = x
        /\ \A i \in 1..Len(sum) : sum'[i] = sum[i]
    BY <2>1, <2>2, <2>3, AppendProperties
  <2>6. WriteAt(body[fd], k, x) \in Seq(Block)
    BY <2>1, <2>2, WriteAtType
  <2>7. TypeInv'
    BY <2>1, <2>4, <2>5, <2>6 DEF TypeInv, online, scan, index
  <2>8. WriteNoticed'
    <3>1. CASE fd = name
      <4>1. ctime'[name] = clock
        BY <2>1, <3>1 DEF TypeInv
      <4> QED
        BY <4>1 DEF WriteNoticed, Misled, Receiving, SameSecond, index
    <3>2. CASE fd # name
      <4>1. ctime'[name] = ctime[name] /\ body'[name] = body[name]
        BY <2>1, <2>4, <3>2 DEF TypeInv
      <4> QED
        BY <4>1 DEF WriteNoticed, Misled, index
    <3> QED
      BY <3>1, <3>2
  <2>9. Receiving'
    <3>1. fd' \in Inode /\ Len(sum') <= Len(served')
      BY <2>1, <2>2, <2>5 DEF online
    <3>2. (raced \/ ~SameSecond)'
      BY DEF Receiving, SameSecond, index
    <3>3. ASSUME ~racing
          PROVE  /\ fd' = name' /\ body'[name'] = sum'
                 /\ \A i \in 1..Len(sum') : sum'[i] = served'[i]
      <4>1. fd = name /\ body[name] = sum /\ \A i \in 1..Len(sum) : sum[i] = served[i]
        BY <3>3 DEF Receiving
      <4>2. WriteAt(body[fd], k, x) = Append(sum, x)
        BY <2>1, <2>2, <4>1, WriteAtType
      <4>3. body'[fd] = sum'
        BY <2>1, <2>3, <2>4, <4>2 DEF TypeInv
      <4>4. \A i \in 1..k : sum'[i] = served[i]
        BY <2>1, <2>5, <4>1 DEF x
      <4> QED
        BY <2>5, <4>1, <4>3, <4>4 DEF online
    <3> QED
      BY <3>1, <3>2, <3>3 DEF Receiving
  <2> QED
    BY <2>7, <2>8, <2>9 DEF Looking, Summing, Comparing, Done
<1>2. CASE SetFileTime
  <2> USE <1>2 DEF SetFileTime, Close
  <2>1. name \in Inode /\ ctime'[name] = clock
    BY DEF Looking, TypeInv
  <2>2. TypeInv'
    BY EmptySeq DEF TypeInv, online, scan, index
  <2>3. WriteNoticed'
    BY <2>1 DEF WriteNoticed, Misled, Receiving, SameSecond, index
  <2>4. racing \/ body[name] = served
    <3>1. ASSUME ~racing PROVE body[name] = served
      <4>1. body[name] = sum /\ \A k \in 1..Len(sum) : sum[k] = served[k]
        BY <3>1 DEF Receiving
      <4> QED
        BY <4>1, SeqEqual DEF TypeInv
    <3> QED
      BY <3>1
  <2> QED
    BY <2>2, <2>3, <2>4 DEF Looking, Summing, Comparing, Receiving, Done, online
<1>3. CASE Stat
  <2> USE <1>3 DEF Stat, Record
  <2>1. name \in Inode /\ ctime[name] \in Nat
    BY DEF Looking, TypeInv
  <2>2. TypeInv'
    <3>1. Record(ctime[name], served, racing, TRUE) /\ UNCHANGED files /\ served' = served
      OBVIOUS
    <3> QED
      BY <2>1, <3>1, RecordTyped DEF TypeInv
  <2>3. WriteNoticed'
    BY <2>1 DEF WriteNoticed, Misled, Done, files, index
  <2> QED
    BY <2>2, <2>3, ForgottenKnows
<1> QED
  BY <1>1, <1>2, <1>3

\* A write of somebody else: the change time shows it, or it is noted that it may not.
LEMMA OthersKeepFile ==
    ASSUME TransferInv, NEW i \in Inode, NEW c \in Bodies,
           WriteInPlace(c) \/ Replace(i, c)
    PROVE  TransferInv'
<1> USE DEF TransferInv
<1>0. c \in Seq(Block)
  BY ContentIsSeq, TransferAssumption
<1>1. ASSUME NEW j \in Inode, name' = j, j = name \/ j \notin {name, fd},
             body' = [body EXCEPT ![j] = c], ctime' = [ctime EXCEPT ![j] = clock],
             Noted, UNCHANGED <<clock, online, scan, rec, io, at>>
      PROVE  TransferInv'
  <2>1. ctime'[j] = clock /\ body'[j] = c
    BY <1>1 DEF TypeInv
  <2>2. TypeInv'
    BY <1>0, <1>1 DEF TypeInv, Noted, SameSecond, online, scan, io
  <2>3. WriteNoticed'
    BY <1>1, <2>1 DEF WriteNoticed, Misled, Noted, SameSecond
  <2>4. racing' \/ Later'
    <3>1. ctime'[name'] = clock /\ m_ctime' = m_ctime
      BY <1>1, <2>1 DEF scan
    <3>2. racing' = (racing \/ at \in {"receive", "stat"} \/ clock <= m_ctime)
      BY <1>1 DEF Noted
    <3>3. clock \in Nat /\ m_ctime \in Nat
      BY DEF TypeInv
    <3>4. CASE clock <= m_ctime
      BY <3>2, <3>4
    <3>5. CASE clock > m_ctime
      BY <3>1, <3>5 DEF Later
    <3> QED
      BY <3>3, <3>4, <3>5
  <2>5. Summing' /\ Comparing'
    BY <1>1, <2>4 DEF Summing, Comparing, io, scan
  <2>6. Receiving' /\ Done'
    BY <1>1 DEF Receiving, Done, Noted, SameSecond, io, online
  <2> QED
    BY <1>1, <2>2, <2>3, <2>5, <2>6 DEF Looking
<1>2. CASE WriteInPlace(c)
  <2>1. name \in Inode
    BY <1>2 DEF WriteInPlace, TypeInv
  <2> QED
    BY <1>1, <1>2, <2>1 DEF WriteInPlace
<1>3. CASE Replace(i, c)
  BY <1>1, <1>3 DEF Replace
<1> QED
  BY <1>2, <1>3

\* The server gets another content between two runs, or a second passes.
LEMMA TimeKeeps ==
    ASSUME TransferInv, (\E c \in Bodies : Serve(c)) \/ Tick
    PROVE  TransferInv'
<1> USE DEF TransferInv
<1>1. ASSUME NEW c \in Bodies, Serve(c) PROVE TransferInv'
  <2> USE <1>1 DEF Serve
  <2>1. TypeInv'
    BY ContentIsSeq, TransferAssumption DEF TypeInv, files, scan, index, io
  <2>2. WriteNoticed'
    BY DEF WriteNoticed, Misled, files, index
  <2> QED
    BY <2>1, <2>2 DEF Looking, Summing, Comparing, Receiving, Done
<1>2. CASE Tick
  <2> USE <1>2 DEF Tick
  <2>1. TypeInv'
    <3>1. clock' = clock + 1 /\ clock \in Nat
      BY DEF TypeInv
    <3>2. ASSUME NEW n \in Nat PROVE n + 1 \in Nat
      OBVIOUS
    <3>3. clock' \in Nat
      <4> HIDE DEF TransferInv, Tick
      <4> QED
        BY <3>1, <3>2
    <3> QED
      BY <3>3, ZenonT(30) DEF TypeInv, online, scan, index, io
  <2>2. WriteNoticed'
    BY DEF WriteNoticed, Misled, index
  <2>3. (raced \/ ~SameSecond) => (raced \/ ~SameSecond)'
    <3>1. rec' = rec /\ raced' = raced /\ clock' = clock + 1
      BY DEF index
    <3>2. clock \in Nat /\ rec.ctime \in Nat
      BY DEF TypeInv
    <3>3. clock + 1 <= rec.ctime => clock <= rec.ctime
      BY <3>2
    <3> QED
      BY <3>1, <3>3 DEF SameSecond
  <2>4. Summing' /\ Comparing'
    BY DEF Summing, Comparing, Later, io, scan
  <2>5. Receiving' /\ Done'
    BY <2>3 DEF Receiving, Done, io, online
  <2> QED
    BY <2>1, <2>2, <2>4, <2>5 DEF Looking
<1> QED
  BY <1>1, <1>2

\* A write is noticed by the next scan unless it raced with what is recorded.
THEOREM WriteIsNoticed == TransferSpec => []WriteNoticed
<1>1. TransferIdle => TransferInv
  <2> SUFFICES ASSUME TransferIdle PROVE TransferInv
    OBVIOUS
  <2> USE DEF TransferIdle
  <2>1. <<>> \in Seq(Block)
    BY EmptySeq
  <2>2. rec \in [has : BOOLEAN, ctime : Nat, md5 : Seq(Block) \cup {NoSum}] /\ ~rec.has
    BY DEF NoRecord
  <2>3. body \in [Inode -> Seq(Block)] /\ ctime \in [Inode -> Nat]
    BY <2>1
  <2>4. TypeInv
    BY <2>1, <2>2, <2>3 DEF TypeInv
  <2> QED
    BY <2>2, <2>4 DEF TransferInv, WriteNoticed, Misled, Looking, Summing, Comparing, Receiving, Done
<1>2. TransferInv /\ [TransferNext]_transvars => TransferInv'
  <2> SUFFICES ASSUME TransferInv, [TransferNext]_transvars PROVE TransferInv'
    OBVIOUS
  <2>1. CASE Scan
    BY <2>1, ScanKeeps
  <2>2. CASE OpenForRead \/ Map \/ Hashed
    BY <2>2, SumKeeps
  <2>3. CASE NeedSum \/ InSync \/ Upload
    BY <2>3, CompareKeeps
  <2>4. CASE OpenForWrite
    BY <2>4, OpenKeeps
  <2>5. CASE ReceiveBlock \/ SetFileTime \/ Stat
    BY <2>5, DownloadKeeps
  <2>6. CASE Fail
    <3> USE <2>6 DEF Fail
    <3>1. TypeInv'
      BY ForgottenTyped DEF TransferInv, TypeInv, files, online, index
    <3>2. WriteNoticed'
      BY DEF TransferInv, WriteNoticed, Misled, files, index
    <3> QED
      BY <3>1, <3>2, ForgottenKnows DEF TransferInv
  <2>7. ASSUME NEW c \in Bodies, WriteInPlace(c) PROVE TransferInv'
    <3>1. name \in Inode
      BY <2>7 DEF WriteInPlace, TransferInv, TypeInv
    <3> QED
      BY <2>7, <3>1, OthersKeepFile
  <2>8. ASSUME NEW c \in Bodies, NEW i \in Inode, Replace(i, c) PROVE TransferInv'
    BY <2>8, OthersKeepFile
  <2>9. CASE (\E c \in Bodies : Serve(c)) \/ Tick
    BY <2>9, TimeKeeps
  <2>10. CASE UNCHANGED transvars
    <3> USE <2>10 DEF transvars, files, online, scan, index, io, TransferInv
    <3>1. TypeInv'
      BY ZenonT(30) DEF TypeInv
    <3>2. WriteNoticed' /\ Looking' /\ Comparing' /\ Done'
      BY DEF WriteNoticed, Misled, Looking, Comparing, Done, Later
    <3>3. Summing'
      BY DEF Summing, Later
    <3>4. Receiving'
      BY DEF Receiving, SameSecond
    <3> QED
      BY <3>1, <3>2, <3>3, <3>4
  <2> QED
    BY <2>1, <2>2, <2>3, <2>4, <2>5, <2>6, <2>7, <2>8, <2>9, <2>10 DEF TransferNext
<1>3. TransferInv => WriteNoticed
  BY DEF TransferInv
<1> QED
  BY <1>1, <1>2, <1>3, PTL DEF TransferSpec

===============================================================================
