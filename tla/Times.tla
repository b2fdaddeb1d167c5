--------------------------------- MODULE Times ---------------------------------
(***************************************************************************)
(* The time of an object, on its way from the server through the program   *)
(* and the index to the next run: DateTime, the numbers of Val, and who    *)
(* compares them.  Others change the object at any moment, a visit may     *)
(* fail, and a run may die before it saves.                                *)
(*                                                                         *)
(* The server gives a time as a text; the program counts nanoseconds; the  *)
(* index keeps seconds, as a JSON number, which has no sign when it is     *)
(* read.  A second has Thousand milliseconds, and so on.                   *)
(***************************************************************************)
EXTENDS Integers, Sequences, SequencesExt

CONSTANTS
    Base,       \* of the digits of a fraction
    Digits,     \* how many digits a text has after the point
    Seconds,    \* the seconds that texts stand for
    NoDate,     \* a text that is none
    None,       \* no text at all
    LongValues  \* how many values a long long, an unsigned long long and a time_t have: 2 ^ 64

ASSUME TimesAssumption ==
    /\ Base \in Nat /\ Base > 1 /\ Digits \subseteq Nat
    /\ Seconds \subseteq Int /\ NoDate \notin Seconds
    /\ LongValues \in Nat \ {0} /\ LongValues % 2 = 0

VARIABLES
    modified,   \* the server: modifiedDate of the object
    saved,      \* the index: the record of the object, with "srv_time" or without
    m_json,     \* Resource::m_json, the record in memory
    m_mtime,    \* Resource::m_mtime
    news,       \* whether the listing was found newer than the record
    moment,     \* "idle", "scanned", "listed", "walked"
    seen,       \* history: the text whose time is in m_mtime since the listing
    kept,       \* history: the text whose time the saved record holds
    was         \* history: the text whose time the record in memory holds

past     == <<seen, kept, was>>
timevars == <<modified, saved, m_json, m_mtime, news, moment, past>>

Thousand == Base * Base * Base
Milli    == Thousand * Thousand
Second   == Thousand * Milli

-----------------------------------------------------------------------------
(* Numbers.                                                                *)

\* The value of the low bits in a type of so many values, without a sign and with one.
Unsigned(x, values) == x % values
Signed(x, values)   == LET u == Unsigned(x, values)
                       IN IF u < values \div 2 THEN u ELSE u - values

\* What a signed type holds.
Fits(x, values) == -(values \div 2) <= x /\ x < values \div 2

\* A date of four digits is in the range of a time_t.
ASSUME SecondsAssumption == \A s \in Seconds : Fits(s, LongValues)

-----------------------------------------------------------------------------
(* Val: a value has a type, and an object is a function on its keys.       *)

Typed(t, n) == [type |-> t, of |-> n]

\* Val::Is; and Val::As, which throws where the type is another: it never is.
Is(v, t) == v.type = t
As(v, t) == CASE Is(v, t) -> v.of

\* What As gives of a number, or strtoull of a text.
Number64(v) == Unsigned(IF Is(v, "string") THEN As(v, "string") ELSE As(v, "int"), LongValues)

\* Faulty: the time keeps no sign.
LargeTime(v) == Number64(v)

\* Val::U64: the bits of a long long, which DateTime::Assign takes for a time_t.
U64(v) == Signed(Number64(v), LongValues)

Empty == [k \in {} |-> Typed("int", 0)]

\* Val::operator[] throws.
Misses(o, k) == k \notin DOMAIN o

\* Val::Set and Val::Del
Set(o, k, v) == [j \in DOMAIN o \cup {k} |-> IF j = k THEN v ELSE o[j]]
Del(o, k)    == [j \in DOMAIN o \ {k} |-> o[j]]

-----------------------------------------------------------------------------
(* DateTime.                                                               *)

Digit     == 0..(Base - 1)
Fractions == UNION {[1..k -> Digit] : k \in Digits}

Undated == [date |-> NoDate, frac |-> <<>>]
Texts   == {Undated} \cup {[date |-> s, frac |-> f] : s \in Seconds, f \in Fractions}

ASSUME NoneAssumption == None \notin Texts

Time(s, ns) == [sec |-> s, nsec |-> ns]

\* DateTime::DateTime()
Epoch == Time(0, 0)

Number(f) == FoldLeft(LAMBDA n, k : n * Base + k, 0, f)

\* The server writes three digits, and no fraction is as much as a second.
ASSUME FractionAssumption == \A f \in Fractions : Number(f) \in 0..(Thousand - 1)

\* DateTime::DateTime of a text: with the Z, two digits are three characters.
Parsed(t) ==
    IF t.date = NoDate THEN Epoch
    ELSE Time(t.date, IF Len(t.frac) >= 2 THEN Number(t.frac) * Milli ELSE 0)

\* DateTime::Assign
Assigned(s, ns) == Time(s + ns \div Second, ns % Second)

\* operator==, and operator>, from which the others are made.
Equal(d, e)   == d.sec = e.sec /\ d.nsec = e.nsec

\* Faulty: the fractions are compared though the seconds differ.
GreaterFraction(d, e) == d.sec > e.sec \/ d.nsec > e.nsec

Greater(d, e) == IF d.sec = e.sec THEN d.nsec > e.nsec ELSE d.sec > e.sec
GreaterEq(d, e) == Greater(d, e) \/ Equal(d, e)
Less(d, e)      == ~GreaterEq(d, e)
LessEq(d, e)    == ~Greater(d, e)

-----------------------------------------------------------------------------
(* A run.                                                                  *)

\* Somebody changes the object, while a run is under way or not, perhaps to an earlier time.
Modify(t) ==
    /\ modified' = t
    /\ UNCHANGED <<saved, m_json, m_mtime, news, moment, past>>

\* State::Read, then Resource::FromLocal or FromDeleted.  With -f the time is deleted first.
Start(force) ==
    /\ moment = "idle"
    /\ m_json' = IF force THEN Del(saved, "srv_time") ELSE saved
    /\ was' = IF force THEN None ELSE kept
    /\ m_mtime' = IF Misses(m_json', "srv_time") THEN Epoch ELSE Assigned(U64(m_json'["srv_time"]), 0)
    /\ moment' = "scanned"
    /\ UNCHANGED <<modified, saved, news, seen, kept>>

\* Resource::FromRemote: seconds are compared, then the time is taken over.
Listed(d) ==
    /\ moment = "scanned"
    /\ news' = (d.sec > m_mtime.sec)
    /\ m_mtime' = d /\ seen' = modified
    /\ moment' = "listed"
    /\ UNCHANGED <<modified, saved, m_json, kept, was>>

\* DateTime::Sec
Sec(d) == d.sec

\* Faulty: the object is as it was listed.
Unanswered(t) == m_mtime

\* Syncer2::Upload takes the time of the answer over.
Answered(t) == Parsed(t)

\* The end of SyncSelf, and Val::Set.
SetTime(d) == m_json' = Set(m_json, "srv_time", Typed("int", Sec(d)))

\* The object is in sync, fetched, or skipped: the time of the listing is recorded, whatever
\* the object has by now.
Remember ==
    /\ moment = "listed"
    /\ SetTime(m_mtime) /\ was' = seen
    /\ moment' = "walked"
    /\ UNCHANGED <<modified, saved, m_mtime, news, seen, kept>>

\* The file is uploaded: the object gets another time.
UploadAt(t) ==
    /\ moment = "listed" /\ ~news
    /\ modified' = t
    /\ m_mtime' = Answered(t) /\ seen' = t
    /\ SetTime(m_mtime') /\ was' = t
    /\ moment' = "walked"
    /\ UNCHANGED <<saved, news, kept>>

\* SyncSelf threw: nothing is recorded.  An upload whose answer was lost is that, and Modify.
Failed ==
    /\ moment = "listed"
    /\ moment' = "walked"
    /\ UNCHANGED <<modified, saved, m_json, m_mtime, news, past>>

\* The process ends.
Gone ==
    /\ moment' = "idle"
    /\ m_json' = Empty /\ was' = None
    /\ m_mtime' = Epoch /\ seen' = None /\ news' = FALSE
    /\ UNCHANGED modified

\* State::Write
Conclude ==
    /\ moment = "walked"
    /\ saved' = m_json /\ kept' = was
    /\ Gone

RunDies ==
    /\ moment # "idle"
    /\ Gone
    /\ UNCHANGED <<saved, kept>>

TimesIdle ==
    /\ modified = Undated
    /\ saved = Empty /\ kept = None
    /\ m_json = Empty /\ was = None
    /\ m_mtime = Epoch /\ seen = None /\ news = FALSE
    /\ moment = "idle"

TimesNext ==
    \/ \E t \in Texts : Modify(t) \/ UploadAt(t)
    \/ \E force \in BOOLEAN : Start(force)
    \/ Listed(Parsed(modified))
    \/ Remember \/ Failed \/ Conclude \/ RunDies

TimesSpec == TimesIdle /\ [][TimesNext]_timevars

-----------------------------------------------------------------------------
(* Properties.                                                             *)

\* The second a text stands for.
SecondOf(t) == IF t.date = NoDate THEN 0 ELSE t.date

\* A run finds the server newer exactly if the second of the time that is listed is later than
\* that of the time which the last record was made of: nothing that others do to the object
\* between a listing and the save is taken for seen, and nothing that was seen is news again,
\* before 1970 or after it, with or without a fraction, through the number in the index, and
\* after visits that failed, answers and runs that were lost (Resource.cc:110, Resource.cc:214,
\* Resource.cc:656, Syncer2.cc:207).
NewsIsLater ==
    moment = "listed" =>
        (news <=> SecondOf(seen) > (IF was = None THEN 0 ELSE SecondOf(was)))

Instant(d) == d.sec * Second + d.nsec

\* The comparisons of DateTime are those of the instants, for a time with a fraction and one
\* without, in either order (DateTime.cc:149).
Ordered ==
    LET d == m_mtime  e == Parsed(modified) IN
      /\ Equal(d, e) <=> Instant(d) = Instant(e)
      /\ Less(d, e) <=> Instant(d) < Instant(e)
      /\ Greater(d, e) <=> Instant(d) > Instant(e)
      /\ LessEq(d, e) <=> Instant(d) <= Instant(e)
      /\ GreaterEq(d, e) <=> Instant(d) >= Instant(e)

================================================================================
