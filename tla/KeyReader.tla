----------------------------- MODULE KeyReader -----------------------------
(***************************************************************************)
(* ReadKey of internal/tui/keys.go and the goroutine of the dashboard that *)
(* calls it: how the bytes of the terminal become keys.  A read returns    *)
(* some of the bytes that have been typed; they are decoded to the last    *)
(* one before anything else is read.                                       *)
(*                                                                         *)
(* A byte is named by what it is: an ASCII character by itself, "ESC",     *)
(* "CR", "^C" and so on, the first byte of a longer character by "lead2"   *)
(* to "lead4", for how many bytes it has, and any other byte of one by     *)
(* "tail".  U+FFFD is left out: the code takes it for an invalid byte.     *)
(***************************************************************************)
EXTENDS Naturals, Sequences

Arrows == [A |-> "Up", B |-> "Down", C |-> "Right", D |-> "Left", H |-> "Home", F |-> "End"]
Tildes == LET digits == {"1", "3", "4", "5", "6", "7", "8"}
          IN  [d \in digits |-> IF d \in {"1", "7"} THEN "Home"
                                ELSE IF d \in {"4", "8"} THEN "End"
                                ELSE IF d = "3" THEN "Delete"
                                ELSE IF d = "5" THEN "PgUp" ELSE "PgDown"]
Controls == LET bytes == {"^C", "TAB", "LF", "CR", "DEL", "BS"}
            IN  [b \in bytes |-> IF b = "^C" THEN "CtrlC" ELSE IF b = "TAB" THEN "Tab"
                                 ELSE IF b \in {"LF", "CR"} THEN "Enter" ELSE "Backspace"]
Leads == [lead2 |-> 2, lead3 |-> 3, lead4 |-> 4]

\* The bytes that are no character of their own.
Specials == {"ESC", "tail"} \cup DOMAIN Controls \cup DOMAIN Leads

\* What a terminal sends for a key that the code knows.
IsEncoding(e) ==
    \/ \E by \in {"[", "O"}, c \in DOMAIN Arrows :
          e = [key |-> Arrows[c], bytes |-> <<"ESC", by, c>>]
    \/ \E d \in DOMAIN Tildes : e = [key |-> Tildes[d], bytes |-> <<"ESC", "[", d, "~">>]
    \/ \E c \in DOMAIN Leads :
          e = [key |-> "rune", bytes |-> [i \in 1..Leads[c] |-> IF i = 1 THEN c ELSE "tail"]]
    \/ \E c \in DOMAIN Controls : e = [key |-> Controls[c], bytes |-> <<c>>]
    \/ e = [key |-> "Esc", bytes |-> <<"ESC">>]
    \/ e.key \notin Specials /\ e = [key |-> e.key, bytes |-> <<e.key>>]

CONSTANTS
    Encodings,  \* the keys that are typed: records of a key and the bytes sent for it
    ReadSize,   \* the bytes that a read returns at most
    MaxBytes    \* bound: the bytes that are typed

ASSUME KeyConstants == /\ \A e \in Encodings : IsEncoding(e)
                       /\ ReadSize \in Nat \ {0}
                       /\ MaxBytes \in Nat

VARIABLES
    stream,     \* the bytes typed so far: of which key each is, and behind which byte that starts
    readFrom,   \* bytes there were before the last read,
    readTo,     \* and with it
    decoded,    \* bytes that have become keys; the buffer holds those from here to readTo
    lastKey     \* the key sent to the event loop last

keyVars == <<stream, readFrom, readTo, decoded, lastKey>>

Byte(i) == stream[i].of.bytes[i - stream[i].start]
Ending(i) == stream[i].start + Len(stream[i].of.bytes)
Buffer == [i \in 1..(readTo - decoded) |-> Byte(decoded + i)]

KeysTypeOK == /\ stream \in Seq([of : Encodings, start : Nat])
              /\ readFrom \in Nat /\ readTo \in Nat /\ decoded \in Nat
              /\ readFrom <= decoded /\ decoded <= readTo /\ readTo <= Len(stream)

KeysInit == /\ stream = <<>> /\ readFrom = 0 /\ readTo = 0 /\ decoded = 0
            /\ lastKey = "none"

-----------------------------------------------------------------------------
(* One key.                                                                *)

\* A key, and how many bytes of b it takes.
Taken(key, n) == [key |-> key, n |-> n]

\* b starts with ESC: a cursor key as far as b holds one, else the escape key,
\* which takes the "[" or "O" after it along.
Escape(b) ==
    LET opens(c) == Len(b) >= 2 /\ b[2] = c
    IN  IF (opens("[") \/ opens("O")) /\ Len(b) >= 3 /\ b[3] \in DOMAIN Arrows
           THEN Taken(Arrows[b[3]], 3)
        ELSE IF opens("[") /\ Len(b) >= 4 /\ b[3] \in DOMAIN Tildes /\ b[4] = "~"
           THEN Taken(Tildes[b[3]], 4)
        ELSE IF opens("[") \/ opens("O") THEN Taken("Esc", 2) ELSE Taken("Esc", 1)

\* b starts with a character that it holds as a whole.
Whole(b) == /\ b[1] \in DOMAIN Leads /\ Leads[b[1]] <= Len(b)
            /\ \A i \in 2..Leads[b[1]] : b[i] = "tail"

\* An invalid byte takes the one after it along: a plausible fault.
CharacterGreedy(b) ==
    IF Whole(b) THEN Taken("rune", Leads[b[1]])
    ELSE IF b[1] = "tail" \/ b[1] \in DOMAIN Leads
       THEN Taken("Unknown", IF Len(b) >= 2 THEN 2 ELSE 1)
    ELSE Taken(b[1], 1)

\* A character; bytes that are none are skipped one by one.
Character(b) ==
    IF Whole(b) THEN Taken("rune", Leads[b[1]])
    ELSE IF b[1] = "tail" \/ b[1] \in DOMAIN Leads THEN Taken("Unknown", 1)
    ELSE Taken(b[1], 1)

ReadKey(b) ==
    IF b[1] = "ESC" THEN Escape(b)
    ELSE IF b[1] \in DOMAIN Controls THEN Taken(Controls[b[1]], 1)
    ELSE Character(b)

-----------------------------------------------------------------------------
(* The bytes of a session.                                                 *)

\* The user types a key: the terminal has its bytes.
Type(e) ==
    /\ Len(stream) + Len(e.bytes) <= MaxBytes
    /\ stream' = stream \o [i \in 1..Len(e.bytes) |-> [of |-> e, start |-> Len(stream)]]
    /\ UNCHANGED <<readFrom, readTo, decoded, lastKey>>

\* With nothing left in the buffer, a read returns as much as there is by now, or
\* as has come over the line, and at most as much as it asked for.
Read(n) ==
    /\ decoded = readTo /\ readTo + n <= Len(stream)
    /\ readFrom' = readTo /\ readTo' = readTo + n
    /\ UNCHANGED <<stream, decoded, lastKey>>

\* The goroutine sends the key that the buffer starts with to the event loop.
Decode ==
    /\ decoded < readTo
    /\ LET k == ReadKey(Buffer)
       IN  decoded' = decoded + k.n /\ lastKey' = k.key
    /\ UNCHANGED <<stream, readFrom, readTo>>

KeysNext == \/ \E e \in Encodings : Type(e)
            \/ \E n \in 1..ReadSize : Read(n)
            \/ Decode

KeysSpec == KeysInit /\ [][KeysNext]_keyVars

-----------------------------------------------------------------------------
(* What is read.                                                           *)

\* The keys that answer a question, with yes or with no, or end the session.
AnswerKeys == {"Enter", "y", "Y", "Esc", "n", "N", "CtrlC", "q", "Q"}

\* A key comes out of the bytes of one that was typed, to its end.
ComesOut == /\ decoded = stream[decoded + 1].start
            /\ decoded' = Ending(decoded + 1)
            /\ lastKey' = stream[decoded + 1].of.key

\* The escape key is typed, and with it in one read comes a byte that makes a
\* longer key of it.
TakenForLonger == /\ stream[decoded + 1].of.bytes = <<"ESC">>
                  /\ decoded + 2 <= readTo /\ Byte(decoded + 2) \in {"[", "O"}

\* However the bytes of the keys a user types are cut into reads, every key that
\* is not cut itself comes out as it is, in its place, and one that is cut comes
\* out as its parts do: it disturbs no other key.  No part of a cut key confirms a
\* question, says n, or ends the session, nor does an escape key that is taken for
\* the start of another.  But the start of a cut cursor key comes out as the escape
\* key, which answers an open question with no (KeyReader.ReadKey, handleConfirmKey).
OnlyCutKeysAreMisread ==
    [][decoded' # decoded =>
          IF TakenForLonger THEN lastKey' \notin AnswerKeys \ {"Esc"}
          ELSE IF readFrom <= stream[decoded + 1].start /\ Ending(decoded + 1) <= readTo
             THEN ComesOut
          ELSE /\ decoded' <= Ending(decoded + 1)
               /\ lastKey' \in AnswerKeys =>
                     lastKey' = "Esc" /\ decoded = stream[decoded + 1].start]_keyVars

\* "Buffering leftover bytes across reads so fast typing, escape sequences, and
\* multi-byte inputs are never lost" (KeyReader): this does NOT hold.  A key that two
\* reads share never comes out: an arrow calls off an open question, and of an End
\* key sent as ESC O F the F may be left, which asks for a forced kill.
NothingIsLost == [][decoded' # decoded => ComesOut]_keyVars
=============================================================================
