------------------------------- MODULE Startup -------------------------------
(***************************************************************************)
(* What the programs do before they serve or fetch: the getopt loop over   *)
(* the command line, the checks behind it, and reading the content file    *)
(* (content_init, simplecache_init) or the workload (workload_init).       *)
(*                                                                         *)
(* An argument is an option's letter and the text behind it; a long option *)
(* is its letter.  Texts are numbers, Word is one atoi cannot read, None   *)
(* is none.  A file is a sequence of characters of which only separators   *)
(* and newlines are told apart; a piece of it is the set of its positions. *)
(***************************************************************************)
EXTENDS Integers, Sequences, FiniteSetsExt

CONSTANTS Texts, Word, None,
          MaxArgs,     \* bound: a command line has at most this many options
          MaxFile,     \* bound: a file has at most this many characters
          MAX_KEYLEN,  \* fgets reads at most MAX_KEYLEN - 1 characters
          MAX_WORD,    \* the longest word that fits temp_buf
          MAX_PATHS    \* the size of gWorkloadPathArray

ASSUME TextsAssumption == Texts \subseteq Int /\ {Word, None} \subseteq Int
ASSUME SizesAssumption ==
    /\ {MaxArgs, MaxFile, MAX_WORD, MAX_PATHS} \subseteq Nat
    /\ MAX_KEYLEN \in Nat /\ MAX_KEYLEN > 2

-----------------------------------------------------------------------------
(* Each program: the letters of its option string, the cases of its        *)
(* switch with the type their text is converted to, its defaults, the      *)
(* letters its USAGE documents, and what it reads.                         *)
echoserver == [opts |-> {"p", "n", "h"}, usage |-> {"p", "n", "h"}, reads |-> "nothing",
    cases |-> [p |-> "int", n |-> "int", h |-> "help"], default |-> [p |-> 8888, n |-> 5]]
echoclient == [opts |-> {"s", "p", "m", "h"}, usage |-> {"s", "p", "m", "h"}, reads |-> "nothing",
    cases |-> [s |-> "name", p |-> "short", m |-> "name", h |-> "help"],
    default |-> [s |-> Word, p |-> 8888, m |-> Word]]
transferserver == [opts |-> {"p", "f", "h"}, usage |-> {"p", "f", "h"}, reads |-> "nothing",
    cases |-> [p |-> "int", n |-> "int", f |-> "name", h |-> "help"],
    default |-> [p |-> 8888, n |-> 5, f |-> Word]]
transferclient == [opts |-> {"s", "p", "o", "h"}, usage |-> {"s", "p", "o", "h"}, reads |-> "nothing",
    cases |-> [s |-> "name", p |-> "short", o |-> "name", h |-> "help"],
    default |-> [s |-> Word, p |-> 8888, o |-> Word]]
gfserver == [opts |-> {"p", "t", "s", "h"}, usage |-> {"p", "c", "h"}, reads |-> "content",
    cases |-> [p |-> "short", c |-> "name", h |-> "help"], default |-> [p |-> 8888, c |-> Word]]
mtserverUsage == {"p", "t", "c", "h"}
mtgfserver == [opts |-> {"p", "t", "c", "h"}, usage |-> mtserverUsage, reads |-> "content",
    cases |-> [p |-> "short", t |-> "int", c |-> "name", h |-> "help"],
    default |-> [p |-> 8888, t |-> 1, c |-> Word]]
clientUsage == {"s", "p", "w", "t", "n", "h"}
gfclient == [opts |-> {"s", "p", "w", "n", "t", "h"}, usage |-> clientUsage, reads |-> "workload",
    cases |-> [s |-> "name", p |-> "short", w |-> "name", n |-> "int", t |-> "one", h |-> "help"],
    default |-> [s |-> Word, p |-> 8888, w |-> Word, n |-> 1, t |-> 1]]
mtclientUsage == {"s", "p", "w", "t", "n", "h"}
mtgfclient == [opts |-> {"s", "p", "w", "n", "t", "h"}, usage |-> mtclientUsage, reads |-> "workload",
    cases |-> [s |-> "name", p |-> "short", w |-> "name", n |-> "int", t |-> "int", h |-> "help"],
    default |-> [s |-> Word, p |-> 8888, w |-> Word, n |-> 1, t |-> 1]]
proxyUsage == {"p", "t", "s", "h", "d"}
webproxy == [opts |-> {"p", "t", "s", "h"}, usage |-> proxyUsage, reads |-> "nothing",
    cases |-> [p |-> "short", t |-> "short", s |-> "name", h |-> "help"],
    default |-> [p |-> 8888, t |-> 1, s |-> Word]]
simplecached == [opts |-> {"t", "c", "h"}, usage |-> {"t", "c", "h"}, reads |-> "content",
    cases |-> [t |-> "int", c |-> "name", h |-> "help"], default |-> [t |-> 1, c |-> Word]]

Programs == {echoserver, echoclient, transferserver, transferclient, gfserver, mtgfserver,
             gfclient, mtgfclient, webproxy, simplecached}
Letters == UNION {P.opts \cup P.usage \cup DOMAIN P.cases : P \in Programs}

Arguments == [letter : Letters, text : Texts \cup {Word, None}]
Upto(n, S) == UNION {[1 .. k -> S] : k \in 0 .. n}

VARIABLES prog, argv, optind,  \* the program, its options, the next one
          val,                 \* what each option's variable holds
          phase,               \* "options", "open", "read", "ready", "overrun"
                               \*   or "exit"
          file, at, table      \* the file, the next character, what was read

vars == <<prog, argv, optind, val, phase, file, at, table>>
opts == <<argv, optind, val>>
input == <<file, at, table>>

(* Command line and file do not meet: one is enumerated with the other     *)
(* left empty.                                                             *)
Init ==
    /\ prog \in Programs
    /\ \/ argv \in Upto(MaxArgs, Arguments) /\ file = <<>>
       \/ /\ prog.reads # "nothing"
          /\ argv = <<>> /\ file \in Upto(MaxFile, {"letter", "sep", "newline"})
    /\ optind = 1 /\ val = prog.default /\ phase = "options"
    /\ at = 1 /\ table = <<>>

-----------------------------------------------------------------------------
Atoi(text) == IF text = Word THEN 0 ELSE text
Convert(type, text) ==
    CASE type = "short" -> Atoi(text) % 65536
      [] type = "name"  -> text
      [] OTHER          -> Atoi(text)

(* A letter that is not in the option string, has no text or no case ends  *)
(* the program, as do -h and, in pr1/gflib's client, a -t other than 1.    *)
Stops(a) ==
    \/ a.letter \notin prog.opts \cap DOMAIN prog.cases
    \/ prog.cases[a.letter] = "help" \/ a.text = None
    \/ prog.cases[a.letter] = "one" /\ Atoi(a.text) # 1

(* One round of the getopt loop.                                           *)
Option ==
    /\ phase = "options" /\ optind <= Len(argv)
    /\ LET a == argv[optind]
       IN  IF Stops(a) THEN phase' = "exit" /\ UNCHANGED <<optind, val>>
           ELSE /\ val' = [val EXCEPT ![a.letter] = Convert(prog.cases[a.letter], a.text)]
                /\ optind' = optind + 1 /\ UNCHANGED phase
    /\ UNCHANGED <<prog, argv, input>>

(* Faulty variant: as in webproxy.c, nothing is checked.                   *)
TooFewUnchecked == FALSE

(* The two programs that check the number of threads.                      *)
TooFewOrMany == \/ prog = mtgfserver /\ val.t < 1
                \/ prog = simplecached /\ (val.t < 1 \/ val.t > 1024)

Checked ==
    /\ phase = "options" /\ optind > Len(argv)
    /\ val' = IF TooFewOrMany THEN [val EXCEPT !.t = 1] ELSE val
    /\ phase' = IF prog.reads = "nothing" THEN "ready" ELSE "open"
    /\ UNCHANGED <<prog, argv, optind, input>>

(* fopen; a file that cannot be opened ends the program.                   *)
Open ==
    /\ phase = "open"
    /\ phase' \in {"read", "exit"}
    /\ UNCHANGED <<prog, opts, input>>

-----------------------------------------------------------------------------
Rest == at .. Len(file)
Before(S, k) == {i \in S : i < k}
FirstIn(S, end) == Min(S \cup {end})

(* Faulty variant: the newline stays.                                      *)
CutNothing(last) == last

(* The last character of a piece is cut off, newline or not.               *)
Cut(last) == last - 1

(* fgets reads a piece; strsep splits it into key and path.  No path, an   *)
(* empty one, or one that cannot be opened ends the program.               *)
ReadLine ==
    /\ phase = "read" /\ Rest # {}
    /\ LET last == Min({i \in Rest : file[i] = "newline"}
                         \cup {at + MAX_KEYLEN - 2, Len(file)})
           text == at .. Cut(last)
           seps == {i \in text : file[i] = "sep"}
           sep  == FirstIn(seps, Cut(last) + 1)
           path == {i \in text : i > sep /\ i < FirstIn(seps \ {sep}, Cut(last) + 1)}
       IN  \/ /\ path # {}
              /\ table' = Append(table, [key |-> Before(text, sep), path |-> path])
              /\ at' = last + 1 /\ UNCHANGED phase
           \/ phase' = "exit" /\ UNCHANGED <<at, table>>
    /\ UNCHANGED <<prog, opts, file>>

WordEnd(first) == FirstIn({i \in Rest : i > first /\ file[i] # "letter"}, Len(file) + 1) - 1

(* fscanf reads the next word; one too long for temp_buf or too many for   *)
(* the array is written behind its end.                                    *)
ReadWord ==
    /\ phase = "read" /\ \E i \in Rest : file[i] = "letter"
    /\ LET first == Min({i \in Rest : file[i] = "letter"})
           last  == WordEnd(first)
       IN  /\ at' = last + 1
           /\ IF last - first + 1 > MAX_WORD \/ Len(table) = MAX_PATHS
              THEN phase' = "overrun" /\ UNCHANGED table
              ELSE table' = Append(table, first .. last) /\ UNCHANGED phase
    /\ UNCHANGED <<prog, opts, file>>

EndOfFile ==
    /\ phase = "read"
    /\ prog.reads = "content" => Rest = {}
    /\ prog.reads = "workload" => \A i \in Rest : file[i] # "letter"
    /\ phase' = "ready"
    /\ UNCHANGED <<prog, opts, input>>

content_init   == prog = mtgfserver /\ (Open \/ ReadLine \/ EndOfFile)
gfcontent_init == prog = gfserver /\ (Open \/ ReadLine \/ EndOfFile)
simplecache_init == prog = simplecached /\ (Open \/ ReadLine \/ EndOfFile)
workload_init   == prog = mtgfclient /\ (Open \/ ReadWord \/ EndOfFile)
gfworkload_init == prog = gfclient /\ (Open \/ ReadWord \/ EndOfFile)

Next ==
    \/ Option \/ Checked
    \/ content_init \/ gfcontent_init \/ simplecache_init \/ workload_init \/ gfworkload_init

Spec == Init /\ [][Next]_vars

-----------------------------------------------------------------------------
(* A program that starts does so with each option's last text, as far as   *)
(* its type holds it, or the default; the server and the cache daemon that *)
(* check it, with at least one thread.  webproxy.c does not check -t: 0,   *)
(* 65536 or a word start it without a worker.                              *)
StartsAsTold ==
    phase \in {"open", "ready"} =>
        /\ prog \in {mtgfserver, simplecached} => val.t >= 1
        /\ \A l \in DOMAIN val :
             LET at_ == {i \in 1 .. Len(argv) : argv[i].letter = l}
                 told == IF at_ = {} THEN prog.default[l]
                         ELSE Convert(prog.cases[l], argv[Max(at_)].text)
             IN  val[l] # told => l = "t" /\ val.t = 1 /\ told \notin 1 .. 1024

(* What USAGE documents is accepted, but for -c of pr1/gflib's server and  *)
(* -d of the proxy, and -t of pr1/gflib's client where it is not 1.        *)
DocumentedIsAccepted ==
    phase = "exit" /\ optind <= Len(argv) =>
        LET a == argv[optind]
        IN  \/ a.letter \notin prog.usage \/ a.letter = "h" \/ a.text = None
            \/ prog = gfserver /\ a.letter = "c"
            \/ prog = webproxy /\ a.letter = "d"
            \/ prog = gfclient /\ a.letter = "t" /\ Atoi(a.text) # 1

(* A program starts with what its command line says, or says why not.      *)
OptionsAsTold == StartsAsTold /\ DocumentedIsAccepted

(* The characters of field k of the line that ends at (or before) last.    *)
LineStart(i) == Max({0} \cup {j \in 1 .. i - 1 : file[j] = "newline"}) + 1
Field(i) == Cardinality({j \in LineStart(i) .. i - 1 : file[j] = "sep"}) + 1
LineOf(i) == Cardinality({j \in 1 .. i - 1 : file[j] = "newline"}) + 1
Part(n, k) == {i \in 1 .. Len(file) : file[i] = "letter" /\ LineOf(i) = n /\ Field(i) = k}
LinesFit == \A i \in 1 .. Len(file) : i - LineStart(i) < MAX_KEYLEN - 1

(* Unless a line is too long, the content file's n-th line gives the n-th  *)
(* key and path, whole; only the last character of a file that does not    *)
(* end in a newline is lost.                                               *)
ContentAsWritten ==
    phase = "ready" /\ prog.reads = "content" /\ LinesFit =>
        LET lost == IF file # <<>> /\ file[Len(file)] # "newline" THEN {Len(file)} ELSE {}
        IN  /\ file # <<>> => Len(table) = LineOf(Len(file))
            /\ \A n \in 1 .. Len(table) : /\ table[n].key = Part(n, 1) \ lost
                                          /\ table[n].path = Part(n, 2) \ lost

(* The workload is the file's words in their order, none twice, none lost. *)
WorkloadAsWritten ==
    phase = "ready" /\ prog.reads = "workload" =>
        /\ UNION {table[n] : n \in 1 .. Len(table)} = {i \in 1 .. Len(file) : file[i] = "letter"}
        /\ \A n \in 1 .. Len(table) - 1 :
               \E i \in 1 .. Len(file) : /\ file[i] # "letter"
                                         /\ Max(table[n]) < i /\ i < Min(table[n + 1])

(* What the server serves, and the client fetches, is what its file says.  *)
ReadAsWritten == ContentAsWritten /\ WorkloadAsWritten
=============================================================================
