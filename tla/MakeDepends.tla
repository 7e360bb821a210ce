----------------------------- MODULE MakeDepends -----------------------------
(***************************************************************************)
(* src/make_depends.py: parse the options, load the package map (a JSON    *)
(* object from package name to location), resolve every "ENV:<VAR>"       *)
(* location from the environment, then for every dependencies.<system>    *)
(* file under the working directory write dependencies.<hostname> beside  *)
(* it, with the location of every package the map names substituted into *)
(* the lines that assign it.  A string is a sequence of one-character     *)
(* strings; ENV is one symbol standing for the three letters of the       *)
(* prefix; the regular expressions are the operators that do what Python's *)
(* re does with them.  Package names are literal (no regex metacharacter) *)
(* and locations hold no backslash, so the replacement text is literal.   *)
(***************************************************************************)
EXTENDS Integers, SequencesExt

CONSTANTS
    Argvs,      \* the option lists sys.argv[1:] may hold, as getopt parses them
    Json,       \* Json[f]: the package map in the readable file f, as a sequence
                \*   of [key, val] in the file's order
    Envs,       \* the environments the script may be started in
    Tree,       \* Tree[s]: the dependencies.<s> files under the working directory
    Contents    \* the line lists a dependencies file may hold

\* json.load of a package map gives a string-to-string object: a sequence
\* of entries whose name and location are strings.
ASSUME JsonAssumption ==
    \A f \in DOMAIN Json :
        Json[f] \in Seq([key : Seq(STRING), val : Seq(STRING)])

Space == " "

-----------------------------------------------------------------------------
(* The string operations of lines 39-41 and 62-67.                         *)

\* match("^ENV:", v)
IsEnvRef(v) == Len(v) >= 2 /\ v[1] = "ENV" /\ v[2] = ":"

\* v.split(":")[1]: the characters between the first ":" and the next.
EnvName(v) ==
    LET rest == SubSeq(v, 3, Len(v))
        ends == {i \in 1..Len(rest) : rest[i] = ":"}
    IN  IF ends = {} THEN rest
        ELSE SubSeq(rest, 1, Min(ends) - 1)

\* `if (val)` for val = environ.get(name): set and not empty.
EnvSet(e, name) == name \in DOMAIN e /\ e[name] # <<>>

\* Where a match of "=\S+;" (semi) or "=\S+" starting at position i of the
\* line ends, 0 when none starts there: \S+ takes the longest run of
\* non-space characters, and for "=\S+;" gives back characters until the
\* last ";" of that run with at least one character before it.
MatchEnd(line, i, semi) ==
    LET run == {j \in i + 1..Len(line) :
                   \A q \in i + 1..j : line[q] # Space}
        semis == {q \in run : q >= i + 2 /\ line[q] = ";"}
    IN  CASE line[i] # "=" \/ run = {} -> 0
          [] ~semi                       -> Max(run)
          [] semis = {}                  -> 0
          [] OTHER                       -> Max(semis)

\* re.sub(pattern, rep, line) from position i on: every leftmost match,
\* scanning on after the end of the last one.  sub[j] is the text that
\* the scan from position j produces.
SubFrom(line, i, semi, rep) ==
    LET sub[j \in 1..(Len(line) + 1)] ==
          IF j > Len(line) THEN <<>>
          ELSE LET m == MatchEnd(line, j, semi)
               IN  IF m = 0 THEN <<line[j]>> \o sub[j + 1]
                   ELSE rep \o sub[m + 1]
    IN  sub[i]

\* Lines 62-68 for one package: the line assigns it, and is written with
\* every "=\S+;" replaced by "=<val>;" if it holds a ";", every "=\S+"
\* replaced by "=<val>" otherwise.
Assigns(line, pkg) == IsPrefix(pkg.key \o <<"=">>, line)

\* Mutation of line 64: the two substitutions exchanged.
SubstitutedSwapped(line, pkg) ==
    IF ~Contains(line, ";")
        THEN SubFrom(line, 1, TRUE, <<"=">> \o pkg.val \o <<";">>)
        ELSE SubFrom(line, 1, FALSE, <<"=">> \o pkg.val)

Substituted(line, pkg) ==
    IF Contains(line, ";")
        THEN SubFrom(line, 1, TRUE, <<"=">> \o pkg.val \o <<";">>)
        ELSE SubFrom(line, 1, FALSE, <<"=">> \o pkg.val)

\* Mutation of line 68: matched never set, the line also copied.
RewriteLineNoMatchFlag(line, pkgs) ==
    LET hits == SelectSeq(pkgs, LAMBDA p : Assigns(line, p))
    IN  [i \in 1..Len(hits) |-> Substituted(line, hits[i])] \o <<line>>

\* The lines written for one line read (lines 59-70): one per package of
\* the map that the line assigns, in the map's order, or the line itself.
RewriteLine(line, pkgs) ==
    LET hits == SelectSeq(pkgs, LAMBDA p : Assigns(line, p))
    IN  IF hits = <<>> THEN <<line>>
        ELSE [i \in 1..Len(hits) |-> Substituted(line, hits[i])]

RewriteFile(lines, pkgs) ==
    FlattenSeq([i \in 1..Len(lines) |-> RewriteLine(lines[i], pkgs)])

-----------------------------------------------------------------------------
VARIABLES
    pc,       \* where the script is
    opts,     \* the options getopt returned that the loop has not yet seen
    system,   \* `system`, default "default" (line 12)
    depfile,  \* `depfile`, default "yanda_packages.json" (line 11)
    pkgs,     \* yanda_packages, as loaded and then resolved
    next,     \* position of the resolution loop (lines 38-48) in pkgs
    env,      \* os.environ
    content,  \* content[f]: the lines of dependencies file f
    todo,     \* the files of the glob of line 50 not yet rewritten
    out       \* out[f]: the lines written beside f, for the files done

mdVars == <<pc, opts, system, depfile, pkgs, next, env, content, todo, out>>

Files == UNION {Tree[s] : s \in DOMAIN Tree}

Init ==
    /\ pc = "getopt"
    /\ opts \in Argvs
    /\ system = "default"
    /\ depfile = "yanda_packages.json"
    /\ pkgs = <<>>
    /\ next = 1
    /\ env \in Envs
    /\ content \in [Files -> Contents]
    /\ todo = {}
    /\ out = <<>>

\* getopt.getopt raises for an option it does not know: usage, exit 2
\* (lines 20-24).
GetoptFails ==
    /\ pc = "getopt"
    /\ \E i \in 1..Len(opts) : opts[i].opt = "bad"
    /\ pc' = "exit"
    /\ UNCHANGED <<opts, system, depfile, pkgs, next, env, content, todo, out>>

GetoptOk ==
    /\ pc = "getopt"
    /\ \A i \in 1..Len(opts) : opts[i].opt # "bad"
    /\ pc' = "opts"
    /\ UNCHANGED <<opts, system, depfile, pkgs, next, env, content, todo, out>>

\* One iteration of the option loop (lines 25-32): -h prints the usage and
\* exits, -s sets the system, -d the package map file.
Option ==
    /\ pc = "opts"
    /\ opts # <<>>
    /\ LET o == Head(opts)
       IN  /\ pc' = IF o.opt = "-h" THEN "exit" ELSE "opts"
           /\ system' = IF o.opt = "-s" THEN o.arg ELSE system
           /\ depfile' = IF o.opt = "-d" THEN o.arg ELSE depfile
    /\ opts' = Tail(opts)
    /\ UNCHANGED <<pkgs, next, env, content, todo, out>>

\* yanda_packages = load(open(depfile)) (line 36); open raises, and the
\* script dies, when there is no such file.
Load ==
    /\ pc = "opts"
    /\ opts = <<>>
    /\ pc' = IF depfile \in DOMAIN Json THEN "resolve" ELSE "crashed"
    /\ pkgs' = IF depfile \in DOMAIN Json THEN Json[depfile] ELSE pkgs
    /\ UNCHANGED <<opts, system, depfile, next, env, content, todo, out>>

Resolve ==
    /\ pc = "resolve"
    /\ next <= Len(pkgs)
    /\ LET v == pkgs[next].val
       IN  pkgs' = IF IsEnvRef(v) /\ EnvSet(env, EnvName(v))
                      THEN [pkgs EXCEPT ![next].val = env[EnvName(v)]]
                      ELSE pkgs
    /\ next' = next + 1
    /\ UNCHANGED <<pc, opts, system, depfile, env, content, todo, out>>

\* files = glob("**/dependencies." + system, recursive=True) (line 50).
Glob ==
    /\ pc = "resolve"
    /\ next > Len(pkgs)
    /\ pc' = "write"
    /\ todo' = IF system \in DOMAIN Tree THEN Tree[system] ELSE {}
    /\ UNCHANGED <<opts, system, depfile, pkgs, next, env, content, out>>

\* One file of the loop of lines 51-70: its lines are read, and the file
\* beside it named after the host is opened for writing and filled.
WriteFile ==
    /\ pc = "write"
    /\ \E f \in todo :
          /\ out' = [g \in DOMAIN out \cup {f} |->
                        IF g = f THEN RewriteFile(content[f], pkgs)
                        ELSE out[g]]
          /\ todo' = todo \ {f}
    /\ UNCHANGED <<pc, opts, system, depfile, pkgs, next, env, content>>

Finish ==
    /\ pc = "write"
    /\ todo = {}
    /\ pc' = "done"
    /\ UNCHANGED <<opts, system, depfile, pkgs, next, env, content, todo, out>>

Next ==
    GetoptFails \/ GetoptOk \/ Option \/ Load \/ Resolve \/ Glob
        \/ WriteFile \/ Finish

\* A script on one thread: it runs to its end.
Spec == Init /\ [][Next]_mdVars /\ WF_mdVars(Next)
-----------------------------------------------------------------------------
TypeOK ==
    /\ pc \in {"getopt", "opts", "resolve", "write", "done", "exit", "crashed"}
    /\ next \in 1..(Len(pkgs) + 1)
    /\ todo \subseteq Files
    /\ DOMAIN out \subseteq Files

\* The location a package of the map must end up with: its own, or for
\* "ENV:<VAR>" the variable's value when that is set and not empty.
Location(p) ==
    IF IsEnvRef(p.val) /\ EnvSet(env, EnvName(p.val)) THEN env[EnvName(p.val)]
                                                      ELSE p.val

\* The line with the value of its leading assignment of p (what follows
\* "<name>=" up to a space, a ";" or the end) set to p's location.
Intended(line, p) ==
    LET start == Len(p.key) + 2
        stops == {q \in start..Len(line) : line[q] \in {Space, ";"}}
        stop  == IF stops = {} THEN Len(line) + 1 ELSE Min(stops)
    IN  SubSeq(line, 1, start - 1) \o Location(p) \o SubSeq(line, stop, Len(line))

\* The line assigns p a value that is not empty.
ValueGiven(line, p) ==
    /\ Assigns(line, p)
    /\ Len(line) >= Len(p.key) + 2
    /\ line[Len(p.key) + 2] \notin {Space, ";"}

\* The line is "<name>=<value>" or "<name>=<value>;", the value without
\* space or ";": the shape of a dependencies entry.
SimpleEntry(line, p) ==
    LET rest == SubSeq(line, Len(p.key) + 2, Len(line))
        body == IF rest # <<>> /\ Last(rest) = ";" THEN Front(rest) ELSE rest
    IN  /\ ValueGiven(line, p)
        /\ ~Contains(body, Space)
        /\ ~Contains(body, ";")

\* Lines 59-70: every file written has one line per line read, and a line
\* that assigns no package of the map is copied as it is.
LinesPreserved ==
    \A f \in DOMAIN out :
        /\ Len(out[f]) = Len(content[f])
        /\ \A i \in 1..Len(content[f]) :
              (\A k \in 1..Len(pkgs) : ~Assigns(content[f][i], pkgs[k]))
                  => out[f][i] = content[f][i]

\* Lines 38-48 and 64-67 together: an entry "<name>=<value>[;]" of a
\* package in the map is written with the package's location, resolved
\* from the environment when the map says "ENV:<VAR>" and the variable is
\* set, and with its ";" kept.
SimpleEntriesSet ==
    \A f \in DOMAIN out : \A i \in 1..Len(content[f]) :
        \A k \in 1..Len(Json[depfile]) :
            SimpleEntry(content[f][i], Json[depfile][k])
                => out[f][i] = Intended(content[f][i], Json[depfile][k])

\* What line 63 announces ("Found <package> in <file>") and lines 64-67
\* mean to do: every line that assigns a package a value is written with
\* that value, and only that value, replaced by the package's location.
RewriteAsIntended ==
    \A f \in DOMAIN out : \A i \in 1..Len(content[f]) :
        \A k \in 1..Len(Json[depfile]) :
            ValueGiven(content[f][i], Json[depfile][k])
                => out[f][i] = Intended(content[f][i], Json[depfile][k])
=============================================================================
