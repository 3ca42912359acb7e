---------------------------- MODULE EnvExpansion ----------------------------
(***************************************************************************)
(* expand_env_vars (config.py), which BackendConfig's field validators     *)
(* apply to command, http_url, cwd and every value of env and headers.     *)
(* It is re.sub with two alternatives, "${", one or more characters other *)
(* than "}" and "}"; or "$", one of [A-Za-z_] and any number of           *)
(* [A-Za-z0-9_]; and a replacer that returns os.environ.get(name, whole    *)
(* match).  That is a scan                                                 *)
(* from the left that at each "$" tries the braced form, then the bare     *)
(* form, replaces a match by the variable's value (or leaves it as it is   *)
(* when the variable is unset) and goes on after the match, never looking  *)
(* at the text it put in.                                                  *)
(*                                                                         *)
(* Strings are sequences over a small alphabet: "$", the braces, a letter  *)
(* "A" (any of [A-Za-z_]), a digit "1" (any of [0-9]) and "-" (anything    *)
(* else).  The environment maps a few names to a few values, one of which  *)
(* itself contains a reference.                                            *)
(***************************************************************************)
EXTENDS Naturals, Sequences, SequencesExt

CONSTANT MaxSegs    \* the number of pieces an input is built from

ASSUME MaxSegsAssumption == MaxSegs \in Nat

IdStart == {"A"}
IdCont  == {"A", "1"}
Chars   == {"$", "{", "}", "A", "1", "-"}

EnvNames == {<<"A">>, <<"A", "1">>}
Values   == {<<>>, <<"-">>, <<"$", "A">>}
\* os.environ: a value for some of the names.
Envs == UNION {[D -> Values] : D \in SUBSET EnvNames}

-----------------------------------------------------------------------------
(* The scan re.sub performs.                                               *)

\* The first alternative matches at i: "${", one or more characters other
\* than "}", then "}".  [^}]+ cannot cross a "}", so the match ends at the
\* first "}" after the brace.
BraceAt(s, i) ==
    /\ s[i] = "$"
    /\ i + 1 <= Len(s) /\ s[i + 1] = "{"
    /\ \E j \in i + 3..Len(s) :
          s[j] = "}" /\ \A k \in i + 2..j - 1 : s[k] # "}"

CloseAt(s, i) ==
    CHOOSE j \in i + 3..Len(s) :
        s[j] = "}" /\ \A k \in i + 2..j - 1 : s[k] # "}"

\* The second alternative matches at i: "$", a letter or "_", then as many
\* letters, digits and "_" as follow (the * is greedy).
BareAt(s, i) ==
    s[i] = "$" /\ i + 1 <= Len(s) /\ s[i + 1] \in IdStart

IdEnd(s, i) ==
    CHOOSE j \in i + 1..Len(s) :
        /\ \A k \in i + 2..j : s[k] \in IdCont
        /\ j = Len(s) \/ s[j + 1] \notin IdCont

\* Mutant of Replace: an unset variable is replaced by the empty string,
\* as os.environ.get(var_name, "") would.
Replace_DefaultEmpty(match, name, env) ==
    IF name \in DOMAIN env THEN env[name] ELSE << >>

\* replacer: the variable's value, or the whole match when it is unset.
Replace(match, name, env) ==
    IF name \in DOMAIN env THEN env[name] ELSE match

RECURSIVE ExpandFrom(_, _, _)
ExpandFrom(s, env, i) ==
    IF i > Len(s) THEN << >>
    ELSE IF BraceAt(s, i)
    THEN LET j == CloseAt(s, i)
         IN  Replace(SubSeq(s, i, j), SubSeq(s, i + 2, j - 1), env)
                \o ExpandFrom(s, env, j + 1)
    ELSE IF BareAt(s, i)
    THEN LET j == IdEnd(s, i)
         IN  Replace(SubSeq(s, i, j), SubSeq(s, i + 1, j), env)
                \o ExpandFrom(s, env, j + 1)
    ELSE <<s[i]>> \o ExpandFrom(s, env, i + 1)

ExpandEnvVars(s, env) == ExpandFrom(s, env, 1)

-----------------------------------------------------------------------------
(* The reference: what the spec (section 6) asks of the loader.  A string  *)
(* is read as a sequence of pieces: a character other than "$", a "$"    *)
(* that starts no reference, a ${NAME} or a $NAME.  Each reference is      *)
(* resolved from the environment and an unknown one is passed through      *)
(* verbatim; everything else is kept.                                      *)
BraceNames == {<<"A">>, <<"A", "1">>, <<"-">>}
BareNames  == {<<"A">>, <<"A", "1">>, <<"A", "A">>}
Pieces ==
    [kind : {"char"}, ch : Chars \ {"$"}] \cup [kind : {"dollar"}]
    \cup [kind : {"brace"}, name : BraceNames]
    \cup [kind : {"bare"}, name : BareNames]

Text(p) ==
    CASE p.kind = "char"   -> <<p.ch>>
      [] p.kind = "dollar" -> <<"$">>
      [] p.kind = "brace"  -> <<"$", "{">> \o p.name \o <<"}">>
      [] p.kind = "bare"   -> <<"$">> \o p.name

Meaning(p, env) ==
    IF p.kind \in {"brace", "bare"} /\ p.name \in DOMAIN env
    THEN env[p.name] ELSE Text(p)

Render(ps) == FlattenSeq([i \in DOMAIN ps |-> Text(ps[i])])
Resolve(ps, env) == FlattenSeq([i \in DOMAIN ps |-> Meaning(ps[i], env)])

\* The text that follows piece i.
After(ps, i) == Render(SubSeq(ps, i + 1, Len(ps)))

(* The reading of a string into pieces is the intended one when a $NAME    *)
(* takes every name character that follows it, and a "$" kept as it is    *)
(* is followed neither by a name nor by "{", a character other than "}"   *)
(* and, later, a "}".                                                      *)
Intended(ps) ==
    \A i \in 1..Len(ps) :
        LET a == After(ps, i) IN
        /\ ps[i].kind = "bare" => Len(a) = 0 \/ a[1] \notin IdCont
        /\ ps[i].kind = "dollar" =>
              /\ Len(a) = 0 \/ a[1] \notin IdStart
              /\ ~(/\ Len(a) >= 3 /\ a[1] = "{" /\ a[2] # "}"
                   /\ \E j \in 3..Len(a) : a[j] = "}")

Inputs == {ps \in SeqOf(Pieces, MaxSegs) : Intended(ps)}

-----------------------------------------------------------------------------
VARIABLES
    pieces,   \* the field as written in the YAML file, read into pieces
    env,      \* os.environ when the config is loaded
    value,    \* the field after validation
    done      \* the validator has run

vars == <<pieces, env, value, done>>

Init ==
    /\ pieces \in Inputs
    /\ env \in Envs
    /\ value = << >>
    /\ done = FALSE

\* BackendConfig.expand_env (and expand_dict_values, per value): the
\* validator replaces the field by expand_env_vars of it.
Expand ==
    /\ ~done
    /\ value' = ExpandEnvVars(Render(pieces), env)
    /\ done' = TRUE
    /\ UNCHANGED <<pieces, env>>

\* The loaded configuration keeps its values.
Loaded ==
    /\ done
    /\ UNCHANGED vars

Next == Expand \/ Loaded

Spec == Init /\ [][Next]_vars

-----------------------------------------------------------------------------
(* Environment references as the spec states them (section 6): every      *)
(* ${VAR} and $VAR of a set variable is replaced by its value, in one      *)
(* pass (a value that contains "$" is not expanded again), and a           *)
(* reference to an unset variable is kept verbatim.                        *)
ExpansionAsSpecified ==
    done => value = Resolve(pieces, env)
=============================================================================
