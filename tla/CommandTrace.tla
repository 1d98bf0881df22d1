----------------------------- MODULE CommandTrace -----------------------------
(* command_tracing/: what CommandTracer lists of the child's environment and   *)
(* how the recipe it logs is rendered for a POSIX shell and for PowerShell.    *)
(*                                                                             *)
(* An environment is a function from names to values, a value the sequence of  *)
(* its path segments: <<"">> is the empty string.  Values are taken to have no *)
(* blanks, as the POSIX recipe leaves $PATH unquoted.  Two names that differ   *)
(* only in case, "PATH" and "Path", are one variable on Windows.               *)

EXTENDS Naturals, Sequences, SequencesExt

Upper(name) == IF name = "Path" THEN "PATH" ELSE name

\* The names a platform does not tell apart.
SameName(a, b, platform) ==
  IF platform = "win32" THEN Upper(a) = Upper(b) ELSE a = b

\* Each variable has one name, and a value of one segment at least.
IsEnvironment(env, platform) ==
  /\ env = [n \in DOMAIN env |-> env[n]]
  /\ \A n \in DOMAIN env : env[n] \in Seq(STRING) /\ env[n] # <<>>
  /\ \A m, n \in DOMAIN env : SameName(m, n, platform) => m = n

Only(env, names) == [n \in DOMAIN env \intersect names |-> env[n]]

\* EnvListing.
Listing(variables, clear, removed, missing) ==
  [variables |-> variables, clear_environment |-> clear,
   removed_variables |-> removed, missing_variables |-> missing]

Empty == [n \in {} |-> <<>>]

list_no_environment(child_env, host_env) == Listing(Empty, FALSE, {}, {})

Changed(child_env, host_env) ==
  {n \in DOMAIN child_env :
     n \notin DOMAIN host_env \/ host_env[n] # child_env[n]}

list_changed_environment(child_env, host_env) ==
  Listing(Only(child_env, Changed(child_env, host_env)), FALSE,
          DOMAIN host_env \ DOMAIN child_env, {})

list_recreated_environment(child_env, host_env) ==
  Listing(child_env, TRUE, {}, {})

list_selected_environment(names, child_env) ==
  Listing(Only(child_env, names), FALSE, {}, names \ DOMAIN child_env)

\* The value the host has under the first of these names, <<>> if none has one
\* or it is empty (a falsy str).
FirstSet(names, host_env) ==
  LET set == {i \in DOMAIN names : /\ names[i] \in DOMAIN host_env
                                   /\ host_env[names[i]] # <<"">>}
  IN IF set = {} THEN <<>> ELSE host_env[names[Min(set)]]

\* Faulty: only the last segments are compared.
EndsWith_AnySegment(value, path) == Last(value) = Last(path)

\* value == host_path, or it ends with a separator and host_path.
EndsWith(value, path) == IsSuffix(path, value)

\* A literal, or a literal prefix before a reference to the PATH of the shell
\* that runs the recipe.
Abbreviated(value, path) ==
  IF path # <<>> /\ EndsWith(value, path)
    THEN [literal |-> SubSeq(value, 1, Len(value) - Len(path)), ref |-> TRUE]
    ELSE [literal |-> value, ref |-> FALSE]

\* _render_assignment of either platform.
PosixAssignment(key, value, host_env) ==
  Abbreviated(value, IF key = "PATH" THEN FirstSet(<<"PATH">>, host_env)
                     ELSE <<>>)

WindowsAssignment(key, value, host_env) ==
  Abbreviated(value, IF Upper(key) = "PATH"
                       THEN FirstSet(<<key, "PATH", "Path">>, host_env)
                       ELSE <<>>)

Assignment(key, value, host_env, platform) ==
  IF platform = "win32" THEN WindowsAssignment(key, value, host_env)
  ELSE PosixAssignment(key, value, host_env)

\* render_recipe: the names to remove are left out when everything is cleared.
Recipe(listing, host_env, platform) ==
  [clear |-> listing.clear_environment,
   removed |-> IF listing.clear_environment THEN {}
               ELSE listing.removed_variables,
   assigned |-> [n \in DOMAIN listing.variables |->
                   Assignment(n, listing.variables[n], host_env, platform)],
   missing |-> listing.missing_variables]

-----------------------------------------------------------------------------
(* What a shell with the environment `shell` makes of a recipe (external).     *)

\* The value `name` has in env, under any of its spellings.
Lookup(env, name, platform) ==
  env[CHOOSE n \in DOMAIN env : SameName(n, name, platform)]

\* One spelling for each variable.
Folded(env, platform) ==
  IF platform = "win32"
    THEN [n \in {Upper(k) : k \in DOMAIN env} |-> Lookup(env, n, platform)]
    ELSE env

\* The environment `env`, overlaid with `over`.
Overlaid(over, env, platform) ==
  LET f == Folded(over, platform)
      g == Folded(env, platform)
  IN [n \in DOMAIN f \union DOMAIN g |-> IF n \in DOMAIN f THEN f[n] ELSE g[n]]

Run(recipe, shell, platform) ==
  LET kept == {n \in DOMAIN shell :
                 ~\E r \in recipe.removed : SameName(n, r, platform)}
      value(n) == LET a == recipe.assigned[n] IN
        a.literal \o IF a.ref THEN Lookup(shell, n, platform) ELSE <<>>
  IN Overlaid([n \in DOMAIN recipe.assigned |-> value(n)],
              IF recipe.clear THEN Empty ELSE Only(shell, kept), platform)
=============================================================================
