------------------------------- MODULE Catalog -------------------------------
(***************************************************************************)
(* The portable configuration and what may be done to its values: the      *)
(* connections with their groups and jump routes (domain/profile.rs), the  *)
(* forwarding rules, the credential vault, and the plan that merges the    *)
(* configuration of another directory into this one                        *)
(* (application/configuration_merge).                                      *)
(* A host stands for a connection's name and address, a material for a     *)
(* password or a key; a group is its name.                                 *)
(***************************************************************************)
EXTENDS Naturals, FiniteSets

CONSTANTS
  Profiles, Groups, Credentials, Rules,  \* identifiers
  Hosts,      \* what connections connect to
  Kinds,      \* kinds of rules, with their addresses
  Materials,  \* passwords and private keys
  None,       \* nothing: no profile, group, credential, rule, vault
  MaxJumps    \* MAX_JUMP_PROFILES

Auths == {"secret", "agent", "manual"}    \* "secret": password or private key
Profile == [host: Hosts, auth: Auths, credential: Credentials \cup {None},
            group: Groups \cup {None}, jumps: SUBSET Profiles]
Connections == [groups: SUBSET Groups, profiles: [Profiles -> Profile \cup {None}]]
Rule == [profile: Profiles, kind: Kinds]
Vault == [key: Nat, wrap: Nat, secrets: [Credentials -> Materials \cup {None}]]
Content == [connections: Connections, rules: [Rules -> Rule \cup {None}],
            vault: Vault \cup {None}]

Stored(f) == {x \in DOMAIN f : f[x] # None}

-----------------------------------------------------------------------------
(* Jump routes. *)

\* ensure_jump_eligible
Eligible(profile) ==
  profile.auth = "agent" \/ (profile.auth = "secret" /\ profile.credential # None)

\* resolve_profile_route: the jumps of jumps do not count.
RouteValid(profiles, p) ==
  /\ Cardinality(profiles[p].jumps) <= MaxJumps
  /\ \A j \in profiles[p].jumps : j # p /\ j \in Stored(profiles) /\ Eligible(profiles[j])

\* What the file of connections has to satisfy to be read at all.
Valid(connections) ==
  \A p \in Stored(connections.profiles) :
    /\ connections.profiles[p].group \in connections.groups \cup {None}
    /\ RouteValid(connections.profiles, p)

Jumps(profiles) == UNION {profiles[p].jumps : p \in Stored(profiles)}

-----------------------------------------------------------------------------
(* The merge of a source into a target.                                    *)

Options == {o \in SUBSET {"connections", "network", "credentials"} :
              "network" \in o => "connections" \in o}

Secrets(vault) == IF vault = None THEN {} ELSE Stored(vault.secrets)

\* A plan says what becomes of the source's credentials and profiles.
Plans(source) == [credentials: [Secrets(source.vault) -> Credentials],
                  profiles: [Stored(source.connections.profiles) -> Profiles]]

\* The source's profiles with their references as the target knows them.
Images(source, options, plan) ==
  [p \in Stored(source.connections.profiles) |->
     [source.connections.profiles[p] EXCEPT
        !.credential = IF @ = None \/ "credentials" \notin options THEN None
                       ELSE plan.credentials[@],
        !.jumps = {plan.profiles[j] : j \in @}]]

\* x goes to something of the target that is the same, or to a new
\* identifier, which it shares with its equals only.
Placed(map, image, target, used) ==
  /\ \A x \in DOMAIN map :
       IF \E y \in Stored(target) : target[y] = image[x]
       THEN map[x] \in Stored(target) /\ target[map[x]] = image[x]
       ELSE map[x] \notin used
  /\ \A x, y \in DOMAIN map : (map[x] = map[y]) <=> (image[x] = image[y])

\* planner::plan refuses a source that lacks what it refers to, that would
\* lose the credential of a jump, or whose jumps go round in a circle.
Mergeable(source, options) ==
  LET profiles == source.connections.profiles
      stored == Stored(profiles)
  IN "connections" \in options =>
       /\ Valid(source.connections)
       /\ IF "credentials" \in options
          THEN \A p \in stored : profiles[p].credential \in Secrets(source.vault) \cup {None}
          ELSE \A j \in Jumps(profiles) : profiles[j].credential = None
       /\ \A S \in (SUBSET stored) \ {{}} : \E p \in S : profiles[p].jumps \cap S = {}

\* What the target lacks of the source's rules; rules of unknown profiles are
\* left out.
NewRules(source, target, plan) ==
  {[profile |-> plan.profiles[rule.profile], kind |-> rule.kind] :
     rule \in {source.rules[r] : r \in {r \in Stored(source.rules) :
                                          source.rules[r].profile \in DOMAIN plan.profiles}}}
  \ {target.rules[r] : r \in Stored(target.rules)}

\* Nothing that is there is ever replaced: the repositories refuse it.
Added(target, new) == [x \in DOMAIN target |->
  IF target[x] # None THEN target[x]
  ELSE IF x \in DOMAIN new THEN new[x] ELSE None]

\* The images of a map by the places they go to.
At(map, image) ==
  [y \in {map[x] : x \in DOMAIN map} |-> image[CHOOSE x \in DOMAIN map : map[x] = y]]

\* The target with everything the plan adds, new rules under new identifiers.
Merged(source, target, options, plan, rules) ==
  [connections |->
     IF "connections" \in options
     THEN [groups |-> target.connections.groups \cup source.connections.groups,
           profiles |-> Added(target.connections.profiles,
                              At(plan.profiles, Images(source, options, plan)))]
     ELSE target.connections,
   rules |-> Added(target.rules, rules),
   vault |-> IF "credentials" \in options /\ source.vault # None /\ target.vault # None
             THEN [target.vault EXCEPT
                     !.secrets = Added(@, At(plan.credentials, source.vault.secrets))]
             ELSE target.vault]

\* What a plan may be: everything has a place in the target.
Sound(source, target, options, plan, used) ==
  /\ ("credentials" \in options /\ source.vault # None /\ target.vault # None)
       => Placed(plan.credentials, source.vault.secrets, target.vault.secrets, used)
  /\ "connections" \in options
       => Placed(plan.profiles, Images(source, options, plan), target.connections.profiles, used)

\* The new rules under identifiers of their own.
Numbered(rules, used) ==
  {f \in UNION {[ids -> rules] : ids \in SUBSET (Rules \ used)} :
     /\ Cardinality(DOMAIN f) = Cardinality(rules)
     /\ {f[r] : r \in DOMAIN f} = rules}
Wanted(source, target, options, plan) ==
  IF "network" \in options THEN NewRules(source, target, plan) ELSE {}

\* preview: all that a merge may come to, and the checks it has passed.
Merges(source, target, options, used) ==
  {next \in UNION {{Merged(source, target, options, plan, rules) :
                      rules \in Numbered(Wanted(source, target, options, plan), used)} :
                     plan \in {plan \in Plans(source) : Sound(source, target, options, plan, used)}} :
     Mergeable(source, options) /\ Valid(next.connections)}

\* What a merge may do to a configuration: add to it.
Keeps(new, old) == \A x \in Stored(old) : new[x] = old[x]
Extends(new, old) ==
  /\ old.connections.groups \subseteq new.connections.groups
  /\ Keeps(new.connections.profiles, old.connections.profiles)
  /\ Keeps(new.rules, old.rules)
  /\ IF old.vault = None THEN new.vault = None
     ELSE /\ new.vault # None
          /\ new.vault = [old.vault EXCEPT !.secrets = new.vault.secrets]
          /\ Keeps(new.vault.secrets, old.vault.secrets)
=============================================================================
