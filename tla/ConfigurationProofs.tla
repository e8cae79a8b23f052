------------------------- MODULE ConfigurationProofs -------------------------
(***************************************************************************)
(* Proofs about the configuration.                                         *)
(*                                                                         *)
(* ConfigurationFiles: readers of the configuration see whole operations   *)
(* only, and the key in memory opens the vault in the file, for any number *)
(* of identifiers, operations and configurations.                          *)
(*                                                                         *)
(* CredentialRequests: the recovery key of the vault is in a file of the   *)
(* user, and no draft of a private key is stored twice unnoticed, for any  *)
(* number of requests, keys and logins, on the server and on the desktop.  *)
(***************************************************************************)
EXTENDS ConfigurationFiles, CredentialRequests, TLAPS

-----------------------------------------------------------------------------
(* The values. *)

\* The instance's names for the values of the catalog.
LEMMA SameCatalog ==
  /\ Promise!Content = Content
  /\ Promise!Connections = Connections /\ Promise!Rule = Rule /\ Promise!Vault = Vault
  /\ \A connections : Promise!Valid(connections) = Valid(connections)
  /\ \A new, old : Promise!Extends(new, old) = Extends(new, old)
<1>1. /\ Promise!Content = Content
      /\ Promise!Connections = Connections /\ Promise!Rule = Rule /\ Promise!Vault = Vault
  BY DEF Promise!Content, Promise!Connections, Promise!Rule, Promise!Vault, Promise!Profile,
         Promise!Auths, Content, Connections, Rule, Vault, Profile, Auths
<1>2. \A connections : Promise!Valid(connections) = Valid(connections)
  <2>1. \A S : Promise!Cardinality(S) = Cardinality(S)
    BY DEF Promise!Cardinality, Cardinality
  <2> QED
    BY <2>1 DEF Promise!Valid, Promise!Stored, Promise!RouteValid, Promise!Eligible,
                Valid, Stored, RouteValid, Eligible
<1>3. \A new, old : Promise!Extends(new, old) = Extends(new, old)
  BY DEF Promise!Extends, Promise!Keeps, Promise!Stored, Extends, Keeps, Stored
<1> QED BY <1>1, <1>2, <1>3

\* An addition is of the type of what it is added to, and keeps it.
LEMMA AddedKeeps ==
  ASSUME NEW S, NEW T, NEW old \in [S -> T \cup {None}], NEW new, DOMAIN new \subseteq S,
         \A x \in DOMAIN new : new[x] \in T
  PROVE  /\ Added(old, new) \in [S -> T \cup {None}]
         /\ Keeps(Added(old, new), old)
BY DEF Added, Keeps, Stored

\* What a plan makes of the source's connections are connections.
LEMMA ImagesTyped ==
  ASSUME NEW source \in Content, NEW options \in Options, NEW plan \in Plans(source),
         Mergeable(source, options), "connections" \in options,
         NEW profs, profs = At(plan.profiles, Images(source, options, plan))
  PROVE  /\ DOMAIN profs \subseteq Profiles /\ \A y \in DOMAIN profs : profs[y] \in Profile
         /\ \A p \in Stored(source.connections.profiles) : plan.profiles[p] \in DOMAIN profs
<1> DEFINE image == Images(source, options, plan)
<1>1. /\ plan.profiles \in [Stored(source.connections.profiles) -> Profiles]
      /\ plan.credentials \in [Secrets(source.vault) -> Credentials]
  BY DEF Plans
<1>2. ASSUME NEW p \in Stored(source.connections.profiles)
      PROVE  image[p] \in Profile
  <2> DEFINE profile == source.connections.profiles[p]
  <2>1. profile \in Profile
    BY DEF Content, Connections, Stored
  <2>2. profile.jumps \subseteq Stored(source.connections.profiles)
    BY <1>2 DEF Mergeable, Valid, RouteValid
  <2>3. profile.credential = None \/ "credentials" \notin options
        \/ profile.credential \in Secrets(source.vault)
    BY <1>2 DEF Mergeable
  <2>4. {plan.profiles[j] : j \in profile.jumps} \in SUBSET Profiles
    BY <1>1, <2>2
  <2>5. (IF profile.credential = None \/ "credentials" \notin options THEN None
         ELSE plan.credentials[profile.credential]) \in Credentials \cup {None}
    BY <1>1, <2>3
  <2> QED BY <2>1, <2>4, <2>5 DEF Images, Profile
<1>3. /\ DOMAIN profs = {plan.profiles[x] : x \in DOMAIN plan.profiles}
      /\ \A y \in DOMAIN profs : profs[y] = image[CHOOSE x \in DOMAIN plan.profiles : plan.profiles[x] = y]
  BY DEF At
<1>4. ASSUME NEW y \in DOMAIN profs
      PROVE  profs[y] \in Profile
  <2>1. (CHOOSE x \in DOMAIN plan.profiles : plan.profiles[x] = y) \in DOMAIN plan.profiles
    BY <1>3
  <2> QED BY <1>1, <1>2, <1>3, <2>1
<1> HIDE DEF image
<1> QED BY <1>1, <1>3, <1>4

LEMMA MergeAdds ==
  ASSUME NEW source \in Content, NEW target \in Content, NEW options \in Options,
         Valid(target.connections), NEW next \in Merges(source, target, options, used)
  PROVE  next \in Content /\ Valid(next.connections) /\ Extends(next, target)
<1> DEFINE sound == {plan \in Plans(source) : Sound(source, target, options, plan, used)}
           numbered(plan) == Numbered(Wanted(source, target, options, plan), used)
<1>1. PICK plan \in sound :
        next \in {Merged(source, target, options, plan, rules) : rules \in numbered(plan)}
  BY DEF Merges
<1>2. PICK rules \in numbered(plan) : next = Merged(source, target, options, plan, rules)
  BY <1>1
<1>3. /\ Mergeable(source, options) /\ Valid(next.connections)
      /\ plan \in Plans(source)
      /\ DOMAIN rules \subseteq Rules
      /\ \A r \in DOMAIN rules : rules[r] \in NewRules(source, target, plan)
  BY DEF Merges, Numbered, Wanted
<1> HIDE DEF sound, numbered
<1> DEFINE image == Images(source, options, plan)
           material == source.vault.secrets
           profs == At(plan.profiles, image)
           creds == At(plan.credentials, material)
<1>4. /\ plan.profiles \in [Stored(source.connections.profiles) -> Profiles]
      /\ plan.credentials \in [Secrets(source.vault) -> Credentials]
  BY <1>3 DEF Plans
<1>5. ASSUME "connections" \in options
      PROVE  /\ Added(target.connections.profiles, profs) \in [Profiles -> Profile \cup {None}]
             /\ Keeps(Added(target.connections.profiles, profs), target.connections.profiles)
  <2>1. DOMAIN profs \subseteq Profiles /\ \A y \in DOMAIN profs : profs[y] \in Profile
    BY <1>3, <1>5, ImagesTyped
  <2>2. target.connections.profiles \in [Profiles -> Profile \cup {None}]
    BY DEF Content, Connections
  <2> HIDE DEF image, profs
  <2> QED BY <2>1, <2>2, AddedKeeps
<1>6. ASSUME source.vault # None, target.vault # None
      PROVE  /\ Added(target.vault.secrets, creds) \in [Credentials -> Materials \cup {None}]
             /\ Keeps(Added(target.vault.secrets, creds), target.vault.secrets)
  <2>1. \A c \in Secrets(source.vault) : material[c] \in Materials
    BY <1>6 DEF Content, Vault, Secrets, Stored
  <2>2. /\ DOMAIN creds = {plan.credentials[x] : x \in DOMAIN plan.credentials}
        /\ \A y \in DOMAIN creds : creds[y] = material[CHOOSE x \in DOMAIN plan.credentials : plan.credentials[x] = y]
    BY DEF At
  <2> HIDE DEF material, creds
  <2>3. DOMAIN creds \subseteq Credentials /\ \A y \in DOMAIN creds : creds[y] \in Materials
    BY <2>1, <2>2, <1>4
  <2>4. target.vault.secrets \in [Credentials -> Materials \cup {None}]
    BY <1>6 DEF Content, Vault
  <2> QED BY <2>3, <2>4, AddedKeeps
<1>7. /\ Added(target.rules, rules) \in [Rules -> Rule \cup {None}]
      /\ Keeps(Added(target.rules, rules), target.rules)
  <2>1. NewRules(source, target, plan) \subseteq Rule
    BY <1>4 DEF NewRules, Rule, Stored, Content
  <2>2. target.rules \in [Rules -> Rule \cup {None}]
    BY DEF Content
  <2> QED BY <1>3, <2>1, <2>2, AddedKeeps
<1>8. next = [connections |->
                IF "connections" \in options
                THEN [groups |-> target.connections.groups \cup source.connections.groups,
                      profiles |-> Added(target.connections.profiles, profs)]
                ELSE target.connections,
              rules |-> Added(target.rules, rules),
              vault |-> IF "credentials" \in options /\ source.vault # None /\ target.vault # None
                        THEN [target.vault EXCEPT !.secrets = Added(target.vault.secrets, creds)]
                        ELSE target.vault]
  BY <1>2 DEF Merged
<1> HIDE DEF profs, creds
<1>9. /\ next.connections \in Connections
      /\ target.connections.groups \subseteq next.connections.groups
      /\ Keeps(next.connections.profiles, target.connections.profiles)
  BY <1>5, <1>8 DEF Content, Connections, Keeps
<1>10. /\ next.rules \in [Rules -> Rule \cup {None}]
       /\ Keeps(next.rules, target.rules)
  BY <1>7, <1>8
<1>11. /\ next.vault \in Vault \cup {None}
       /\ IF target.vault = None THEN next.vault = None
          ELSE /\ next.vault # None
               /\ next.vault = [target.vault EXCEPT !.secrets = next.vault.secrets]
               /\ Keeps(next.vault.secrets, target.vault.secrets)
  BY <1>6, <1>8, NoneAssumption DEF Content, Vault, Keeps
<1>12. next \in Content
  BY <1>8, <1>9, <1>10, <1>11 DEF Content
<1> QED BY <1>3, <1>9, <1>10, <1>11, <1>12 DEF Extends

\* A rule that a new configuration has and the old one had not belongs to a
\* connection of the new one.
NewRulesNamed(new, old) ==
  \A r \in Rules : new.rules[r] \notin {None, old.rules[r]}
                   => new.rules[r].profile \in Stored(new.connections.profiles)

\* A merge copies a rule with its connection, or finds the connection there.
LEMMA MergeNames ==
  ASSUME NEW source \in Content, NEW target \in Content, NEW options \in Options,
         NEW next \in Merges(source, target, options, used)
  PROVE  NewRulesNamed(next, target)
<1> DEFINE sound == {plan \in Plans(source) : Sound(source, target, options, plan, used)}
           numbered(plan) == Numbered(Wanted(source, target, options, plan), used)
<1>1. PICK plan \in sound :
        next \in {Merged(source, target, options, plan, rules) : rules \in numbered(plan)}
  BY DEF Merges
<1>2. PICK rules \in numbered(plan) : next = Merged(source, target, options, plan, rules)
  BY <1>1
<1>3. /\ Mergeable(source, options) /\ plan \in Plans(source)
      /\ \A r \in DOMAIN rules : rules[r] \in Wanted(source, target, options, plan)
  BY DEF Merges, Numbered
<1> HIDE DEF sound, numbered
<1> DEFINE profs == At(plan.profiles, Images(source, options, plan))
<1>4. next.rules = Added(target.rules, rules)
  BY <1>2 DEF Merged
<1> SUFFICES ASSUME NEW r \in Rules, next.rules[r] \notin {None, target.rules[r]}
             PROVE  next.rules[r].profile \in Stored(next.connections.profiles)
  BY DEF NewRulesNamed
<1>5. DOMAIN target.rules = Rules
  BY DEF Content
<1>6. r \in DOMAIN rules /\ next.rules[r] = rules[r]
  BY <1>4, <1>5 DEF Added
<1>7. "network" \in options /\ rules[r] \in NewRules(source, target, plan)
  BY <1>3, <1>6 DEF Wanted
<1>8. "connections" \in options
  BY <1>7 DEF Options
<1>9. PICK p \in DOMAIN plan.profiles : rules[r].profile = plan.profiles[p]
  BY <1>7 DEF NewRules
<1>10. p \in Stored(source.connections.profiles)
  BY <1>3 DEF Plans
<1>11. /\ DOMAIN profs \subseteq Profiles /\ \A y \in DOMAIN profs : profs[y] \in Profile
       /\ plan.profiles[p] \in DOMAIN profs
  BY <1>3, <1>8, <1>10, ImagesTyped
<1>12. next.connections.profiles = Added(target.connections.profiles, profs)
  BY <1>2, <1>8 DEF Merged
<1> HIDE DEF profs
<1>13. DOMAIN target.connections.profiles = Profiles
  BY DEF Content, Connections
<1> QED
  BY <1>6, <1>9, <1>11, <1>12, <1>13, NoneAssumption DEF Added, Stored

-----------------------------------------------------------------------------
(* The inductive invariant. *)

\* What readers see can be read.
SeenValid == Valid(Visible.connections)

\* What is previewed adds to the configuration it was previewed for.
PreviewAdds ==
  prepared # None => Valid(prepared.next.connections) /\ Extends(prepared.next, prepared.target)

\* What a task will store is what it is about.
TaskFits ==
  \A t \in Tasks :
    /\ task[t].op = "saveProfile" => task[t].draft \in Profile
    /\ task[t].op = "saveRule" => task[t].draft \in Rule
    /\ task[t].op = "deleteProfile" => task[t].subject \in Profiles /\ task[t].draft \in Profile
    /\ task[t].op = "deleteCredential" => task[t].subject \in Credentials

\* The files a merge or a recovery has reached are the new ones, the others
\* still what they were.
Behind(content) == \A i \in 1..3 : i < writing.step => files[PartAt[i]] = content[PartAt[i]]
Ahead(content) == \A i \in 1..3 : i >= writing.step => files[PartAt[i]] = content[PartAt[i]]
WritesJournaled ==
  /\ writing.phase # "none" => journal # None /\ writing.step \in 1..4
  /\ writing.phase = "apply" =>
       /\ writing.next \in Content /\ Valid(writing.next.connections)
       /\ Extends(writing.next, journal)
       /\ Behind(writing.next) /\ Ahead(journal)
  /\ writing.phase = "restore" => Behind(journal)

\* The key opens the vault of the file, and the one a roll back would restore.
Opens(held) == key # 0 => (held # None /\ held.key = key)
KeyFits == Opens(files.vault) /\ (journal # None => Opens(journal.vault))

IInv == TypeOK /\ SeenValid /\ PreviewAdds /\ TaskFits /\ WritesJournaled /\ KeyFits

THEOREM InitIInv == Init => IInv
<1> SUFFICES ASSUME Init PROVE IInv
  OBVIOUS
<1> USE DEF Init
<1>1. files \in Content /\ Valid(files.connections)
  BY StartAssumption
<1>2. Stores(files) \subseteq Profiles \cup Credentials \cup Rules
  BY <1>1 DEF Stores, Stored, Secrets, Content, Connections, Vault
<1>3. task \in [Tasks -> Task]
  BY DEF Task, IdleTask, Operations
<1>4. writing \in Writing
  BY DEF Writing, NotWriting
<1>5. TypeOK
  BY <1>1, <1>2, <1>3, <1>4 DEF TypeOK
<1> QED
  BY <1>1, <1>5 DEF IInv, SeenValid, Visible, PreviewAdds, TaskFits, WritesJournaled, KeyFits,
                    Opens, NotWriting, IdleTask

-----------------------------------------------------------------------------
(* The operations on the files, each of which changes one of them. *)

NewConnections == /\ files'.connections \in Connections /\ Valid(files'.connections)
                  /\ files' = [files EXCEPT !.connections = files'.connections]
NewRuleSet == /\ files'.rules \in [Rules -> Rule \cup {None}]
              /\ files' = [files EXCEPT !.rules = files'.rules]
NewVault == /\ files'.vault \in Vault \cup {None}
            /\ files' = [files EXCEPT !.vault = files'.vault]

LEMMA FilesTyped ==
  ASSUME TypeOK
  PROVE  /\ files \in [connections: Connections, rules: [Rules -> Rule \cup {None}],
                       vault: Vault \cup {None}]
         /\ files.connections \in [groups: SUBSET Groups,
                                   profiles: [Profiles -> Profile \cup {None}]]
         /\ profiles \in [Profiles -> Profile \cup {None}]
         /\ files.rules \in [Rules -> Rule \cup {None}]
         /\ None \notin Profile /\ None \notin Rule /\ None \notin Vault
BY NoneAssumption DEF TypeOK, Content, Connections, profiles

LEMMA EditedTyped ==
  ASSUME TypeOK, Reached, NewConnections \/ NewRuleSet \/ NewVault
  PROVE  files' \in Content
BY FilesTyped DEF NewConnections, NewRuleSet, NewVault, Content

LEMMA EditPromised ==
  ASSUME IInv, Reached, UNCHANGED journal, NewConnections \/ NewRuleSet \/ NewVault
  PROVE  files' \in Content /\ SeenValid' /\ Promise!Next
<1>1. Visible = files /\ Visible' = files'
  BY DEF Visible, Reached
<1>2. files' \in Content
  BY EditedTyped DEF IInv
<1>3. Valid(files.connections)
  BY <1>1 DEF IInv, SeenValid
<1>4. CASE NewConnections
  BY <1>1, <1>2, <1>4, SameCatalog DEF NewConnections, Promise!Next, Promise!EditConnections, SeenValid
<1>5. CASE NewRuleSet
  <2>1. files'.connections = files.connections
    BY <1>5, FilesTyped DEF NewRuleSet, IInv
  <2> QED
    BY <1>1, <1>2, <1>3, <1>5, <2>1, SameCatalog DEF NewRuleSet, Promise!Next, Promise!EditRules, SeenValid
<1>6. CASE NewVault
  <2>1. files'.connections = files.connections
    BY <1>6, FilesTyped DEF NewVault, IInv
  <2> QED
    BY <1>1, <1>2, <1>3, <1>6, <2>1, SameCatalog DEF NewVault, Promise!Next, Promise!EditVault, SeenValid
<1> QED BY <1>4, <1>5, <1>6

LEMMA ProfileEdits ==
  ASSUME IInv, NEW t \in Tasks, StoreProfile(t) \/ DropProfile(t) \/ PutProfileBack(t)
  PROVE  NewConnections
<1> USE FilesTyped DEF IInv, NewConnections, Connections, Store, TypeOK
<1>0. SeenValid /\ Reached
  BY DEF StoreProfile, DropProfile, PutProfileBack, Doing
<1>1. CASE StoreProfile(t)
  <2>1. task[t].draft \in Profile
    BY <1>1 DEF TaskFits, StoreProfile, Doing
  <2> QED BY <1>1, <2>1 DEF StoreProfile, Stored
<1>2. CASE DropProfile(t)
  <2> DEFINE p == task[t].subject
  <2>1. /\ files' = [files EXCEPT !.connections.profiles = [profiles EXCEPT ![p] = None]]
        /\ p \in Profiles /\ p \notin Jumps(profiles)
    BY <1>2 DEF DropProfile, WithProfiles, Stored
  <2> HIDE DEF p
  <2>2. Valid(files.connections)
    BY <1>0 DEF SeenValid, Visible, Reached
  <2>3. files'.connections = [files.connections EXCEPT !.profiles = [profiles EXCEPT ![p] = None]]
    BY <2>1
  <2>4. files'.connections \in Connections
    BY <2>1, <2>3
  <2>5. Valid(files'.connections)
    BY <2>1, <2>2, <2>3, SMTT(60) DEF Valid, RouteValid, Jumps, Stored, Eligible, profiles
  <2> QED BY <2>1, <2>3, <2>4, <2>5
<1>3. CASE PutProfileBack(t)
  <2>1. task[t].draft \in Profile /\ task[t].subject \in Profiles
    BY <1>3 DEF TaskFits, PutProfileBack, Doing
  <2> QED BY <1>3, <2>1 DEF PutProfileBack
<1> QED BY <1>1, <1>2, <1>3

LEMMA GroupEdits ==
  ASSUME IInv, NEW g \in Groups, InsertGroup(g) \/ DeleteGroup(g)
  PROVE  NewConnections
<1> USE FilesTyped DEF IInv, NewConnections, Connections, Edit, TypeOK
<1>0. Valid(files.connections)
  BY DEF InsertGroup, DeleteGroup, SeenValid, Visible, Reached
<1>1. CASE InsertGroup(g)
  <2>1. files' = [files EXCEPT !.connections.groups = files.connections.groups \cup {g}]
    BY <1>1 DEF InsertGroup
  <2>2. /\ files'.connections.groups = files.connections.groups \cup {g}
        /\ files'.connections.profiles = files.connections.profiles
        /\ files'.connections \in Connections
    BY <2>1
  <2>3. Valid(files'.connections)
    BY <1>0, <2>2 DEF Valid
  <2> QED BY <2>1, <2>2, <2>3
<1>2. CASE DeleteGroup(g)
  <2> DEFINE next == [p \in Profiles |->
          IF p \in Stored(profiles) /\ profiles[p].group = g
          THEN [profiles[p] EXCEPT !.group = None] ELSE profiles[p]]
  <2>1. files' = [files EXCEPT !.connections =
                    [groups |-> files.connections.groups \ {g}, profiles |-> next]]
    BY <1>2 DEF DeleteGroup, profiles
  <2>2. next \in [Profiles -> Profile \cup {None}]
    BY DEF Stored, Profile
  <2>3. \A p \in Profiles :
          /\ p \in Stored(next) <=> p \in Stored(profiles)
          /\ p \in Stored(profiles) =>
               /\ next[p].jumps = profiles[p].jumps
               /\ next[p].auth = profiles[p].auth /\ next[p].credential = profiles[p].credential
               /\ next[p].group = IF profiles[p].group = g THEN None ELSE profiles[p].group
    BY DEF Stored, Profile
  <2> HIDE DEF next
  <2>4. /\ files'.connections.groups = files.connections.groups \ {g}
        /\ files'.connections.profiles = next
        /\ files'.connections \in Connections
    BY <2>1, <2>2
  <2>5. \A p \in Stored(profiles) : RouteValid(profiles, p) => RouteValid(next, p)
    BY <2>2, <2>3 DEF RouteValid, Eligible, Stored
  <2>6. Valid(files'.connections)
    BY <1>0, <2>2, <2>3, <2>4, <2>5 DEF Valid, Stored, profiles
  <2> QED BY <2>1, <2>4, <2>6
<1> QED BY <1>1, <1>2

LEMMA RuleEdits ==
  ASSUME IInv, \/ \E t \in Tasks : StoreRule(t) \/ DropItsRules(t)
               \/ \E r \in Rules : DeleteRule(r)
  PROVE  NewRuleSet
<1> USE FilesTyped DEF IInv, NewRuleSet, Store, Edit, WithRules, TypeOK
<1>1. ASSUME NEW t \in Tasks, StoreRule(t)
      PROVE  NewRuleSet
  <2>1. task[t].draft \in Rule
    BY <1>1 DEF TaskFits, StoreRule, Doing
  <2> QED BY <1>1, <2>1 DEF StoreRule, Stored
<1>2. ASSUME NEW t \in Tasks, DropItsRules(t)
      PROVE  NewRuleSet
  BY <1>2 DEF DropItsRules
<1>3. ASSUME NEW r \in Rules, DeleteRule(r)
      PROVE  NewRuleSet
  BY <1>3 DEF DeleteRule
<1> QED BY <1>1, <1>2, <1>3

LEMMA ReferenceEdits ==
  ASSUME IInv, NEW t \in Tasks, ClearReferences(t) \/ ClearAllReferences(t)
  PROVE  NewConnections
<1> USE FilesTyped DEF IInv, NewConnections, Connections, Store, TypeOK
<1>0. Valid(files.connections)
  BY DEF ClearReferences, ClearAllReferences, Doing, SeenValid, Visible, Reached
<1>1. CASE ClearReferences(t)
  <2> DEFINE users == {p \in Stored(profiles) : profiles[p].credential = task[t].subject}
             next == [p \in Profiles |->
               IF p \in users THEN [profiles[p] EXCEPT !.credential = None] ELSE profiles[p]]
  <2>1. users \cap Jumps(profiles) = {} /\ files' = [files EXCEPT !.connections.profiles = next]
    BY <1>1 DEF ClearReferences, WithProfiles
  <2>2. next \in [Profiles -> Profile \cup {None}]
    BY DEF Stored, Profile
  <2>3. \A p \in Profiles :
          /\ p \in Stored(next) <=> p \in Stored(profiles)
          /\ p \in Stored(profiles) =>
               /\ next[p].jumps = profiles[p].jumps /\ next[p].group = profiles[p].group
               /\ p \notin users => next[p] = profiles[p]
    BY DEF Stored, Profile
  <2>4. \A p \in Stored(profiles) : profiles[p].jumps \cap users = {}
    BY <2>1 DEF Jumps
  <2> HIDE DEF next, users
  <2>5. /\ files'.connections.groups = files.connections.groups
        /\ files'.connections.profiles = next
        /\ files'.connections \in Connections
    BY <2>1, <2>2
  <2>6. \A p \in Stored(profiles) : RouteValid(profiles, p) => RouteValid(next, p)
    BY <2>2, <2>3, <2>4 DEF RouteValid, Eligible, Stored
  <2>7. Valid(files'.connections)
    BY <1>0, <2>2, <2>3, <2>5, <2>6 DEF Valid, Stored, profiles
  <2> QED BY <2>1, <2>5, <2>7
<1>2. CASE ClearAllReferences(t)
  <2> DEFINE needy == {p \in Stored(profiles) : profiles[p].auth = "secret"}
             next == [p \in Profiles |->
               IF profiles[p] = None THEN None
               ELSE [profiles[p] EXCEPT !.credential = None, !.jumps = @ \ needy]]
  <2>1. /\ files' = [files EXCEPT !.connections = [files.connections EXCEPT !.profiles = next]]
        /\ Valid([files.connections EXCEPT !.profiles = next])
    BY <1>2 DEF ClearAllReferences
  <2>2. next \in [Profiles -> Profile \cup {None}]
    <3>1. ASSUME NEW p \in Profiles, profiles[p] # None
          PROVE  [profiles[p] EXCEPT !.credential = None, !.jumps = @ \ needy] \in Profile
      <4>1. profiles[p] \in Profile
        BY <3>1
      <4> QED BY <4>1 DEF Profile
    <3> QED BY <3>1
  <2> HIDE DEF next
  <2> QED BY <2>1, <2>2
<1> QED BY <1>1, <1>2

LEMMA VaultEdits ==
  ASSUME IInv, \/ \E t \in Tasks : DeleteSecret(t) \/ ClearVault(t)
               \/ Initialize \/ ChangeMasterPassword \/ SaveMaterial
  PROVE  NewVault /\ Opens(files.vault)' /\ key' \in Nat
<1> USE FilesTyped DEF IInv, NewVault, Opens, Vault, Store, VaultEdit, WithVault, TypeOK
<1>1. ASSUME NEW t \in Tasks, DeleteSecret(t)
      PROVE  NewVault /\ Opens(files.vault)' /\ key' \in Nat
  BY <1>1 DEF DeleteSecret, Secrets, KeyFits
<1>2. ASSUME NEW t \in Tasks, ClearVault(t)
      PROVE  NewVault /\ Opens(files.vault)' /\ key' \in Nat
  BY <1>2 DEF ClearVault
<1>3. CASE Initialize
  BY <1>3 DEF Initialize
<1>4. CASE ChangeMasterPassword
  BY <1>4 DEF ChangeMasterPassword
<1>5. CASE SaveMaterial
  BY <1>5 DEF SaveMaterial, KeyFits
<1> QED BY <1>1, <1>2, <1>3, <1>4, <1>5

-----------------------------------------------------------------------------
(* The kinds of steps. *)

Opening == \/ \E t \in Tasks : \/ BeginSaveProfile(t) \/ BeginSaveRule(t) \/ BeginDeleteProfile(t)
                               \/ BeginDeleteCredential(t) \/ BeginClearVault(t)
                               \/ KeepRules(t) \/ Fail(t)
           \/ Unlock \/ Lock \/ Preview \/ Discard
Interruption == GiveUp \/ StayPending \/ Crash \/ Boot
KeepsVault == \/ \E t \in Tasks : \/ StoreProfile(t) \/ DropProfile(t) \/ PutProfileBack(t)
                                  \/ StoreRule(t) \/ DropItsRules(t)
                                  \/ ClearReferences(t) \/ ClearAllReferences(t)
              \/ \E g \in Groups : InsertGroup(g) \/ DeleteGroup(g)
              \/ \E r \in Rules : DeleteRule(r)
SetsVault == \/ \E t \in Tasks : DeleteSecret(t) \/ ClearVault(t)
             \/ Initialize \/ ChangeMasterPassword \/ SaveMaterial
Merging == Commit \/ Apply \/ Accept \/ Restore \/ RemoveJournal

LEMMA KindsOfSteps == Next => Opening \/ Interruption \/ KeepsVault \/ SetsVault \/ Merging
BY DEF Next, ProfileStep, RuleStep, DeletionStep, CredentialStep, MergeStep, Opening,
       Interruption, KeepsVault, SetsVault, Merging

LEMMA Edits ==
  ASSUME IInv, KeepsVault \/ SetsVault
  PROVE  /\ Reached /\ UNCHANGED <<server, process, journal, prepared, writing>>
         /\ NewConnections \/ NewRuleSet \/ NewVault
         /\ used' = used \cup Stores(files')
<1>1. /\ Reached /\ UNCHANGED <<server, process, journal, prepared, writing>>
      /\ used' = used \cup Stores(files')
  BY DEF KeepsVault, SetsVault, StoreProfile, DropProfile, PutProfileBack, StoreRule, DropItsRules,
         ClearReferences, ClearAllReferences, InsertGroup, DeleteGroup, DeleteRule, DeleteSecret,
         ClearVault, Initialize, ChangeMasterPassword, SaveMaterial, Store, Edit, VaultEdit,
         Doing, merging, memory
<1>2. NewConnections \/ NewRuleSet \/ NewVault
  BY ProfileEdits, GroupEdits, RuleEdits, ReferenceEdits, VaultEdits DEF KeepsVault, SetsVault
<1> QED BY <1>1, <1>2

-----------------------------------------------------------------------------
(* The invariant, part by part. *)

LEMMA StoresTyped ==
  ASSUME NEW content \in Content
  PROVE  Stores(content) \subseteq Profiles \cup Credentials \cup Rules
BY DEF Stores, Stored, Secrets, Content, Connections, Vault

\* Every action leaves tasks alone, ends them, or begins what it is about.
LEMMA TasksStay ==
  ASSUME TypeOK, TaskFits, Next
  PROVE  task' \in [Tasks -> Task] /\ TaskFits'
<1>0. task \in [Tasks -> Task] /\ IdleTask \in Task
  BY DEF TypeOK, Task, IdleTask, Operations
<1>1. ASSUME NEW t \in Tasks, NEW entry \in Task, task' = [task EXCEPT ![t] = entry],
             /\ entry.op = "saveProfile" => entry.draft \in Profile
             /\ entry.op = "saveRule" => entry.draft \in Rule
             /\ entry.op = "deleteProfile" => entry.subject \in Profiles /\ entry.draft \in Profile
             /\ entry.op = "deleteCredential" => entry.subject \in Credentials
      PROVE  task' \in [Tasks -> Task] /\ TaskFits'
  BY <1>0, <1>1 DEF TaskFits
<1>2. ASSUME NEW t \in Tasks, Finish(t)
      PROVE  task' \in [Tasks -> Task] /\ TaskFits'
  BY <1>0, <1>1, <1>2 DEF Finish, IdleTask
<1>3. ASSUME NEW t \in Tasks, Continue(t), task[t].step \in 0..3
      PROVE  task' \in [Tasks -> Task] /\ TaskFits'
  <2> DEFINE entry == [task[t] EXCEPT !.step = task[t].step + 1]
  <2>1. task' = [task EXCEPT ![t] = entry]
    BY <1>0, <1>3 DEF Continue
  <2>2. task[t] \in Task
    BY <1>0
  <2>3. entry \in Task
    BY <1>3, <2>2 DEF Task
  <2>4. entry.op = task[t].op /\ entry.draft = task[t].draft /\ entry.subject = task[t].subject
    BY <2>2 DEF Task
  <2> HIDE DEF entry
  <2> QED BY <1>1, <2>1, <2>3, <2>4 DEF TaskFits
<1>4. ASSUME UNCHANGED task
      PROVE  task' \in [Tasks -> Task] /\ TaskFits'
  BY <1>0, <1>4 DEF TaskFits
<1>5. ASSUME NEW t \in Tasks, NEW op \in Operations,
             NEW subject \in Profiles \cup Credentials \cup Rules \cup {None},
             NEW new \in Profile \cup Rule \cup {None}, Begin(t, op, subject, new, {}),
             /\ op = "saveProfile" => new \in Profile
             /\ op = "saveRule" => new \in Rule
             /\ op = "deleteProfile" => subject \in Profiles /\ new \in Profile
             /\ op = "deleteCredential" => subject \in Credentials
      PROVE  task' \in [Tasks -> Task] /\ TaskFits'
  <2> DEFINE entry == [op |-> op, step |-> 1, subject |-> subject, draft |-> new, known |-> {}]
  <2>1. entry \in Task
    BY DEF Task
  <2> QED BY <1>1, <1>5, <2>1 DEF Begin
<1>6. ASSUME NEW t \in Tasks, \/ BeginSaveProfile(t) \/ BeginSaveRule(t) \/ BeginDeleteProfile(t)
                              \/ BeginDeleteCredential(t) \/ BeginClearVault(t)
      PROVE  task' \in [Tasks -> Task] /\ TaskFits'
  <2> USE <1>5, FilesTyped DEF Operations
  <2>1. CASE BeginSaveProfile(t)
    BY <2>1, DraftsAssumption DEF BeginSaveProfile, Stored
  <2>2. CASE BeginSaveRule(t)
    BY <2>2 DEF BeginSaveRule, Stored, Rule
  <2>3. CASE BeginDeleteProfile(t)
    BY <2>3 DEF BeginDeleteProfile, Stored
  <2>4. CASE BeginDeleteCredential(t)
    BY <2>4 DEF BeginDeleteCredential
  <2>5. CASE BeginClearVault(t)
    BY <2>5 DEF BeginClearVault
  <2> QED BY <1>6, <2>1, <2>2, <2>3, <2>4, <2>5
<1>7. ASSUME NEW t \in Tasks, \/ StoreProfile(t) \/ StoreRule(t) \/ DropItsRules(t)
                              \/ PutProfileBack(t) \/ ClearVault(t) \/ Fail(t)
      PROVE  Finish(t)
  BY <1>7 DEF StoreProfile, StoreRule, DropItsRules, PutProfileBack, ClearVault, Fail
<1>8. ASSUME NEW t \in Tasks, DropProfile(t) \/ KeepRules(t) \/ ClearAllReferences(t)
      PROVE  Continue(t) /\ task[t].step \in 0..3
  <2>1. CASE DropProfile(t)
    BY <2>1 DEF DropProfile, Doing
  <2>2. CASE KeepRules(t)
    BY <2>2 DEF KeepRules
  <2>3. CASE ClearAllReferences(t)
    <3>1. Continue(t) /\ task[t].step = 1
      BY <2>3 DEF ClearAllReferences, Doing
    <3> QED BY <3>1
  <2> QED BY <1>8, <2>1, <2>2, <2>3
<1>9. ASSUME NEW t \in Tasks, DeleteSecret(t)
      PROVE  Finish(t) \/ (Continue(t) /\ task[t].step \in 0..3)
  BY <1>9 DEF DeleteSecret, Doing
<1>10. ASSUME NEW t \in Tasks, ClearReferences(t)
       PROVE  task' \in [Tasks -> Task] /\ TaskFits'
  <2> DEFINE entry == [task[t] EXCEPT !.step = 2, !.known = Stored(profiles)]
  <2>1. Finish(t) \/ task' = [task EXCEPT ![t] = entry]
    BY <1>10 DEF ClearReferences, Finish
  <2>2. task[t] \in Task /\ Stored(profiles) \in SUBSET Profiles
    BY <1>0, FilesTyped DEF Stored
  <2>3. [task[t] EXCEPT !.step = 2] \in Task
    BY <2>2 DEF Task
  <2>4. \A e \in Task, known \in SUBSET Profiles : [e EXCEPT !.known = known] \in Task
    BY DEF Task
  <2>6. entry \in Task
    BY <2>2, <2>3, <2>4
  <2>5. entry.op = task[t].op /\ entry.draft = task[t].draft /\ entry.subject = task[t].subject
    BY <2>2 DEF Task
  <2> HIDE DEF entry
  <2> QED BY <1>1, <1>2, <2>1, <2>5, <2>6 DEF TaskFits
<1>11. CASE Crash
  BY <1>0, <1>11 DEF Crash, TaskFits, IdleTask
<1>12. CASE \/ \E g \in Groups : InsertGroup(g) \/ DeleteGroup(g)
            \/ \E r \in Rules : DeleteRule(r)
            \/ Initialize \/ ChangeMasterPassword \/ SaveMaterial \/ Unlock \/ Lock
            \/ MergeStep \/ Boot
  <2>1. UNCHANGED task
    BY <1>12 DEF InsertGroup, DeleteGroup, DeleteRule, Initialize, ChangeMasterPassword,
         SaveMaterial, Unlock, Lock, Edit, VaultEdit, MergeStep, Preview, Discard, Commit, Apply,
         Accept, GiveUp, Restore, RemoveJournal, StayPending, Write, Boot, memory
  <2> QED BY <1>4, <2>1
<1> QED
  BY <1>2, <1>3, <1>6, <1>7, <1>8, <1>9, <1>10, <1>11, <1>12
     DEF Next, ProfileStep, RuleStep, DeletionStep, CredentialStep

LEMMA PreviewStays ==
  ASSUME IInv, Next
  PROVE  prepared' \in Prepared \cup {None} /\ PreviewAdds'
<1> USE DEF IInv, PreviewAdds, TypeOK
<1>1. CASE UNCHANGED prepared
  BY <1>1
<1>2. CASE prepared' = None
  BY <1>2
<1>3. CASE Preview
  <2>1. PICK source \in Sources, options \in Options :
          \E next \in Merges(source, files, options, used) :
            prepared' = IF next = files THEN None
                        ELSE [source |-> source, options |-> options,
                              target |-> files, next |-> next]
    BY <1>3 DEF Preview
  <2>2. PICK next \in Merges(source, files, options, used) :
          prepared' = IF next = files THEN None
                      ELSE [source |-> source, options |-> options,
                            target |-> files, next |-> next]
    BY <2>1
  <2>3. Valid(files.connections)
    BY <1>3 DEF Preview, Reached, SeenValid, Visible
  <2>4. next \in Content /\ Valid(next.connections) /\ Extends(next, files)
    BY <2>3, MergeAdds, SourcesAssumption
  <2> QED BY <2>2, <2>4 DEF Prepared
<1> QED
  BY <1>1, <1>2, <1>3, Edits, KindsOfSteps
     DEF Opening, Interruption, Merging, BeginSaveProfile, BeginSaveRule, BeginDeleteProfile,
         BeginDeleteCredential, BeginClearVault, Begin, KeepRules, Fail, Unlock, Lock, Discard,
         GiveUp, StayPending, Crash, Boot, Commit, Apply, Accept, Restore, RemoveJournal, Write,
         merging, memory

\* A snapshot is its three files.
LEMMA PartsEqual ==
  ASSUME NEW a \in Content, NEW b \in Content, \A i \in 1..3 : a[PartAt[i]] = b[PartAt[i]]
  PROVE  a = b
<1>1. a["connections"] = b["connections"] /\ a["rules"] = b["rules"] /\ a["vault"] = b["vault"]
  BY DEF PartAt
<1> QED BY <1>1 DEF Content

LEMMA WriteReplaces ==
  ASSUME files \in Content, NEW content \in Content, writing \in Writing, writing.step \in 1..4,
         Write(content)
  PROVE  /\ files' \in Content
         /\ writing.step \in 1..3
         /\ \A i \in 1..3 : files'[PartAt[i]] =
              IF i = writing.step THEN content[PartAt[i]] ELSE files[PartAt[i]]
<1>1. CASE writing.step = 1
  BY <1>1 DEF Write, PartAt, Content
<1>2. CASE writing.step = 2
  BY <1>2 DEF Write, PartAt, Content
<1>3. CASE writing.step = 3
  BY <1>3 DEF Write, PartAt, Content
<1> QED BY <1>1, <1>2, <1>3 DEF Write

LEMMA ReadersSee ==
  ASSUME IInv, Next
  PROVE  /\ files' \in Content /\ journal' \in Content \cup {None}
         /\ SeenValid'
         /\ Promise!Next \/ UNCHANGED Visible
<1> USE NoneAssumption DEF IInv, TypeOK
<1>1. CASE UNCHANGED <<files, journal>>
  BY <1>1 DEF SeenValid, Visible
<1>2. CASE KeepsVault \/ SetsVault
  BY <1>2, Edits, EditPromised
<1>3. CASE Opening \/ Interruption
  <2>1. UNCHANGED <<files, journal>>
    BY <1>3 DEF Opening, Interruption, BeginSaveProfile, BeginSaveRule, BeginDeleteProfile,
         BeginDeleteCredential, BeginClearVault, Begin, KeepRules, Fail, Unlock, Lock, Preview,
         Discard, GiveUp, StayPending, Crash, Boot, merging, disk
  <2> QED BY <1>1, <2>1
<1>4. CASE Commit
  BY <1>4 DEF Commit, Reached, SeenValid, Visible
<1>5. CASE Apply
  <2>1. writing.next \in Content /\ journal # None /\ writing.step \in 1..4 /\ journal' = journal
    BY <1>5 DEF Apply, WritesJournaled, Write
  <2>2. files' \in Content
    BY <1>5, <2>1, WriteReplaces DEF Apply
  <2> QED BY <2>1, <2>2 DEF SeenValid, Visible
<1>6. CASE Restore
  <2>1. journal \in Content /\ journal # None /\ writing.step \in 1..4 /\ journal' = journal
    BY <1>6 DEF Restore, WritesJournaled, Write
  <2>2. files' \in Content
    BY <1>6, <2>1, WriteReplaces DEF Restore
  <2> QED BY <2>1, <2>2 DEF SeenValid, Visible
<1>7. CASE Accept
  <2>1. /\ journal # None /\ writing.next \in Content /\ Valid(writing.next.connections)
        /\ Extends(writing.next, journal) /\ Behind(writing.next) /\ writing.step = 4
        /\ journal' = None /\ files' = files
    BY <1>7 DEF Accept, WritesJournaled
  <2>2. files = writing.next
    BY <2>1, PartsEqual DEF Behind
  <2>3. Visible = journal /\ Visible' = files'
    BY <2>1 DEF Visible
  <2> QED BY <2>1, <2>2, <2>3, SameCatalog DEF SeenValid, Promise!Next, Promise!Merge
<1>8. CASE RemoveJournal
  <2>1. /\ journal # None /\ Behind(journal) /\ writing.step = 4
        /\ journal' = None /\ files' = files
    BY <1>8 DEF RemoveJournal, WritesJournaled
  <2>2. files = journal
    BY <2>1, PartsEqual DEF Behind
  <2> QED BY <2>1, <2>2 DEF SeenValid, Visible
<1> QED BY <1>2, <1>3, <1>4, <1>5, <1>6, <1>7, <1>8, KindsOfSteps DEF Merging

LEMMA MergeStays ==
  ASSUME IInv, Next
  PROVE  writing' \in Writing /\ WritesJournaled'
<1> USE NoneAssumption DEF IInv, TypeOK
<1>0. NotWriting \in Writing
  BY DEF NotWriting, Writing
<1>1. CASE Reached /\ UNCHANGED <<journal, writing>>
  BY <1>1 DEF WritesJournaled, Reached
<1>2. CASE UNCHANGED <<files, journal, writing>>
  BY <1>2 DEF WritesJournaled, Behind, Ahead
<1>3. CASE writing' = NotWriting
  BY <1>0, <1>3 DEF WritesJournaled, NotWriting
<1>4. ASSUME journal # None, journal' = journal,
             writing' = [NotWriting EXCEPT !.phase = "restore", !.step = 1]
      PROVE  writing' \in Writing /\ WritesJournaled'
  <2>1. writing' = [phase |-> "restore", step |-> 1, next |-> None, source |-> None, options |-> {}]
    BY <1>4 DEF NotWriting
  <2>2. writing' \in Writing
    BY <2>1 DEF Writing
  <2>3. /\ writing'.phase = "restore" /\ writing'.step = 1
        /\ \A i \in 1..3 : ~(i < writing'.step)
    BY <2>1
  <2> QED BY <1>4, <2>2, <2>3 DEF WritesJournaled, Behind
<1>5. CASE Commit
  <2>1. /\ journal' = files /\ files' = files /\ prepared \in Prepared
        /\ prepared.target = files /\ PreviewAdds
        /\ writing' = [phase |-> "apply", step |-> 1, next |-> prepared.next,
                       source |-> prepared.source, options |-> prepared.options]
    BY <1>5 DEF Commit
  <2>2. prepared.next \in Content /\ Valid(prepared.next.connections) /\ Extends(prepared.next, files)
    BY <1>5, <2>1 DEF Prepared, PreviewAdds, Commit
  <2>3. writing' \in Writing
    BY <2>1 DEF Writing, Prepared
  <2> QED BY <2>1, <2>2, <2>3 DEF WritesJournaled, Behind, Ahead
<1>6. ASSUME NEW content \in Content, Write(content), writing.phase # "none", Behind(content)
      PROVE  /\ writing' \in Writing /\ writing'.step \in 1..4
             /\ writing'.phase = writing.phase /\ writing'.next = writing.next
             /\ journal' = journal
             /\ Behind(content)'
             /\ \A other : Ahead(other) => \A i \in 1..3 : i >= writing'.step =>
                  files'[PartAt[i]] = other[PartAt[i]]
  <2>1. writing.step \in 1..4
    BY <1>6 DEF WritesJournaled
  <2>2. writing' = [writing EXCEPT !.step = writing.step + 1] /\ journal' = journal
    BY <1>6 DEF Write
  <2>3. /\ writing.step \in 1..3
        /\ \A i \in 1..3 : files'[PartAt[i]] =
             IF i = writing.step THEN content[PartAt[i]] ELSE files[PartAt[i]]
    BY <1>6, <2>1, WriteReplaces
  <2>4. writing' \in Writing /\ writing'.step = writing.step + 1
    BY <2>2, <2>3 DEF Writing
  <2>5. writing'.phase = writing.phase /\ writing'.next = writing.next
    BY <2>2 DEF Writing
  <2>6. Behind(content)'
    BY <1>6, <2>3, <2>4 DEF Behind
  <2>7. \A other : Ahead(other) => \A i \in 1..3 : i >= writing'.step =>
                  files'[PartAt[i]] = other[PartAt[i]]
    BY <2>3, <2>4 DEF Ahead
  <2> QED BY <2>2, <2>3, <2>4, <2>5, <2>6, <2>7
<1>7. CASE Apply
  <2>1. /\ writing.next \in Content /\ Valid(writing.next.connections) /\ journal # None
        /\ Extends(writing.next, journal) /\ Behind(writing.next) /\ Ahead(journal)
        /\ writing.phase = "apply" /\ Write(writing.next)
    BY <1>7 DEF Apply, WritesJournaled
  <2>2. /\ writing' \in Writing /\ writing'.step \in 1..4
        /\ writing'.phase = "apply" /\ writing'.next = writing.next
        /\ journal' = journal /\ Behind(writing.next)'
        /\ \A i \in 1..3 : i >= writing'.step => files'[PartAt[i]] = journal[PartAt[i]]
    BY <1>6, <2>1
  <2>3. Ahead(journal)'
    BY <2>2 DEF Ahead
  <2> QED BY <2>1, <2>2, <2>3 DEF WritesJournaled
<1>8. CASE Restore
  <2>1. /\ journal \in Content /\ journal # None /\ Behind(journal)
        /\ writing.phase = "restore" /\ Write(journal)
    BY <1>8 DEF Restore, WritesJournaled
  <2>2. /\ writing' \in Writing /\ writing'.step \in 1..4
        /\ writing'.phase = "restore"
        /\ journal' = journal /\ Behind(journal)'
    BY <1>6, <2>1
  <2> QED BY <2>1, <2>2 DEF WritesJournaled
<1>9. CASE KeepsVault \/ SetsVault
  BY <1>1, <1>9, Edits
<1>10. CASE Opening
  <2>1. UNCHANGED <<files, journal, writing>>
    BY <1>10 DEF Opening, BeginSaveProfile, BeginSaveRule, BeginDeleteProfile,
         BeginDeleteCredential, BeginClearVault, Begin, KeepRules, Fail, Unlock, Lock, Preview,
         Discard, merging, disk
  <2> QED BY <1>2, <2>1
<1>11. CASE GiveUp \/ Boot
  BY <1>2, <1>4, <1>11 DEF GiveUp, Boot, disk, WritesJournaled
<1>12. CASE StayPending \/ Crash \/ Accept \/ RemoveJournal
  BY <1>3, <1>12 DEF StayPending, Crash, Accept, RemoveJournal
<1> QED
  BY <1>5, <1>7, <1>8, <1>9, <1>10, <1>11, <1>12, KindsOfSteps DEF Interruption, Merging

LEMMA KeyStays ==
  ASSUME IInv, Next
  PROVE  key' \in Nat /\ KeyFits'
<1> USE NoneAssumption DEF IInv, TypeOK, KeyFits, Opens
<1>1. CASE UNCHANGED <<files, journal, key>>
  BY <1>1
<1>2. CASE UNCHANGED <<files, journal>> /\ key' = 0
  BY <1>2
<1>3. CASE Unlock
  BY <1>3, FilesTyped DEF Unlock, Reached, disk, Vault
<1>4. CASE Opening /\ ~Unlock
  <2>1. UNCHANGED <<files, journal>> /\ (key' = key \/ key' = 0)
    BY <1>4 DEF Opening, BeginSaveProfile, BeginSaveRule, BeginDeleteProfile,
         BeginDeleteCredential, BeginClearVault, Begin, KeepRules, Fail, Lock, Preview,
         Discard, merging, disk
  <2> QED BY <1>1, <1>2, <2>1
<1>5. CASE Interruption
  <2>1. UNCHANGED <<files, journal>> /\ (key' = key \/ key' = 0)
    BY <1>5 DEF Interruption, GiveUp, StayPending, Crash, Boot, disk, memory
  <2> QED BY <1>1, <1>2, <2>1
<1>6. CASE KeepsVault
  <2>1. Reached /\ UNCHANGED journal
    BY <1>6, Edits
  <2>2. NewConnections \/ NewRuleSet
    BY <1>6, ProfileEdits, GroupEdits, RuleEdits, ReferenceEdits DEF KeepsVault
  <2>3. files'.vault = files.vault
    BY <2>2, FilesTyped DEF NewConnections, NewRuleSet
  <2>4. UNCHANGED key
    BY <1>6 DEF KeepsVault, StoreProfile, DropProfile, PutProfileBack, StoreRule, DropItsRules,
         ClearReferences, ClearAllReferences, InsertGroup, DeleteGroup, DeleteRule, Edit, memory
  <2> QED BY <2>1, <2>3, <2>4 DEF Reached
<1>7. CASE SetsVault
  <2>1. Reached /\ UNCHANGED journal
    BY <1>7, Edits
  <2>2. Opens(files.vault)' /\ key' \in Nat
    BY <1>7, VaultEdits DEF SetsVault
  <2> QED BY <2>1, <2>2 DEF Reached
<1>8. CASE Commit
  BY <1>8 DEF Commit
<1>9. CASE Apply
  <2>1. /\ writing.next \in Content /\ journal \in Content /\ journal # None
        /\ Extends(writing.next, journal) /\ writing.step \in 1..4 /\ Write(writing.next)
    BY <1>9 DEF Apply, WritesJournaled
  <2>2. /\ writing.step \in 1..3
        /\ files'[PartAt[3]] = IF 3 = writing.step THEN writing.next[PartAt[3]] ELSE files[PartAt[3]]
    BY <2>1, WriteReplaces
  <2>3. files'.vault = writing.next.vault \/ files'.vault = files.vault
    BY <2>2 DEF PartAt
  <2>4. Opens(journal.vault) => Opens(writing.next.vault)
    BY <2>1 DEF Extends, Content, Vault
  <2>5. UNCHANGED <<journal, key>>
    BY <2>1 DEF Write, memory
  <2> QED BY <2>1, <2>3, <2>4, <2>5
<1>10. CASE Restore
  <2>1. journal \in Content /\ journal # None /\ writing.step \in 1..4 /\ Write(journal)
    BY <1>10 DEF Restore, WritesJournaled
  <2>2. files'[PartAt[3]] = IF 3 = writing.step THEN journal[PartAt[3]] ELSE files[PartAt[3]]
    BY <2>1, WriteReplaces
  <2>3. files'.vault = journal.vault \/ files'.vault = files.vault
    BY <2>2 DEF PartAt
  <2>4. UNCHANGED <<journal, key>>
    BY <2>1 DEF Write, memory
  <2> QED BY <2>1, <2>3, <2>4
<1>11. CASE Accept \/ RemoveJournal
  BY <1>11 DEF Accept, RemoveJournal, memory
<1> QED
  BY <1>3, <1>4, <1>5, <1>6, <1>7, <1>8, <1>9, <1>10, <1>11, KindsOfSteps DEF Merging

LEMMA RestTyped ==
  ASSUME IInv, Next
  PROVE  /\ server' \in Deployments /\ process' \in {"down", "recovering", "up"}
         /\ keys' \in Nat /\ edits' \in Nat
         /\ used' \subseteq Profiles \cup Credentials \cup Rules
<1> USE DEF IInv, TypeOK
<1>1. /\ server' \in Deployments /\ process' \in {"down", "recovering", "up"}
  <2>1. CASE Opening \/ Interruption
    BY <2>1 DEF Opening, Interruption, BeginSaveProfile, BeginSaveRule, BeginDeleteProfile,
         BeginDeleteCredential, BeginClearVault, Begin, KeepRules, Fail, Unlock, Lock, Preview,
         Discard, GiveUp, StayPending, Crash, Boot
  <2>2. CASE KeepsVault \/ SetsVault
    BY <2>2, Edits
  <2>3. CASE Merging
    BY <2>3 DEF Merging, Commit, Apply, Accept, Restore, RemoveJournal, Write
  <2> QED BY <2>1, <2>2, <2>3, KindsOfSteps
<1>2. edits' \in Nat
  <2>1. UNCHANGED edits \/ Count
    <3>1. CASE Opening \/ Interruption
      BY <3>1 DEF Opening, Interruption, BeginSaveProfile, BeginSaveRule, BeginDeleteProfile,
           BeginDeleteCredential, BeginClearVault, Begin, KeepRules, Fail, Unlock, Lock, Preview,
           Discard, GiveUp, StayPending, Crash, Boot, counters
    <3>2. CASE KeepsVault \/ SetsVault
      BY <3>2 DEF KeepsVault, SetsVault, StoreProfile, DropProfile, PutProfileBack, StoreRule,
           DropItsRules, ClearReferences, ClearAllReferences, InsertGroup, DeleteGroup, DeleteRule,
           DeleteSecret, ClearVault, Initialize, ChangeMasterPassword, SaveMaterial, Store, Edit,
           VaultEdit
    <3>3. CASE Merging
      BY <3>3 DEF Merging, Commit, Apply, Accept, Restore, RemoveJournal, Write, counters
    <3> QED BY <3>1, <3>2, <3>3, KindsOfSteps
  <2> QED BY <2>1 DEF Count
<1>3. keys' \in Nat
  <2>1. UNCHANGED keys \/ keys' = keys + 1
    <3>1. CASE Opening \/ Interruption
      BY <3>1 DEF Opening, Interruption, BeginSaveProfile, BeginSaveRule, BeginDeleteProfile,
           BeginDeleteCredential, BeginClearVault, Begin, KeepRules, Fail, Unlock, Lock, Preview,
           Discard, GiveUp, StayPending, Crash, Boot, counters
    <3>2. CASE KeepsVault \/ SetsVault
      BY <3>2 DEF KeepsVault, SetsVault, StoreProfile, DropProfile, PutProfileBack, StoreRule,
           DropItsRules, ClearReferences, ClearAllReferences, InsertGroup, DeleteGroup, DeleteRule,
           DeleteSecret, ClearVault, Initialize, ChangeMasterPassword, SaveMaterial, Store, Edit
    <3>3. CASE Merging
      BY <3>3 DEF Merging, Commit, Apply, Accept, Restore, RemoveJournal, Write, counters
    <3> QED BY <3>1, <3>2, <3>3, KindsOfSteps
  <2> QED BY <2>1
<1>4. used' \subseteq Profiles \cup Credentials \cup Rules
  <2>1. UNCHANGED used \/ used' = used \cup Stores(files') \/ used' = used \cup Stores(files)
    <3>1. CASE Opening \/ Interruption
      BY <3>1 DEF Opening, Interruption, BeginSaveProfile, BeginSaveRule, BeginDeleteProfile,
           BeginDeleteCredential, BeginClearVault, Begin, KeepRules, Fail, Unlock, Lock, Preview,
           Discard, GiveUp, StayPending, Crash, Boot, counters
    <3>2. CASE KeepsVault \/ SetsVault
      BY <3>2, Edits
    <3>3. CASE Merging
      BY <3>3 DEF Merging, Commit, Apply, Accept, Restore, RemoveJournal, Write, counters
    <3> QED BY <3>1, <3>2, <3>3, KindsOfSteps
  <2> QED BY <2>1, StoresTyped, ReadersSee
<1> QED BY <1>1, <1>2, <1>3, <1>4

THEOREM NextIInv == IInv /\ [Next]_vars => IInv'
<1> SUFFICES ASSUME IInv, [Next]_vars PROVE IInv'
  OBVIOUS
<1>1. CASE Next
  BY <1>1, ReadersSee, TasksStay, PreviewStays, MergeStays, KeyStays, RestTyped DEF IInv, TypeOK
<1>2. CASE UNCHANGED vars
  BY <1>2 DEF vars, disk, memory, counters, IInv, TypeOK, SeenValid, Visible, PreviewAdds, TaskFits,
              WritesJournaled, Behind, Ahead, KeyFits, Opens
<1> QED BY <1>1, <1>2

\* The inductive invariant holds in every state.
THEOREM ConfigurationInvariant == Spec => []IInv
BY InitIInv, NextIInv, PTL DEF Spec

\* Every state of ConfigurationFiles is well typed.
THEOREM ConfigurationTypeCorrect == Spec => []TypeOK
BY ConfigurationInvariant, PTL DEF IInv

\* The key in memory is the one of the vault in the file.
THEOREM KeyOpens == Spec => []KeyOpensVault
<1>1. IInv => KeyOpensVault
  BY DEF IInv, KeyFits, Opens, KeyOpensVault
<1> QED BY <1>1, ConfigurationInvariant, PTL

\* Whatever fails and wherever the process stops, what readers see changes by
\* whole operations: ConfigurationFiles implements Configuration.
THEOREM WholeOperations == Spec => ImplementsConfiguration
<1>1. Init => Promise!Init
  BY StartAssumption, SameCatalog DEF Init, Promise!Init, Visible
<1>2. IInv /\ [Next]_vars => [Promise!Next]_Visible
  BY ReadersSee DEF vars, disk, Visible
<1> QED
  BY <1>1, <1>2, ConfigurationInvariant, PTL DEF Spec, ImplementsConfiguration, Promise!Spec

-----------------------------------------------------------------------------
(* Rules name connections. *)

\* One operation at a time works on a connection's rules: the network gate on
\* the server, the main thread on the desktop.
NetworkOps == {"deleteProfile", "saveRule"}
OneAtATime ==
  /\ \A t, u \in Tasks : task[t].op \in NetworkOps /\ task[u].op \in NetworkOps => t = u
  /\ ~server => \A t, u \in Tasks : ~Idle(t) /\ ~Idle(u) => t = u

\* The connection whose route was checked is there until its rule is stored.
RulesFit ==
  \A t \in Tasks : task[t].op = "saveRule" =>
    task[t].draft.profile \in Stored(Visible.connections.profiles)

\* What is previewed, and what a merge writes.
MergesNamed ==
  /\ prepared # None => NewRulesNamed(prepared.next, prepared.target)
  /\ writing.phase = "apply" => NewRulesNamed(writing.next, journal)

RuleInv == IInv /\ OneAtATime /\ RulesFit /\ MergesNamed

BeginsTask(t) == \/ BeginSaveProfile(t) \/ BeginSaveRule(t) \/ BeginDeleteProfile(t)
                 \/ BeginDeleteCredential(t) \/ BeginClearVault(t)

\* Only an operation that begins is another one than before.
LEMMA OperationsStay ==
  ASSUME TypeOK, Next, \A t \in Tasks : ~BeginsTask(t)
  PROVE  \A t \in Tasks : \/ task'[t].op = "none"
                          \/ task'[t].op = task[t].op /\ task'[t].draft = task[t].draft
<1>0. task \in [Tasks -> Task]
  BY DEF TypeOK
<1> DEFINE Stays == \A t \in Tasks : \/ task'[t].op = "none"
                                     \/ task'[t].op = task[t].op /\ task'[t].draft = task[t].draft
<1> SUFFICES Stays
  OBVIOUS
<1>1. CASE UNCHANGED task
  BY <1>1
<1>2. ASSUME NEW t \in Tasks, Finish(t)
      PROVE  Stays
  BY <1>0, <1>2 DEF Finish, IdleTask
<1>3. ASSUME NEW t \in Tasks, NEW entry,
             task' = [task EXCEPT ![t] = entry], entry.op = task[t].op, entry.draft = task[t].draft
      PROVE  Stays
  BY <1>0, <1>3
<1>4. ASSUME NEW t \in Tasks, Continue(t)
      PROVE  Stays
  <2>1. PICK entry : entry = [task[t] EXCEPT !.step = task[t].step + 1]
    OBVIOUS
  <2>2. task' = [task EXCEPT ![t] = entry]
    BY <1>4, <2>1 DEF Continue
  <2>3. entry.op = task[t].op /\ entry.draft = task[t].draft
    BY <1>0, <2>1 DEF Task
  <2> QED BY <1>3, <2>2, <2>3
<1>5. ASSUME NEW t \in Tasks, ClearReferences(t)
      PROVE  Stays
  <2>1. PICK entry : entry = [task[t] EXCEPT !.step = 2, !.known = Stored(profiles)]
    OBVIOUS
  <2>2. Finish(t) \/ task' = [task EXCEPT ![t] = entry]
    BY <1>5, <2>1 DEF ClearReferences, Finish
  <2>3. entry.op = task[t].op /\ entry.draft = task[t].draft
    BY <1>0, <2>1 DEF Task
  <2> QED BY <1>2, <1>3, <2>2, <2>3
<1>6. CASE Crash
  BY <1>6 DEF Crash, IdleTask
<1>7. ASSUME NEW t \in Tasks, \/ StoreProfile(t) \/ StoreRule(t) \/ DropItsRules(t)
                              \/ PutProfileBack(t) \/ ClearVault(t) \/ Fail(t)
                              \/ DropProfile(t) \/ KeepRules(t) \/ ClearAllReferences(t)
                              \/ DeleteSecret(t)
      PROVE  Finish(t) \/ Continue(t)
  BY <1>7 DEF StoreProfile, StoreRule, DropItsRules, PutProfileBack, ClearVault, Fail,
              DropProfile, KeepRules, ClearAllReferences, DeleteSecret
<1>8. CASE \/ \E g \in Groups : InsertGroup(g) \/ DeleteGroup(g)
           \/ \E r \in Rules : DeleteRule(r)
           \/ Initialize \/ ChangeMasterPassword \/ SaveMaterial \/ Unlock \/ Lock
           \/ MergeStep \/ Boot
  <2>1. UNCHANGED task
    BY <1>8 DEF InsertGroup, DeleteGroup, DeleteRule, Initialize, ChangeMasterPassword,
         SaveMaterial, Unlock, Lock, Edit, VaultEdit, MergeStep, Preview, Discard, Commit, Apply,
         Accept, GiveUp, Restore, RemoveJournal, StayPending, Write, Boot, memory
  <2> QED BY <1>1, <2>1
<1> HIDE DEF Stays
<1> QED
  BY <1>2, <1>4, <1>5, <1>6, <1>7, <1>8
     DEF Next, ProfileStep, RuleStep, DeletionStep, CredentialStep, BeginsTask

\* What begins: one operation, by itself among its kind.
LEMMA OperationBegins ==
  ASSUME TypeOK, NEW t \in Tasks, BeginsTask(t)
  PROVE  /\ Free /\ Reached /\ Idle(t)
         /\ UNCHANGED <<server, files, journal, prepared, writing>>
         /\ \A u \in Tasks : u # t => task'[u] = task[u]
         /\ task'[t].op \in NetworkOps => NetworkFree
         /\ task'[t].op = "saveRule" => task'[t].draft.profile \in Stored(profiles)
<1>0. task \in [Tasks -> Task]
  BY DEF TypeOK
<1>1. ASSUME NEW op, NEW subject, NEW new, Begin(t, op, subject, new, {})
      PROVE  /\ Free /\ Reached /\ Idle(t)
             /\ UNCHANGED <<server, files, journal, prepared, writing>>
             /\ \A u \in Tasks : u # t => task'[u] = task[u]
             /\ task'[t].op = op /\ task'[t].draft = new
  BY <1>0, <1>1 DEF Begin, merging
<1>2. CASE BeginSaveRule(t)
  <2>1. PICK p \in Stored(profiles), kind \in Kinds, r \in Stored(files.rules) \cup {None} :
          Begin(t, "saveRule", r, [profile |-> p, kind |-> kind], {})
    BY <1>2 DEF BeginSaveRule
  <2> QED BY <1>1, <1>2, <2>1 DEF BeginSaveRule
<1>3. CASE BeginDeleteProfile(t)
  BY <1>1, <1>3 DEF BeginDeleteProfile
<1>4. CASE BeginSaveProfile(t)
  <2>1. PICK profile \in Drafts, p \in Stored(profiles) \cup {None} :
          Begin(t, "saveProfile", p, profile, {})
    BY <1>4 DEF BeginSaveProfile
  <2> QED BY <1>1, <2>1 DEF NetworkOps
<1>5. CASE BeginDeleteCredential(t)
  BY <1>1, <1>5 DEF BeginDeleteCredential, NetworkOps
<1>6. CASE BeginClearVault(t)
  BY <1>1, <1>6 DEF BeginClearVault, NetworkOps
<1> QED BY <1>2, <1>3, <1>4, <1>5, <1>6 DEF BeginsTask

LEMMA ServerStays ==
  ASSUME IInv, Next
  PROVE  server' = server
<1>1. CASE Opening \/ Interruption
  BY <1>1 DEF Opening, Interruption, BeginSaveProfile, BeginSaveRule, BeginDeleteProfile,
       BeginDeleteCredential, BeginClearVault, Begin, KeepRules, Fail, Unlock, Lock, Preview,
       Discard, GiveUp, StayPending, Crash, Boot
<1>2. CASE KeepsVault \/ SetsVault
  BY <1>2, Edits
<1>3. CASE Merging
  BY <1>3 DEF Merging, Commit, Apply, Accept, Restore, RemoveJournal, Write
<1> QED BY <1>1, <1>2, <1>3, KindsOfSteps

LEMMA OneAtATimeStays ==
  ASSUME IInv, OneAtATime, Next
  PROVE  OneAtATime'
<1>1. ASSUME NEW t \in Tasks, BeginsTask(t)
      PROVE  OneAtATime'
  <2>1. /\ Free /\ Idle(t) /\ server' = server
        /\ \A u \in Tasks : u # t => task'[u] = task[u]
        /\ task'[t].op \in NetworkOps => NetworkFree
    BY <1>1, OperationBegins DEF IInv
  <2>2. ASSUME task'[t].op \in NetworkOps
        PROVE  \A u \in Tasks : task[u].op \notin NetworkOps
    BY <2>1, <2>2 DEF Free, NetworkFree, Holds, NetworkOps, Idle
  <2> QED BY <2>1, <2>2 DEF OneAtATime, Free, Idle
<1>2. ASSUME \A t \in Tasks : ~BeginsTask(t)
      PROVE  OneAtATime'
  <2>1. \A t \in Tasks : task'[t].op \in {"none", task[t].op}
    BY <1>2, OperationsStay DEF IInv
  <2> QED BY <2>1, ServerStays DEF OneAtATime, Idle, NetworkOps
<1> QED BY <1>1, <1>2

\* Readers see an edit, the end of a merge, or nothing of a step.
LEMMA SeenSteps ==
  ASSUME IInv, Next
  PROVE  \/ (KeepsVault \/ SetsVault) /\ Visible = files /\ Visible' = files'
         \/ /\ Accept /\ writing.phase = "apply"
            /\ Visible = journal /\ Visible' = writing.next /\ Extends(writing.next, journal)
         \/ Visible' = Visible
<1> USE NoneAssumption DEF IInv, TypeOK
<1>1. CASE KeepsVault \/ SetsVault
  BY <1>1, Edits DEF Visible, Reached
<1>2. CASE Opening \/ Interruption
  BY <1>2 DEF Opening, Interruption, BeginSaveProfile, BeginSaveRule, BeginDeleteProfile,
       BeginDeleteCredential, BeginClearVault, Begin, KeepRules, Fail, Unlock, Lock, Preview,
       Discard, GiveUp, StayPending, Crash, Boot, merging, disk, Visible
<1>3. CASE Commit
  BY <1>3 DEF Commit, Reached, Visible
<1>4. CASE Apply
  BY <1>4 DEF Apply, Write, WritesJournaled, Visible
<1>5. CASE Restore
  BY <1>5 DEF Restore, Write, WritesJournaled, Visible
<1>6. CASE Accept
  <2>1. /\ journal # None /\ writing.next \in Content
        /\ Extends(writing.next, journal) /\ Behind(writing.next) /\ writing.step = 4
        /\ journal' = None /\ files' = files
    BY <1>6 DEF Accept, WritesJournaled
  <2>2. files = writing.next
    BY <2>1, PartsEqual DEF Behind
  <2> QED BY <1>6, <2>1, <2>2 DEF Accept, Visible
<1>7. CASE RemoveJournal
  <2>1. /\ journal # None /\ Behind(journal) /\ writing.step = 4
        /\ journal' = None /\ files' = files
    BY <1>7 DEF RemoveJournal, WritesJournaled
  <2>2. files = journal
    BY <2>1, PartsEqual DEF Behind
  <2> QED BY <2>1, <2>2 DEF Visible
<1> QED BY <1>1, <1>2, <1>3, <1>4, <1>5, <1>6, <1>7, KindsOfSteps DEF Merging

\* A connection goes only when it is deleted.
LEMMA ConnectionsStay ==
  ASSUME IInv, Next, \A t \in Tasks : ~DropProfile(t)
  PROVE  Stored(Visible.connections.profiles) \subseteq Stored(Visible'.connections.profiles)
<1> DEFINE Kept == Stored(files.connections.profiles) \subseteq Stored(files'.connections.profiles)
<1>0. /\ files.connections.profiles \in [Profiles -> Profile \cup {None}] /\ None \notin Profile
      /\ files \in [connections: Connections, rules: [Rules -> Rule \cup {None}],
                    vault: Vault \cup {None}]
      /\ files.connections \in [groups: SUBSET Groups, profiles: [Profiles -> Profile \cup {None}]]
  BY FilesTyped DEF IInv, profiles
<1>1. ASSUME NEW t \in Tasks, StoreProfile(t) \/ PutProfileBack(t)
      PROVE  Kept
  <2>1. task[t].draft \in Profile
    BY <1>1 DEF StoreProfile, PutProfileBack, Doing, IInv, TaskFits
  <2>2. PICK p \in Profiles \cup {task[t].subject} :
          files' = [files EXCEPT !.connections = [files.connections EXCEPT !.profiles[p] = task[t].draft]]
    BY <1>1 DEF StoreProfile, PutProfileBack, Store
  <2>3. files'.connections.profiles = [files.connections.profiles EXCEPT ![p] = task[t].draft]
    BY <1>0, <2>2
  <2> QED BY <1>0, <2>1, <2>3 DEF Stored
<1>2. ASSUME NEW t \in Tasks, ClearReferences(t)
      PROVE  Kept
  <2> DEFINE users == {p \in Stored(profiles) : profiles[p].credential = task[t].subject}
             next == [p \in Profiles |->
               IF p \in users THEN [profiles[p] EXCEPT !.credential = None] ELSE profiles[p]]
  <2>1. files'.connections.profiles = next
    BY <1>0, <1>2 DEF ClearReferences, Store, WithProfiles
  <2>2. \A p \in Profiles : profiles[p] \in Profile => [profiles[p] EXCEPT !.credential = None] \in Profile
    BY DEF Profile
  <2>3. ASSUME NEW p \in Stored(profiles)
        PROVE  next[p] # None
    <3>1. p \in Profiles /\ profiles[p] \in Profile
      BY <1>0 DEF Stored, profiles
    <3> HIDE DEF users
    <3> QED BY <1>0, <2>2, <3>1
  <2> QED BY <1>0, <2>1, <2>3 DEF Stored, profiles
<1>3. ASSUME NEW t \in Tasks, ClearAllReferences(t)
      PROVE  Kept
  <2> DEFINE needy == {p \in Stored(profiles) : profiles[p].auth = "secret"}
             next == [p \in Profiles |->
               IF profiles[p] = None THEN None
               ELSE [profiles[p] EXCEPT !.credential = None, !.jumps = @ \ needy]]
  <2>1. files'.connections.profiles = next
    BY <1>0, <1>3 DEF ClearAllReferences, Store
  <2>2. \A p \in Profiles : profiles[p] \in Profile =>
          [profiles[p] EXCEPT !.credential = None, !.jumps = @ \ needy] \in Profile
    BY DEF Profile
  <2>3. ASSUME NEW p \in Stored(profiles)
        PROVE  next[p] # None
    <3>1. p \in Profiles /\ profiles[p] \in Profile /\ profiles[p] # None
      BY <1>0 DEF Stored, profiles
    <3> HIDE DEF needy
    <3> QED BY <1>0, <2>2, <3>1
  <2> QED BY <1>0, <2>1, <2>3 DEF Stored, profiles
<1>4. ASSUME NEW g \in Groups, DeleteGroup(g)
      PROVE  Kept
  <2> DEFINE next == [p \in Profiles |->
          IF p \in Stored(profiles) /\ profiles[p].group = g
          THEN [profiles[p] EXCEPT !.group = None] ELSE profiles[p]]
  <2>1. files'.connections.profiles = next
    BY <1>0, <1>4 DEF DeleteGroup, Edit, profiles
  <2>2. \A p \in Profiles : profiles[p] \in Profile => [profiles[p] EXCEPT !.group = None] \in Profile
    BY DEF Profile
  <2>3. \A p \in Stored(profiles) : next[p] # None
    BY <1>0, <2>2 DEF Stored, profiles
  <2> QED BY <1>0, <2>1, <2>3 DEF Stored, profiles
<1>5. ASSUME NEW g \in Groups, InsertGroup(g)
      PROVE  Kept
  BY <1>0, <1>5 DEF InsertGroup, Edit
<1>6. ASSUME NewRuleSet \/ NewVault
      PROVE  Kept
  BY <1>0, <1>6 DEF NewRuleSet, NewVault
<1>7. KeepsVault \/ SetsVault => Kept
  BY <1>1, <1>2, <1>3, <1>4, <1>5, <1>6, RuleEdits, VaultEdits DEF KeepsVault, SetsVault
<1>8. ASSUME Extends(writing.next, journal), journal \in Content, writing.next \in Content
      PROVE  Stored(journal.connections.profiles) \subseteq Stored(writing.next.connections.profiles)
  BY <1>8 DEF Extends, Keeps, Stored, Content, Connections
<1>9. writing.phase = "apply" => journal \in Content /\ writing.next \in Content
  BY DEF IInv, TypeOK, WritesJournaled
<1> QED BY <1>7, <1>8, <1>9, SeenSteps

LEMMA RulesFitStays ==
  ASSUME IInv, OneAtATime, RulesFit, Next
  PROVE  RulesFit'
<1>1. ASSUME NEW t \in Tasks, BeginsTask(t)
      PROVE  RulesFit'
  <2>1. /\ Reached /\ UNCHANGED <<files, journal>>
        /\ \A u \in Tasks : u # t => task'[u] = task[u]
        /\ task'[t].op = "saveRule" => task'[t].draft.profile \in Stored(profiles)
    BY <1>1, OperationBegins DEF IInv
  <2>2. Visible = files /\ Visible' = files
    BY <2>1 DEF Reached, Visible
  <2> QED BY <2>1, <2>2 DEF RulesFit, profiles
<1>2. ASSUME NEW t \in Tasks, DropProfile(t)
      PROVE  RulesFit'
  <2>1. task[t].op = "deleteProfile" /\ \A u \in Tasks : u # t => task'[u] = task[u]
    BY <1>2 DEF DropProfile, Doing, Continue, IInv, TypeOK
  <2>2. task'[t].op = "deleteProfile"
    <3>1. PICK entry : entry = [task[t] EXCEPT !.step = task[t].step + 1]
      OBVIOUS
    <3>2. task \in [Tasks -> Task] /\ task' = [task EXCEPT ![t] = entry]
      BY <1>2, <3>1 DEF DropProfile, Continue, IInv, TypeOK
    <3>3. entry.op = task[t].op
      BY <3>1, <3>2 DEF Task
    <3> QED BY <2>1, <3>2, <3>3
  <2>3. \A u \in Tasks : u # t => task[u].op # "saveRule"
    BY <2>1 DEF OneAtATime, NetworkOps
  <2> QED BY <2>1, <2>2, <2>3 DEF RulesFit
<1>3. ASSUME \A t \in Tasks : ~BeginsTask(t) /\ ~DropProfile(t)
      PROVE  RulesFit'
  <2>1. \A t \in Tasks : \/ task'[t].op = "none"
                         \/ task'[t].op = task[t].op /\ task'[t].draft = task[t].draft
    BY <1>3, OperationsStay DEF IInv
  <2>2. Stored(Visible.connections.profiles) \subseteq Stored(Visible'.connections.profiles)
    BY <1>3, ConnectionsStay
  <2> QED BY <2>1, <2>2 DEF RulesFit
<1> QED BY <1>1, <1>2, <1>3

LEMMA MergesNamedStays ==
  ASSUME IInv, MergesNamed, Next
  PROVE  MergesNamed'
<1> USE DEF MergesNamed
<1>1. prepared' # None => NewRulesNamed(prepared'.next, prepared'.target)
  <2>1. CASE prepared' \in {prepared, None}
    BY <2>1
  <2>2. CASE Preview
    <3>1. PICK source \in Sources, options \in Options :
            \E next \in Merges(source, files, options, used) :
              prepared' = IF next = files THEN None
                          ELSE [source |-> source, options |-> options,
                                target |-> files, next |-> next]
      BY <2>2 DEF Preview
    <3>2. PICK next \in Merges(source, files, options, used) :
            prepared' = IF next = files THEN None
                        ELSE [source |-> source, options |-> options,
                              target |-> files, next |-> next]
      BY <3>1
    <3>3. NewRulesNamed(next, files)
      BY MergeNames, SourcesAssumption DEF IInv, TypeOK
    <3> QED BY <3>2, <3>3
  <2> QED
    BY <2>1, <2>2, Edits, KindsOfSteps
       DEF Opening, Interruption, Merging, BeginSaveProfile, BeginSaveRule, BeginDeleteProfile,
           BeginDeleteCredential, BeginClearVault, Begin, KeepRules, Fail, Unlock, Lock, Discard,
           GiveUp, StayPending, Crash, Boot, Commit, Apply, Accept, Restore, RemoveJournal, Write,
           merging, memory
<1>2. writing'.phase = "apply" => NewRulesNamed(writing'.next, journal')
  <2>1. CASE UNCHANGED <<journal, writing>>
    BY <2>1
  <2>2. CASE GiveUp \/ StayPending \/ Crash \/ Boot \/ Accept \/ RemoveJournal
    <3>1. /\ NotWriting.phase = "none"
          /\ [NotWriting EXCEPT !.phase = "restore", !.step = 1].phase = "restore"
      BY DEF NotWriting
    <3>2. \/ UNCHANGED <<journal, writing>>
          \/ writing' \in {NotWriting, [NotWriting EXCEPT !.phase = "restore", !.step = 1]}
      BY <2>2 DEF GiveUp, StayPending, Crash, Boot, Accept, RemoveJournal, disk
    <3> QED BY <2>1, <3>1, <3>2
  <2>3. CASE Commit
    <3>1. /\ prepared # None /\ prepared.target = files /\ journal' = files
          /\ writing'.next = prepared.next
      BY <2>3 DEF Commit
    <3> QED BY <3>1
  <2>4. CASE Apply
    <3>1. writing.phase = "apply" /\ journal' = journal /\ writing'.next = writing.next
      BY <2>4 DEF Apply, Write, IInv, TypeOK, Writing
    <3> QED BY <3>1
  <2>5. CASE Restore
    <3>1. writing.phase = "restore" /\ writing'.phase = writing.phase
      BY <2>5 DEF Restore, Write, IInv, TypeOK, Writing
    <3> QED BY <3>1
  <2>6. CASE Opening
    BY <2>1, <2>6 DEF Opening, BeginSaveProfile, BeginSaveRule, BeginDeleteProfile,
         BeginDeleteCredential, BeginClearVault, Begin, KeepRules, Fail, Unlock, Lock, Preview,
         Discard, merging, disk
  <2> QED
    BY <2>1, <2>2, <2>3, <2>4, <2>5, <2>6, Edits, KindsOfSteps DEF Interruption, Merging
<1> QED BY <1>1, <1>2

LEMMA RuleInvariant == Spec => []RuleInv
<1>1. Init => RuleInv
  <2>1. Init => OneAtATime /\ RulesFit /\ MergesNamed
    BY DEF Init, IdleTask, NotWriting, NetworkOps, OneAtATime, RulesFit, MergesNamed, Idle
  <2> QED BY <2>1, InitIInv DEF RuleInv
<1>2. RuleInv /\ [Next]_vars => RuleInv'
  <2> SUFFICES ASSUME RuleInv, [Next]_vars PROVE RuleInv'
    OBVIOUS
  <2>1. CASE Next
    BY <2>1, NextIInv, OneAtATimeStays, RulesFitStays, MergesNamedStays DEF RuleInv
  <2>2. CASE UNCHANGED vars
    <3>1. UNCHANGED <<server, journal, prepared, writing, task, Visible>>
      BY <2>2 DEF vars, disk, memory, Visible
    <3> QED
      BY <2>2, <3>1, NextIInv DEF RuleInv, OneAtATime, RulesFit, MergesNamed, Idle
  <2> QED BY <2>1, <2>2
<1> QED BY <1>1, <1>2, PTL DEF Spec

\* A rule is stored for a connection that is there, on the server and on the
\* desktop, by a request or by a merge, although the connection is looked up in
\* an access of its own, or in a preview.
THEOREM RulesNameConnections == Spec => RuleNamesProfile
<1> DEFINE Named == \A r \in Rules :
             (Visible'.rules[r] # None /\ Visible'.rules[r] # Visible.rules[r])
               => Visible'.rules[r].profile \in Stored(Visible'.connections.profiles)
<1>1. RuleInv /\ [Next]_vars => [Named]_vars
  <2> SUFFICES ASSUME RuleInv, Next PROVE Named
    OBVIOUS
  <2> USE DEF RuleInv
  <2>1. /\ files \in [connections: Connections, rules: [Rules -> Rule \cup {None}],
                     vault: Vault \cup {None}]
        /\ files.rules \in [Rules -> Rule \cup {None}]
    BY FilesTyped DEF IInv
  <2>2. ASSUME NEW t \in Tasks, StoreRule(t), Visible = files, Visible' = files'
        PROVE  Named
    <3>1. PICK r \in Rules :
            files' = [files EXCEPT !.rules = [files.rules EXCEPT ![r] = task[t].draft]]
      BY <2>1, <2>2 DEF StoreRule, Store, WithRules, Stored
    <3>2. task[t].draft.profile \in Stored(files.connections.profiles)
      BY <2>2 DEF StoreRule, Doing, RulesFit
    <3>3. /\ files'.rules = [files.rules EXCEPT ![r] = task[t].draft]
          /\ files'.connections = files.connections
      BY <2>1, <3>1
    <3> QED BY <2>1, <2>2, <3>2, <3>3
  <2>3. ASSUME \/ \E t \in Tasks : DropItsRules(t)
               \/ \E r \in Rules : DeleteRule(r)
        PROVE  \A r \in Rules : files'.rules[r] \in {None, files.rules[r]}
    <3>1. CASE \E t \in Tasks : DropItsRules(t)
      <4>1. PICK t \in Tasks : DropItsRules(t)
        BY <3>1
      <4>2. PICK next : /\ next = [r \in Rules |->
                              IF r \in Stored(files.rules) /\ files.rules[r].profile = task[t].subject
                              THEN None ELSE files.rules[r]]
                        /\ files' = [files EXCEPT !.rules = next]
        BY <4>1 DEF DropItsRules, Store, WithRules
      <4>3. files'.rules = next /\ \A r \in Rules : next[r] \in {None, files.rules[r]}
        BY <2>1, <4>2
      <4> QED BY <4>3
    <3>2. CASE \E r \in Rules : DeleteRule(r)
      <4>1. PICK r \in Rules : files' = [files EXCEPT !.rules = [files.rules EXCEPT ![r] = None]]
        BY <3>2 DEF DeleteRule, Edit, WithRules
      <4>2. files'.rules = [files.rules EXCEPT ![r] = None]
        BY <2>1, <4>1
      <4> QED BY <2>1, <4>2
    <3> QED BY <2>3, <3>1, <3>2
  <2>4. ASSUME NewConnections \/ NewVault
        PROVE  files'.rules = files.rules
    BY <2>1, <2>4 DEF NewConnections, NewVault
  <2>5. CASE (KeepsVault \/ SetsVault) /\ Visible = files /\ Visible' = files'
    BY <2>2, <2>3, <2>4, <2>5, ProfileEdits, GroupEdits, ReferenceEdits, VaultEdits
       DEF KeepsVault, SetsVault
  <2>6. CASE writing.phase = "apply" /\ Visible = journal /\ Visible' = writing.next
    BY <2>6 DEF MergesNamed, NewRulesNamed
  <2>7. CASE Visible' = Visible
    BY <2>7
  <2> QED BY <2>5, <2>6, <2>7, SeenSteps
<1>2. Spec => [][Named]_vars
  BY <1>1, RuleInvariant, PTL DEF Spec
<1> QED BY <1>2 DEF RuleNamesProfile

-----------------------------------------------------------------------------
(* The requests that change the vault: what a step does to a request. *)

CallOps == {"none", "initialize", "prepareReset", "reset", "generate", "store", "commit"}
Steps == {"idle", "working", "landed", "orphan", "dialog", "verified", "taken", "written"}

\* Only the request c is another one now.
Becomes(c, op, step, file, current, d) ==
  /\ call'[c].op = op /\ call'[c].step = step
  /\ call'[c].file = file /\ call'[c].current = current /\ call'[c].key = d
  /\ \A e \in Calls : e # c => call'[e] = call[e]

LEMMA EndsCall ==
  ASSUME CredTypeOK, NEW c \in Calls, EndCall(c)
  PROVE  call' \in [Calls -> Call] /\ Becomes(c, "none", "idle", 0, 0, 0)
<1>1. NoCall \in Call
  BY CallsAssumption DEF NoCall, Call
<1>2. call' = [call EXCEPT ![c] = NoCall] /\ call \in [Calls -> Call]
  BY DEF EndCall, CredTypeOK
<1>3. call'[c] = NoCall
  BY <1>2
<1> QED BY <1>1, <1>2, <1>3 DEF NoCall, Becomes

LEMMA MovesCall ==
  ASSUME CredTypeOK, NEW c \in Calls, NEW step \in Steps, Moves(c, step)
  PROVE  /\ call' \in [Calls -> Call]
         /\ Becomes(c, call[c].op, step, call[c].file, call[c].current, call[c].key)
<1>1. PICK q : q = [call[c] EXCEPT !.step = step]
  OBVIOUS
<1>2. call' = [call EXCEPT ![c] = q] /\ call \in [Calls -> Call]
  BY <1>1 DEF Moves, CredTypeOK
<1>3. /\ q \in Call /\ q.op = call[c].op /\ q.step = step /\ q.file = call[c].file
      /\ q.key = call[c].key /\ q.current = call[c].current
  BY <1>1, <1>2 DEF Call, Steps
<1> QED BY <1>2, <1>3 DEF Becomes

LEMMA BeginsCall ==
  ASSUME CredTypeOK, NEW c \in Calls, NEW op, NEW k, NEW current, NEW d,
         BeginCall(c, op, k, current, d)
  PROVE  /\ call[c].step = "idle"
         /\ Becomes(c, op, IF OnDesktop THEN "dialog" ELSE "working", k, current, d)
         /\ op \in CallOps /\ k \in 0..MaxKeys /\ current \in 0..MaxKeys /\ d \in 0..MaxKeys
              => call' \in [Calls -> Call]
<1>1. PICK q : q = [op |-> op, step |-> IF OnDesktop THEN "dialog" ELSE "working",
                    file |-> k, current |-> current, key |-> d, owner |-> login]
  OBVIOUS
<1>2. call' = [call EXCEPT ![c] = q] /\ call \in [Calls -> Call] /\ call[c].step = "idle"
  BY <1>1 DEF BeginCall, CredTypeOK
<1>3. /\ q.op = op /\ q.step = IF OnDesktop THEN "dialog" ELSE "working"
      /\ q.file = k /\ q.key = d /\ q.current = current
      /\ op \in CallOps /\ k \in 0..MaxKeys /\ current \in 0..MaxKeys /\ d \in 0..MaxKeys
           => q \in Call
  BY <1>1 DEF CallOps, Call, CredTypeOK
<1> QED BY <1>2, <1>3 DEF Becomes

\* A request goes on with a recovery key it did not have.
LEMMA NamesCall ==
  ASSUME CredTypeOK, NEW c \in Calls, NEW step \in Steps, NEW k, NEW current,
         \/ /\ call' = [call EXCEPT ![c].step = step, ![c].file = k]
            /\ current = call[c].current
         \/ call' = [call EXCEPT ![c].step = step, ![c].file = k, ![c].current = current]
  PROVE  /\ Becomes(c, call[c].op, step, k, current, call[c].key)
         /\ k \in 0..MaxKeys /\ current \in 0..MaxKeys => call' \in [Calls -> Call]
<1>1. PICK q : /\ \/ q = [call[c] EXCEPT !.step = step, !.file = k] /\ current = call[c].current
                  \/ q = [call[c] EXCEPT !.step = step, !.file = k, !.current = current]
               /\ call' = [call EXCEPT ![c] = q]
  OBVIOUS
<1>2. call \in [Calls -> Call]
  BY DEF CredTypeOK
<1>3. /\ q.op = call[c].op /\ q.step = step /\ q.file = k
      /\ q.key = call[c].key /\ q.current = current
      /\ k \in 0..MaxKeys /\ current \in 0..MaxKeys => q \in Call
  <2>1. call[c] \in Call
    BY <1>2
  <2>2. CASE q = [call[c] EXCEPT !.step = step, !.file = k] /\ current = call[c].current
    BY <2>1, <2>2 DEF Call, Steps
  <2>3. CASE q = [call[c] EXCEPT !.step = step, !.file = k, !.current = current]
    BY <2>1, <2>3 DEF Call, Steps
  <2> QED BY <1>1, <2>2, <2>3
<1> QED BY <1>1, <1>2, <1>3 DEF Becomes

-----------------------------------------------------------------------------
(* The gate and the dialogs. *)

\* The steps that begin a request, give it a recovery key, go on with it, and
\* those that are of no request.
Begins(c) ==
  \/ BeginInitialize(c) \/ BeginPrepareReset(c) \/ BeginReset(c) \/ AskInitialize(c)
  \/ AskCurrent(c) \/ AskReset(c) \/ BeginGenerate(c) \/ BeginStore(c) \/ BeginCommit(c)
Names(c) == MakeRecovery(c) \/ VerifyCurrent(c) \/ TakePending(c)
GoesOn(c) ==
  \/ CallHangsUp(c) \/ LandInitialize(c) \/ ReturnInitialize(c) \/ ReturnPrepareReset(c)
  \/ LandReset(c) \/ WriteInitial(c) \/ CommitInitialize(c) \/ RememberReset(c)
  \/ WriteReplacement(c) \/ CommitReset(c) \/ ReturnGenerate(c) \/ LandStore(c)
  \/ LandCommit(c) \/ ReturnCommit(c)
Asides ==
  \/ PrepareRecovery \/ DownloadRecovery \/ CancelReset \/ CancelPrepared
  \/ UnlockVault \/ LockVault \/ LockLate \/ ClearVaultFile \/ SealVault \/ LoginExpires
  \/ PrepareKey \/ CommitAtOnce \/ CancelDraft \/ CreateCredential \/ DeleteCredential

LEMMA KindsOfRequests ==
  ASSUME CredNext
  PROVE  RestartShell \/ Asides \/ \E c \in Calls : Begins(c) \/ Names(c) \/ GoesOn(c)
BY DEF CredNext, Asides, Begins, Names, GoesOn

\* What they do to requests, as far as the gate and the dialogs tell them apart.
LEMMA BeginsRequest ==
  ASSUME CredTypeOK, NEW c \in Calls, Begins(c)
  PROVE  /\ shell' = shell /\ (OnServer \/ OnDesktop)
         /\ \E op, k, current, d : BeginCall(c, op, k, current, d)
BY DEF Begins, BeginInitialize, BeginPrepareReset, BeginReset, AskInitialize,
       AskCurrent, AskReset, BeginGenerate, BeginStore, BeginCommit

LEMMA NamesKey ==
  ASSUME CredTypeOK, NEW c \in Calls, Names(c)
  PROVE  /\ shell' = shell
         /\ call[c].step = "dialog"
         /\ \/ EndCall(c)
            \/ \E step \in {"verified", "taken"} : \E k, current :
                 Becomes(c, call[c].op, step, k, current, call[c].key)
<1>1. CASE MakeRecovery(c)
  BY <1>1, NamesCall DEF MakeRecovery, CallAt, Steps
<1>2. CASE VerifyCurrent(c)
  BY <1>2, NamesCall DEF VerifyCurrent, CallAt, Steps
<1>3. CASE TakePending(c)
  <2>1. \/ EndCall(c)
        \/ call' = [call EXCEPT ![c].step = "taken", ![c].file = pending.file,
                                ![c].current = pending.current]
    BY <1>3 DEF TakePending
  <2>2. "taken" \in Steps
    BY DEF Steps
  <2>3. ASSUME call' = [call EXCEPT ![c].step = "taken", ![c].file = pending.file,
                                    ![c].current = pending.current]
        PROVE  Becomes(c, call[c].op, "taken", pending.file, pending.current, call[c].key)
    BY <2>2, <2>3, NamesCall
  <2> QED BY <1>3, <2>1, <2>3 DEF TakePending, CallAt
<1> QED BY <1>1, <1>2, <1>3 DEF Names

LEMMA RequestGoesOn ==
  ASSUME CredTypeOK, NEW c \in Calls, GoesOn(c)
  PROVE  /\ shell' = shell
         /\ \/ EndCall(c)
            \/ call[c].step = "working" /\ (Moves(c, "orphan") \/ Moves(c, "landed"))
            \/ call[c].step = "taken" /\ Moves(c, "written")
BY DEF GoesOn, CallHangsUp, LandInitialize, ReturnInitialize, ReturnPrepareReset, Works, CallAt,
       LandReset, WriteInitial, CommitInitialize, RememberReset, WriteReplacement, CommitReset,
       ReturnGenerate, LandStore, LandCommit, ReturnCommit

LEMMA AsidesStay ==
  ASSUME Asides
  PROVE  shell' = shell /\ call' = call
BY DEF Asides, PrepareRecovery, DownloadRecovery, CancelReset, CancelPrepared,
       UnlockVault, LockVault, LockLate, ClearVaultFile, SealVault, LoginExpires, PrepareKey,
       CommitAtOnce, CancelDraft, CreateCredential, DeleteCredential

\* Each shell runs requests in its own way.
ShellSteps ==
  \A c \in Calls :
    call[c].step \in IF shell = "server" THEN {"idle", "working", "landed", "orphan"}
                     ELSE {"idle", "dialog", "verified", "taken", "written"}

\* The vault gate has one holder.
InGate(c) == call[c].step \in {"working", "landed"}
GateHolder == \A c, e \in Calls : InGate(c) /\ InGate(e) => c = e

LEMMA GateStays ==
  ASSUME CredTypeOK, ShellSteps, GateHolder, CredNext
  PROVE  ShellSteps' /\ GateHolder'
<1>1. CASE RestartShell
  BY <1>1 DEF RestartShell, NoCall, ShellSteps, GateHolder, InGate
<1>2. CASE Asides
  BY <1>2, AsidesStay DEF ShellSteps, GateHolder, InGate
<1>3. ASSUME NEW c \in Calls, Begins(c) PROVE ShellSteps' /\ GateHolder'
  BY <1>3, BeginsRequest, BeginsCall
     DEF Becomes, OnServer, OnDesktop, CredTypeOK, ShellSteps, GateHolder, InGate
<1>4. ASSUME NEW c \in Calls, Names(c) PROVE ShellSteps' /\ GateHolder'
  BY <1>4, NamesKey, EndsCall DEF Becomes, ShellSteps, GateHolder, InGate
<1>5. ASSUME NEW c \in Calls, GoesOn(c) PROVE ShellSteps' /\ GateHolder'
  BY <1>5, RequestGoesOn, EndsCall, MovesCall DEF Becomes, Steps, ShellSteps, GateHolder, InGate
<1> QED BY <1>1, <1>2, <1>3, <1>4, <1>5, KindsOfRequests

-----------------------------------------------------------------------------
(* Recovery keys. *)

\* Keys are numbered as they are made, and each generation takes one.
KeysMade ==
  /\ \A k \in 1..Len(recoveries) : recoveries[k].generation <= k
  /\ pending # NoVault => pending.file <= Len(recoveries)
  /\ \A c \in Calls : call[c].file <= Len(recoveries)
  /\ vault # NoVault => vault.recovery <= Len(recoveries)

\* The key a request is about to make or change the vault with is saved ...
UsesKey(q) == q.op \in {"initialize", "reset"} /\ q.step \in {"working", "orphan", "written"}
HoldsKey(q) == q.step \in {"verified", "taken", "written"}
KeysSaved ==
  \A c \in Calls :
    /\ UsesKey(call[c]) => call[c].file \in saved
    /\ HoldsKey(call[c]) => call[c].file # 0

\* ... and a key that the desktop has yet to use, and removes when that fails,
\* is in no other place.
KeysApart ==
  shell = "desktop" =>
    /\ \A c, e \in Calls :
         HoldsKey(call[c]) /\ HoldsKey(call[e]) /\ call[c].file = call[e].file => c = e
    /\ \A c \in Calls : HoldsKey(call[c]) /\ pending # NoVault => call[c].file # pending.file
    /\ vault # NoVault =>
         /\ \A c \in Calls : HoldsKey(call[c]) => call[c].file # vault.recovery
         /\ pending # NoVault => pending.file # vault.recovery

KeysKept == KeysMade /\ KeysSaved /\ KeysApart /\ RecoverySaved

\* Steps that make no key and use none: a request keeps its key or gives it up.
QuietCall(q, r) ==
  /\ r.file \in {0, q.file}
  /\ UsesKey(r) => UsesKey(q) /\ r.file = q.file
  /\ HoldsKey(r) => HoldsKey(q) /\ r.file = q.file
QuietKeys ==
  /\ shell' = shell /\ recoveries' = recoveries /\ saved \subseteq saved'
  /\ vault' # NoVault => vault # NoVault /\ vault'.recovery = vault.recovery
  /\ pending' # NoVault => pending # NoVault /\ pending'.file = pending.file
  /\ \A c \in Calls : QuietCall(call[c], call'[c])

LEMMA QuietStays ==
  ASSUME CredTypeOK, KeysKept, QuietKeys
  PROVE  KeysKept'
<1>1. Len(recoveries) >= 0
  BY DEF CredTypeOK
<1>2. KeysMade'
  BY <1>1 DEF KeysKept, KeysMade, QuietKeys, QuietCall
<1>3. KeysSaved' /\ RecoverySaved'
  BY DEF KeysKept, KeysSaved, RecoverySaved, QuietKeys, QuietCall
<1>4. KeysApart'
  BY DEF KeysKept, KeysApart, QuietKeys, QuietCall
<1> QED BY <1>2, <1>3, <1>4 DEF KeysKept

\* The steps that make or use keys.
KeyStep(c) ==
  \/ MakeRecovery(c) \/ ReturnPrepareReset(c) \/ VerifyCurrent(c)
  \/ BeginInitialize(c) \/ BeginReset(c) \/ TakePending(c) \/ RememberReset(c)
  \/ WriteInitial(c) \/ WriteReplacement(c)
  \/ LandInitialize(c) \/ CommitInitialize(c) \/ LandReset(c) \/ CommitReset(c)

QuietRequest(c) ==
  \/ CallHangsUp(c) \/ ReturnInitialize(c) \/ AskInitialize(c) \/ AskCurrent(c) \/ AskReset(c)
  \/ BeginPrepareReset(c) \/ BeginGenerate(c) \/ ReturnGenerate(c) \/ BeginStore(c)
  \/ LandStore(c) \/ BeginCommit(c) \/ LandCommit(c) \/ ReturnCommit(c)
ChangesItems == Readable /\ \E n : vault' = [vault EXCEPT !.items = n]

LEMMA KindsOfKeySteps ==
  ASSUME CredNext
  PROVE  \/ PrepareRecovery \/ \E c \in Calls : KeyStep(c)
         \/ /\ recoveries' = recoveries /\ saved \subseteq saved'
            /\ vault' \in {vault, NoVault} \/ ChangesItems
            /\ \/ pending' \in {pending, NoVault}
               \/ pending # NoVault /\ pending' = [pending EXCEPT !.downloaded = TRUE]
            /\ RestartShell \/ Asides \/ \E c \in Calls : QuietRequest(c)
BY DEF CredNext, KeyStep, QuietRequest, Asides, ChangesItems, StoresItem, custody, PrepareRecovery,
  DownloadRecovery, CancelReset, CancelPrepared, UnlockVault, LockVault, LockLate, ClearVaultFile,
  SealVault, LoginExpires, RestartShell, PrepareKey, CommitAtOnce, CancelDraft, CreateCredential,
  DeleteCredential, CallHangsUp, ReturnInitialize, BeginPrepareReset, AskInitialize, AskCurrent,
  AskReset, BeginGenerate, ReturnGenerate, BeginStore, LandStore, BeginCommit, LandCommit,
  ReturnCommit

LEMMA QuietCalls ==
  ASSUME CredTypeOK, NEW c \in Calls, QuietRequest(c)
  PROVE  \A e \in Calls : QuietCall(call[e], call'[e])
<1>1. \/ EndCall(c)
      \/ call[c].step = "working" /\ Moves(c, "orphan")
      \/ CallAt(c, "commit", "working") /\ Moves(c, "landed")
      \/ \E op, current, d : /\ BeginCall(c, op, 0, current, d)
                             /\ op \in {"initialize", "reset"} => OnDesktop
  BY DEF QuietRequest, CallHangsUp, ReturnInitialize, BeginPrepareReset, AskInitialize, AskCurrent,
         AskReset, BeginGenerate, ReturnGenerate, BeginStore, LandStore, BeginCommit, LandCommit,
         ReturnCommit, Works, CallAt
<1>2. \A e \in Calls : e # c => call'[e] = call[e]
  BY <1>1, EndsCall, MovesCall, BeginsCall DEF Becomes, Steps
<1>3. QuietCall(call[c], call'[c])
  BY <1>1, EndsCall, MovesCall, BeginsCall DEF Becomes, Steps, CallAt, QuietCall, UsesKey, HoldsKey
<1> QED BY <1>2, <1>3 DEF QuietCall

LEMMA QuietStep ==
  ASSUME CredTypeOK, CredNext, ~PrepareRecovery, \A c \in Calls : ~KeyStep(c)
  PROVE  QuietKeys
<1>1. /\ recoveries' = recoveries /\ saved \subseteq saved'
      /\ vault' \in {vault, NoVault} \/ ChangesItems
      /\ \/ pending' \in {pending, NoVault}
         \/ pending # NoVault /\ pending' = [pending EXCEPT !.downloaded = TRUE]
      /\ RestartShell \/ Asides \/ \E c \in Calls : QuietRequest(c)
  BY KindsOfKeySteps
<1>2. vault' # NoVault => vault # NoVault /\ vault'.recovery = vault.recovery
  BY <1>1 DEF ChangesItems, Readable, CredTypeOK, VaultFile
<1>3. pending' # NoVault => pending # NoVault /\ pending'.file = pending.file
  BY <1>1 DEF CredTypeOK, PendingKey
<1>4. shell' = shell
  BY KindsOfRequests, BeginsRequest, NamesKey, RequestGoesOn, AsidesStay DEF RestartShell
<1>5. ASSUME NEW e \in Calls PROVE QuietCall(call[e], call'[e])
  BY <1>1, AsidesStay, QuietCalls DEF RestartShell, NoCall, QuietCall, UsesKey, HoldsKey
<1> QED BY <1>1, <1>2, <1>3, <1>4, <1>5 DEF QuietKeys

LEMMA KeyNumbers ==
  ASSUME CredTypeOK
  PROVE  /\ Len(recoveries) \in Nat
         /\ vault # NoVault => vault.recovery \in Nat
         /\ pending # NoVault => pending.file \in Nat
         /\ \A e \in Calls : call[e].file \in Nat
<1>1. Len(recoveries) \in Nat
  BY DEF CredTypeOK
<1>2. vault # NoVault => vault.recovery \in Nat
  BY CallsAssumption DEF CredTypeOK, VaultFile, Recoveries
<1>3. pending # NoVault => pending.file \in Nat
  BY CallsAssumption DEF CredTypeOK, PendingKey, Recoveries
<1>4. \A e \in Calls : call[e].file \in Nat
  BY CallsAssumption DEF CredTypeOK, Call
<1> QED BY <1>1, <1>2, <1>3, <1>4

LEMMA KeyMade ==
  ASSUME CredTypeOK, KeysKept, Room, MakeInitial \/ (MakeNext /\ \E k : Verifies(k))
  PROVE  /\ recoveries' \in Seq([vault : Recoveries, generation : Recoveries])
         /\ Len(recoveries') = Newest /\ Newest \in Recoveries
         /\ \A k \in 1..Len(recoveries') : recoveries'[k].generation <= k
<1>1. /\ recoveries \in Seq([vault : Recoveries, generation : Recoveries])
      /\ Len(recoveries) \in Nat /\ Len(stored) \in Nat
  BY DEF CredTypeOK
<1>2. Newest \in Recoveries /\ Newest = Len(recoveries) + 1 /\ 1 \in Recoveries
  BY <1>1, CallsAssumption DEF Room, Newest, Recoveries
<1>3. PICK r \in [vault : Recoveries, generation : Recoveries] :
        r.generation <= Newest /\ recoveries' = Append(recoveries, r)
  <2>1. CASE MakeInitial
    <3>1. PICK r : r = [vault |-> Newest, generation |-> 1]
      OBVIOUS
    <3>2. r \in [vault : Recoveries, generation : Recoveries] /\ r.generation = 1
      BY <1>2, <3>1
    <3>3. recoveries' = Append(recoveries, r)
      BY <2>1, <3>1 DEF MakeInitial, Newest
    <3> QED BY <1>1, <1>2, <3>2, <3>3
  <2>2. ASSUME MakeNext, NEW k, Verifies(k)
        PROVE  \E r \in [vault : Recoveries, generation : Recoveries] :
                 r.generation <= Newest /\ recoveries' = Append(recoveries, r)
    <3>1. vault \in VaultFile /\ k = vault.recovery
      BY <2>2 DEF Verifies, Readable, CredTypeOK
    <3>2. k \in 1..Len(recoveries)
      BY <1>1, <2>2, <3>1 DEF Verifies, Readable, VaultFile, Recoveries, KeysKept, KeysMade
    <3>3. vault.generation <= k
      <4>1. recoveries[k].generation <= k
        BY <3>2 DEF KeysKept, KeysMade
      <4>2. recoveries[k].generation = vault.generation
        BY <2>2 DEF Verifies
      <4> QED BY <4>1, <4>2
    <3>4. vault.id \in Recoveries /\ vault.generation \in Recoveries
      BY <3>1 DEF VaultFile
    <3>5. vault.generation + 1 <= Newest /\ vault.generation + 1 \in Recoveries
      <4>1. PICK g \in 1..MaxKeys : g = vault.generation
        BY <3>4 DEF Recoveries
      <4>2. g + 1 <= Len(recoveries) + 1 /\ Len(recoveries) + 1 \in 1..MaxKeys
        BY <1>1, <1>2, <3>2, <3>3, <4>1 DEF Recoveries
      <4>3. g + 1 <= Newest /\ g + 1 \in 1..MaxKeys
        BY <1>1, <1>2, <4>1, <4>2, CallsAssumption
      <4> QED BY <4>1, <4>3 DEF Recoveries
    <3>6. PICK r : r = [vault |-> vault.id, generation |-> vault.generation + 1]
      OBVIOUS
    <3>7. r \in [vault : Recoveries, generation : Recoveries] /\ r.generation = vault.generation + 1
      BY <3>4, <3>5, <3>6
    <3>8. recoveries' = Append(recoveries, r)
      BY <2>2, <3>6 DEF MakeNext
    <3> QED BY <3>5, <3>7, <3>8
  <2> QED BY <2>1, <2>2
<1> QED BY <1>1, <1>2, <1>3 DEF KeysKept, KeysMade

\* A key is made: it is nowhere else.
LEMMA PreparedKeeps ==
  ASSUME CredTypeOK, KeysKept, PrepareRecovery
  PROVE  KeysKept'
<1>1. /\ Len(recoveries) \in Nat
      /\ vault # NoVault => vault.recovery \in Nat
      /\ \A e \in Calls : call[e].file \in Nat
  BY KeyNumbers
<1>2. /\ shell' = shell /\ shell = "server" /\ vault' = vault /\ saved' = saved /\ call' = call
      /\ Room /\ MakeInitial
  BY DEF PrepareRecovery, OnServer
<1>3. pending'.file = Newest
  BY DEF PrepareRecovery
<1> QED BY <1>1, <1>2, <1>3, KeyMade
        DEF Newest, KeysKept, KeysMade, KeysSaved, KeysApart, RecoverySaved

LEMMA MakersKeep ==
  ASSUME CredTypeOK, KeysKept, ShellSteps, NEW c \in Calls,
         MakeRecovery(c) \/ ReturnPrepareReset(c) \/ VerifyCurrent(c)
  PROVE  KeysKept'
<1>0. /\ Len(recoveries) \in Nat
      /\ vault # NoVault => vault.recovery \in Nat
      /\ pending # NoVault => pending.file \in Nat
      /\ \A e \in Calls : call[e].file \in Nat
  BY KeyNumbers
<1>1. ASSUME shell' = shell, vault' = vault, pending' = pending, saved' = saved,
             recoveries' = recoveries, EndCall(c)
      PROVE  KeysKept'
  <2>1. QuietKeys
    BY <1>1, EndsCall DEF QuietKeys, QuietCall, Becomes, UsesKey, HoldsKey
  <2> QED BY <2>1, QuietStays
<1>2. CASE ReturnPrepareReset(c)
  <2>1. /\ shell' = shell /\ shell = "server" /\ vault' = vault /\ saved' = saved /\ EndCall(c)
    BY <1>2 DEF ReturnPrepareReset, CallAt, ShellSteps
  <2>2. \/ UNCHANGED <<recoveries, pending>>
        \/ pending'.file = Newest /\ Room /\ MakeNext /\ \E k : Verifies(k)
    BY <1>2 DEF ReturnPrepareReset
  <2>3. ASSUME pending'.file = Newest, Room, MakeNext, \E k : Verifies(k) PROVE KeysKept'
    <3>1. /\ Len(recoveries') = Len(recoveries) + 1
          /\ \A k \in 1..Len(recoveries') : recoveries'[k].generation <= k
      BY <2>3, KeyMade DEF Newest
    <3> QED BY <1>0, <2>1, <2>3, <3>1, EndsCall
            DEF Newest, KeysKept, KeysMade, KeysSaved, KeysApart, RecoverySaved, Becomes, UsesKey,
                HoldsKey
  <2> QED BY <1>1, <2>1, <2>2, <2>3
<1>3. CASE MakeRecovery(c) \/ VerifyCurrent(c)
  <2>1. /\ shell' = shell /\ vault' = vault /\ saved' = saved /\ pending' = pending
        /\ \/ recoveries' = recoveries /\ EndCall(c)
           \/ /\ Room /\ (MakeInitial \/ (MakeNext /\ \E k : Verifies(k)))
              /\ \E step \in {"verified", "taken"} :
                   Becomes(c, call[c].op, step, Newest, call[c].current, call[c].key)
    <3>1. CASE MakeRecovery(c)
      BY <3>1, NamesCall DEF MakeRecovery, Steps
    <3>2. CASE VerifyCurrent(c)
      BY <3>2, NamesCall DEF VerifyCurrent, Steps
    <3> QED BY <1>3, <3>1, <3>2
  <2>2. ASSUME Room, MakeInitial \/ (MakeNext /\ \E k : Verifies(k)),
               NEW step \in {"verified", "taken"},
               Becomes(c, call[c].op, step, Newest, call[c].current, call[c].key)
        PROVE  KeysKept'
    <3>1. /\ Len(recoveries') = Len(recoveries) + 1 /\ Newest = Len(recoveries) + 1
          /\ \A k \in 1..Len(recoveries') : recoveries'[k].generation <= k
      BY <2>2, KeyMade DEF Newest
    <3>2. /\ call'[c].file = Newest /\ call'[c].step = step
          /\ \A e \in Calls : e # c => call'[e] = call[e]
      BY <2>2 DEF Becomes
    <3>4. KeysMade'
      BY <1>0, <2>1, <3>1, <3>2 DEF KeysKept, KeysMade
    <3>5. KeysSaved' /\ RecoverySaved'
      BY <1>0, <2>1, <3>1, <3>2 DEF KeysKept, KeysSaved, RecoverySaved, UsesKey, HoldsKey
    <3>6. KeysApart'
      BY <1>0, <2>1, <3>1, <3>2 DEF KeysKept, KeysMade, KeysApart, HoldsKey
    <3> QED BY <3>4, <3>5, <3>6 DEF KeysKept
  <2> QED BY <1>1, <2>1, <2>2
<1> QED BY <1>2, <1>3

\* A prepared key goes to the request that uses it, or back.
LEMMA TakersKeep ==
  ASSUME CredTypeOK, KeysKept, ShellSteps, NEW c \in Calls,
         BeginInitialize(c) \/ BeginReset(c) \/ TakePending(c) \/ RememberReset(c)
  PROVE  KeysKept'
<1>0. /\ Len(recoveries) \in Nat
      /\ pending # NoVault => pending.file \in Nat /\ pending.file # 0
  BY KeyNumbers, CallsAssumption DEF CredTypeOK, PendingKey, Recoveries
<1>1. shell' = shell /\ vault' = vault /\ saved' = saved /\ recoveries' = recoveries
  BY DEF BeginInitialize, BeginReset, TakePending, RememberReset, custody
<1>2. CASE BeginInitialize(c) \/ BeginReset(c)
  <2>1. /\ shell = "server" /\ pending # NoVault /\ pending' = NoVault /\ pending.file \in saved
        /\ \E op, current : BeginCall(c, op, pending.file, current, 0)
    BY <1>2 DEF BeginInitialize, BeginReset, OnServer, Confirmed, Claimable
  <2>2. /\ call'[c].file = pending.file /\ call'[c].step = "working"
        /\ \A e \in Calls : e # c => call'[e] = call[e]
    BY <2>1, BeginsCall DEF Becomes, OnDesktop
  <2> QED BY <1>0, <1>1, <2>1, <2>2
          DEF KeysKept, KeysMade, KeysSaved, KeysApart, RecoverySaved, UsesKey, HoldsKey
<1>3. CASE TakePending(c)
  <2>1. ASSUME EndCall(c), pending' = pending PROVE KeysKept'
    <3>1. QuietKeys
      BY <1>1, <2>1, EndsCall DEF QuietKeys, QuietCall, Becomes, UsesKey, HoldsKey
    <3> QED BY <3>1, QuietStays
  <2>2. ASSUME pending # NoVault, pending' = NoVault,
               call' = [call EXCEPT ![c].step = "taken", ![c].file = pending.file,
                                    ![c].current = pending.current]
        PROVE  KeysKept'
    <3>1. "taken" \in Steps
      BY DEF Steps
    <3>2. Becomes(c, call[c].op, "taken", pending.file, pending.current, call[c].key)
      BY <2>2, <3>1, NamesCall
    <3>3. /\ call'[c].file = pending.file /\ call'[c].step = "taken"
          /\ \A e \in Calls : e # c => call'[e] = call[e]
          /\ pending # NoVault /\ pending' = NoVault
      BY <2>2, <3>2 DEF Becomes
    <3>4. KeysMade'
      BY <1>1, <3>3 DEF KeysKept, KeysMade
    <3>5. KeysSaved' /\ RecoverySaved'
      BY <1>0, <1>1, <3>3 DEF KeysKept, KeysSaved, RecoverySaved, UsesKey, HoldsKey
    <3>6. KeysApart'
      BY <1>1, <3>3 DEF KeysKept, KeysApart, HoldsKey
    <3> QED BY <3>4, <3>5, <3>6 DEF KeysKept
  <2> QED BY <1>3, <2>1, <2>2 DEF TakePending
<1>4. CASE RememberReset(c)
  <2>1. /\ HoldsKey(call[c]) /\ EndCall(c) /\ shell # "server"
    BY <1>4 DEF RememberReset, CallAt, HoldsKey, ShellSteps
  <2>2. pending'.file = call[c].file
    BY <1>4 DEF RememberReset
  <2>3. /\ call'[c].file = 0 /\ call'[c].step = "idle"
        /\ \A e \in Calls : e # c => call'[e] = call[e]
    BY <2>1, EndsCall DEF Becomes
  <2> QED BY <1>0, <1>1, <2>1, <2>2, <2>3
          DEF KeysKept, KeysMade, KeysSaved, KeysApart, RecoverySaved, UsesKey, HoldsKey
<1> QED BY <1>2, <1>3, <1>4

\* A key is saved before it is used.
LEMMA WritersKeep ==
  ASSUME CredTypeOK, KeysKept, ShellSteps, NEW c \in Calls, WriteInitial(c) \/ WriteReplacement(c)
  PROVE  KeysKept'
<1>0. Len(recoveries) \in Nat
  BY KeyNumbers
<1>1. /\ shell' = shell /\ vault' = vault /\ recoveries' = recoveries
      /\ HoldsKey(call[c])
  BY DEF WriteInitial, WriteReplacement, CallAt, HoldsKey
<1>2. ASSUME EndCall(c), saved' = saved, pending' = pending PROVE KeysKept'
  <2>1. QuietKeys
    BY <1>1, <1>2, EndsCall DEF QuietKeys, QuietCall, Becomes, UsesKey, HoldsKey
  <2> QED BY <2>1, QuietStays
<1>3. ASSUME EndCall(c), saved' = saved, pending'.file = call[c].file PROVE KeysKept'
  <2>1. /\ call'[c].file = 0 /\ call'[c].step = "idle"
        /\ \A e \in Calls : e # c => call'[e] = call[e]
    BY <1>3, EndsCall DEF Becomes
  <2> QED BY <1>0, <1>1, <1>3, <2>1
          DEF KeysKept, KeysMade, KeysSaved, KeysApart, RecoverySaved, UsesKey, HoldsKey
<1>4. ASSUME saved' = saved \cup {call[c].file}, Moves(c, "written"), pending' = pending
      PROVE  KeysKept'
  <2>1. /\ call'[c].file = call[c].file /\ call'[c].step = "written"
        /\ \A e \in Calls : e # c => call'[e] = call[e]
    BY <1>4, MovesCall DEF Becomes, Steps
  <2> QED BY <1>0, <1>1, <1>4, <2>1
          DEF KeysKept, KeysMade, KeysSaved, KeysApart, RecoverySaved, UsesKey, HoldsKey
<1>5. CASE WriteInitial(c)
  BY <1>2, <1>4, <1>5 DEF WriteInitial
<1>6. CASE WriteReplacement(c)
  <2>1. \/ saved' = saved \cup {call[c].file} /\ Moves(c, "written") /\ pending' = pending
        \/ EndCall(c) /\ saved' = saved /\ pending'.file = call[c].file
    BY <1>6 DEF WriteReplacement
  <2> QED BY <1>3, <1>4, <2>1
<1> QED BY <1>5, <1>6

\* The vault is made or changed with a key that is saved; one that was not used
\* is removed from the files of the desktop.
LEMMA UsersKeep ==
  ASSUME CredTypeOK, KeysKept, ShellSteps, NEW c \in Calls,
         LandInitialize(c) \/ CommitInitialize(c) \/ LandReset(c) \/ CommitReset(c)
  PROVE  KeysKept'
<1>0. Len(recoveries) \in Nat
  BY KeyNumbers
<1>1. /\ shell' = shell /\ pending' = pending /\ recoveries' = recoveries
      /\ UsesKey(call[c])
  BY DEF LandInitialize, CommitInitialize, LandReset, CommitReset, custody, Works, CallAt, UsesKey
<1>2. ASSUME NEW k, Initializes(k) \/ \E current : ResetsPassword(current, k)
      PROVE  vault' # NoVault => vault'.recovery = k
  <2>1. CASE Initializes(k)
    BY <2>1 DEF Initializes
  <2>2. ASSUME NEW current, ResetsPassword(current, k) PROVE vault'.recovery = k
    BY <2>2 DEF ResetsPassword, Verifies, Readable, CredTypeOK, VaultFile
  <2> QED BY <1>2, <2>1, <2>2
<1>3. CASE LandInitialize(c) \/ LandReset(c)
  <2>1. /\ shell = "server" /\ saved' = saved
        /\ vault' = vault \/ (vault' # NoVault => vault'.recovery = call[c].file)
    BY <1>2, <1>3 DEF LandInitialize, LandReset, custody, Works, ShellSteps
  <2>2. /\ call'[c].file \in {0, call[c].file} /\ ~UsesKey(call'[c]) /\ ~HoldsKey(call'[c])
        /\ \A e \in Calls : e # c => call'[e] = call[e]
    BY <1>3, EndsCall, MovesCall DEF LandInitialize, LandReset, Becomes, Steps, UsesKey, HoldsKey
  <2>3. KeysMade'
    BY <1>0, <1>1, <2>1, <2>2 DEF KeysKept, KeysMade
  <2> QED BY <1>1, <2>1, <2>2, <2>3 DEF KeysKept, KeysSaved, KeysApart, RecoverySaved
<1>4. CASE CommitInitialize(c) \/ CommitReset(c)
  <2>1. /\ HoldsKey(call[c]) /\ EndCall(c) /\ shell # "server"
        /\ \/ saved' = saved /\ (vault' # NoVault => vault'.recovery = call[c].file)
           \/ saved' = saved \ {call[c].file} /\ vault' = vault
    BY <1>2, <1>4 DEF CommitInitialize, CommitReset, CallAt, ShellSteps, HoldsKey
  <2>2. /\ call'[c].file = 0 /\ ~UsesKey(call'[c]) /\ ~HoldsKey(call'[c])
        /\ \A e \in Calls : e # c => call'[e] = call[e]
    BY <2>1, EndsCall DEF Becomes, UsesKey, HoldsKey
  <2>3. shell = "desktop"
    BY <2>1 DEF CredTypeOK
  <2>4. KeysMade'
    BY <1>0, <1>1, <2>1, <2>2 DEF KeysKept, KeysMade
  <2>5. \A e \in Calls : UsesKey(call'[e]) => HoldsKey(call[e])
    BY <2>1, <2>2 DEF ShellSteps, UsesKey, HoldsKey
  <2>6. KeysSaved'
    BY <2>1, <2>2, <2>3, <2>5 DEF KeysKept, KeysSaved, KeysApart
  <2>7. RecoverySaved'
    BY <1>1, <2>1, <2>3 DEF KeysKept, KeysSaved, KeysApart, RecoverySaved
  <2>8. KeysApart'
    BY <1>1, <2>1, <2>2 DEF KeysKept, KeysApart
  <2> QED BY <2>4, <2>6, <2>7, <2>8 DEF KeysKept
<1> QED BY <1>3, <1>4

LEMMA KeysStay ==
  ASSUME CredTypeOK, ShellSteps, GateHolder, KeysKept, CredNext
  PROVE  KeysKept'
<1>1. CASE PrepareRecovery
  BY <1>1, PreparedKeeps
<1>2. ASSUME NEW c \in Calls, KeyStep(c) PROVE KeysKept'
  BY <1>2, MakersKeep, TakersKeep, WritersKeep, UsersKeep DEF KeyStep
<1> QED BY <1>1, <1>2, QuietStep, QuietStays

-----------------------------------------------------------------------------
(* Drafts of private keys. *)

\* What is a draft, or is being stored, was not stored before, as far as
\* anybody was told.
Unstored(d) == d \in unsure \/ stored[d] = 0
DraftsKept ==
  /\ draft # NoVault =>
       /\ draft \in 1..Len(stored)
       /\ \/ Unstored(draft)
          \/ \E c \in Calls : CallAt(c, "commit", "landed") /\ call[c].key = draft
  /\ \A c \in Calls : call[c].op = "commit" =>
       /\ call[c].key \in 1..Len(stored)
       /\ call[c].step = "working" => Unstored(call[c].key)
       /\ call[c].step = "orphan" => call[c].key \in unsure
StoredKept == DraftsKept /\ DraftStoredOnce

\* Steps that are about no draft, or drop it.
QuietDrafts ==
  /\ stored' = stored /\ unsure' = unsure /\ draft' \in {draft, NoVault}
  /\ \A c \in Calls :
       call'[c] = call[c] \/ (call'[c].op # "commit" /\ ~CallAt(c, "commit", "landed"))

LEMMA QuietDraftsStay ==
  ASSUME StoredKept, QuietDrafts
  PROVE  StoredKept'
<1>1. DraftStoredOnce'
  BY DEF StoredKept, DraftStoredOnce, QuietDrafts
<1>2. DraftsKept'
  BY DEF StoredKept, DraftsKept, Unstored, QuietDrafts, CallAt
<1> QED BY <1>1, <1>2 DEF StoredKept

DraftlessBegins(c) ==
  \/ BeginInitialize(c) \/ BeginPrepareReset(c) \/ BeginReset(c) \/ AskInitialize(c)
  \/ AskCurrent(c) \/ AskReset(c) \/ BeginGenerate(c) \/ BeginStore(c)
DraftlessGoesOn(c) ==
  \/ LandInitialize(c) \/ ReturnInitialize(c) \/ ReturnPrepareReset(c) \/ LandReset(c)
  \/ WriteInitial(c) \/ CommitInitialize(c) \/ RememberReset(c) \/ WriteReplacement(c)
  \/ CommitReset(c) \/ LandStore(c)
Draftless(c) == DraftlessBegins(c) \/ Names(c) \/ DraftlessGoesOn(c)
DraftStep(c) ==
  \/ CallHangsUp(c) \/ ReturnGenerate(c) \/ BeginCommit(c) \/ LandCommit(c) \/ ReturnCommit(c)

LEMMA KindsOfDraftSteps ==
  ASSUME CredNext
  PROVE  \/ RestartShell \/ PrepareKey \/ CommitAtOnce \/ Asides
         \/ \E c \in Calls : DraftStep(c) \/ Draftless(c)
BY DEF CredNext, DraftStep, Draftless, DraftlessBegins, DraftlessGoesOn, Names, Asides

LEMMA AsidesAndDrafts ==
  ASSUME Asides, ~PrepareKey, ~CommitAtOnce
  PROVE  stored' = stored /\ unsure' = unsure /\ draft' \in {draft, NoVault}
BY DEF Asides, drafting, PrepareRecovery, DownloadRecovery, CancelReset, CancelPrepared,
       UnlockVault, LockVault, LockLate, ClearVaultFile, SealVault, LoginExpires, CancelDraft,
       CreateCredential, DeleteCredential

LEMMA DraftlessStays ==
  ASSUME CredTypeOK, NEW c \in Calls, Draftless(c)
  PROVE  QuietDrafts
<1>1. UNCHANGED drafting
  BY DEF Draftless, DraftlessBegins, DraftlessGoesOn, Names, BeginInitialize, BeginPrepareReset,
         BeginReset, AskInitialize, AskCurrent, AskReset, BeginGenerate, BeginStore,
         LandInitialize, ReturnInitialize, ReturnPrepareReset, LandReset, WriteInitial,
         CommitInitialize, RememberReset, WriteReplacement, CommitReset, LandStore, MakeRecovery,
         VerifyCurrent, TakePending
<1>2. \A e \in Calls :
        call'[e] = call[e] \/ (call'[e].op # "commit" /\ ~CallAt(e, "commit", "landed"))
  <2>1. CASE DraftlessBegins(c)
    <3>1. \E k, current :
            \/ BeginCall(c, "initialize", k, current, 0) \/ BeginCall(c, "reset", k, current, 0)
            \/ BeginCall(c, "prepareReset", k, current, 0)
            \/ BeginCall(c, "generate", k, current, 0) \/ BeginCall(c, "store", k, current, 0)
      BY <2>1 DEF DraftlessBegins, BeginInitialize, BeginPrepareReset, BeginReset, AskInitialize,
                  AskCurrent, AskReset, BeginGenerate, BeginStore
    <3> QED BY <3>1, BeginsCall DEF Becomes, CallAt
  <2>2. CASE Names(c)
    <3>1. call[c].op # "commit"
      BY <2>2 DEF Names, MakeRecovery, VerifyCurrent, TakePending, CallAt
    <3> QED BY <2>2, <3>1, NamesKey, EndsCall DEF Becomes, CallAt
  <2>3. CASE DraftlessGoesOn(c)
    <3>1. call[c].op # "commit" /\ (EndCall(c) \/ Moves(c, "landed") \/ Moves(c, "written"))
      BY <2>3 DEF DraftlessGoesOn, Works, CallAt, LandInitialize, ReturnInitialize,
                  ReturnPrepareReset, LandReset, WriteInitial, CommitInitialize, RememberReset,
                  WriteReplacement, CommitReset, LandStore
    <3> QED BY <3>1, EndsCall, MovesCall DEF Becomes, CallAt, Steps
  <2> QED BY <2>1, <2>2, <2>3 DEF Draftless
<1> QED BY <1>1, <1>2 DEF drafting, QuietDrafts

\* A new draft was not stored.
LEMMA RememberKeeps ==
  ASSUME CredTypeOK, StoredKept, Remember, unsure' = unsure,
         \A e \in Calls :
           call'[e] = call[e] \/ (call'[e].op # "commit" /\ ~CallAt(e, "commit", "landed"))
  PROVE  StoredKept' /\ stored' \in Seq(0..2) /\ draft' \in KeyDrafts
<1>1. stored \in Seq(0..2) /\ Len(stored) \in Nat /\ Len(recoveries) \in Nat
  BY DEF CredTypeOK
<1>2. /\ Len(stored') = Len(stored) + 1 /\ stored'[Len(stored) + 1] = 0
      /\ \A d \in 1..Len(stored) : stored'[d] = stored[d]
      /\ draft' = Len(stored) + 1 /\ stored' \in Seq(0..2)
  BY <1>1 DEF Remember
<1>3. draft' \in KeyDrafts
  BY <1>1, <1>2, CallsAssumption DEF Remember, Room, KeyDrafts
<1>4. DraftStoredOnce'
  BY <1>1, <1>2 DEF StoredKept, DraftStoredOnce
<1>5. DraftsKept'
  BY <1>1, <1>2 DEF StoredKept, DraftsKept, Unstored, CallAt
<1> QED BY <1>2, <1>3, <1>4, <1>5 DEF StoredKept

\* A draft is stored.
LEMMA StoredAgainKeeps ==
  ASSUME CredTypeOK, StoredKept, NEW d \in 1..Len(stored), Unstored(d), StoredAgain(d)
  PROVE  /\ stored' \in Seq(0..2) /\ Len(stored') = Len(stored)
         /\ \A e \in 1..Len(stored) : e # d => stored'[e] = stored[e]
         /\ unsure' = unsure => DraftStoredOnce'
<1>1. stored \in Seq(0..2) /\ Len(stored) \in Nat
  BY DEF CredTypeOK
<1>2. /\ stored' \in Seq(0..2) /\ Len(stored') = Len(stored)
      /\ \A e \in 1..Len(stored) : e # d => stored'[e] = stored[e]
      /\ stored[d] = 0 => stored'[d] = 1
  BY <1>1 DEF StoredAgain
<1> QED BY <1>1, <1>2 DEF StoredKept, DraftStoredOnce, Unstored

LEMMA DraftsStay ==
  ASSUME CredTypeOK, ShellSteps, GateHolder, StoredKept, CredNext
  PROVE  StoredKept'
<1>1. CASE RestartShell
  <2>1. /\ draft' = NoVault /\ stored' = stored /\ unsure \subseteq unsure'
        /\ \A c \in Calls : call'[c].op # "commit"
    BY <1>1 DEF RestartShell, NoCall
  <2> QED BY <2>1 DEF StoredKept, DraftsKept, DraftStoredOnce
<1>2. CASE PrepareKey
  <2>1. Remember /\ unsure' = unsure /\ call' = call
    BY <1>2 DEF PrepareKey
  <2> QED BY <2>1, RememberKeeps
<1>3. CASE CommitAtOnce
  <2>1. /\ draft # NoVault /\ StoredAgain(draft) /\ draft' = NoVault
        /\ unsure' = unsure /\ call' = call
    BY <1>3 DEF CommitAtOnce
  <2>2. shell = "desktop"
    BY <1>3 DEF CommitAtOnce, OnDesktop
  <2>3. \A c \in Calls : call[c].step \notin {"working", "landed", "orphan"}
    BY <2>2 DEF ShellSteps
  <2>4. draft \in 1..Len(stored) /\ Unstored(draft)
    BY <2>1, <2>3 DEF StoredKept, DraftsKept, CallAt
  <2>5. Len(stored') = Len(stored) /\ DraftStoredOnce'
    BY <2>1, <2>4, StoredAgainKeeps
  <2> QED BY <2>1, <2>3, <2>5 DEF StoredKept, DraftsKept
<1>4. ASSUME NEW c \in Calls, CallHangsUp(c) PROVE StoredKept'
  <2>1. /\ draft' = draft /\ stored' = stored /\ unsure \subseteq unsure'
        /\ call[c].op = "commit" => call[c].key \in unsure'
    BY <1>4 DEF CallHangsUp
  <2>2. /\ \/ call'[c].op # "commit"
           \/ call'[c].op = call[c].op /\ call'[c].step = "orphan" /\ call'[c].key = call[c].key
        /\ \A e \in Calls : e # c => call'[e] = call[e]
    BY <1>4, EndsCall, MovesCall DEF CallHangsUp, Becomes, Steps
  <2> QED BY <2>1, <2>2 DEF StoredKept, DraftsKept, DraftStoredOnce, Unstored, CallAt
<1>5. ASSUME NEW c \in Calls, ReturnGenerate(c) PROVE StoredKept'
  <2>1. Remember /\ unsure' = unsure /\ EndCall(c) /\ CallAt(c, "generate", "working")
    BY <1>5 DEF ReturnGenerate
  <2>2. \A e \in Calls :
          call'[e] = call[e] \/ (call'[e].op # "commit" /\ ~CallAt(e, "commit", "landed"))
    BY <2>1, EndsCall DEF Becomes, CallAt
  <2> QED BY <2>1, <2>2, RememberKeeps
<1>6. ASSUME NEW c \in Calls, BeginCommit(c) PROVE StoredKept'
  <2>1. /\ draft # NoVault /\ BeginCall(c, "commit", 0, 0, draft)
        /\ \A e \in Calls : call[e].step # "landed"
        /\ UNCHANGED <<draft, stored, unsure>>
    BY <1>6 DEF BeginCommit, OnServer, drafting
  <2>2. draft \in 1..Len(stored) /\ Unstored(draft)
    BY <2>1 DEF StoredKept, DraftsKept, CallAt
  <2>3. /\ call'[c].key = draft /\ call'[c].step \in {"dialog", "working"}
        /\ \A e \in Calls : e # c => call'[e] = call[e]
    BY <2>1, BeginsCall DEF Becomes
  <2> QED BY <2>1, <2>2, <2>3 DEF StoredKept, DraftsKept, DraftStoredOnce, Unstored, CallAt
<1>7. ASSUME NEW c \in Calls, LandCommit(c) PROVE StoredKept'
  <2>1. ASSUME stored' = stored, EndCall(c) PROVE StoredKept'
    <3>1. QuietDrafts
      BY <1>7, <2>1, EndsCall DEF LandCommit, Works, QuietDrafts, Becomes, CallAt
    <3> QED BY <3>1, QuietDraftsStay
  <2>2. ASSUME StoredAgain(call[c].key),
               IF call[c].step = "orphan" THEN EndCall(c) ELSE Moves(c, "landed")
        PROVE  StoredKept'
    <3>1. /\ call[c].op = "commit" /\ call[c].step \in {"working", "orphan"}
          /\ draft' = draft /\ unsure' = unsure
      BY <1>7 DEF LandCommit, Works
    <3>2. PICK d : d = call[c].key
      OBVIOUS
    <3>3. d \in 1..Len(stored) /\ Unstored(d) /\ (call[c].step = "orphan" => d \in unsure)
      BY <3>1, <3>2 DEF StoredKept, DraftsKept, Unstored
    <3>4. /\ Len(stored') = Len(stored) /\ DraftStoredOnce'
          /\ \A e \in 1..Len(stored) : e # d => stored'[e] = stored[e]
      BY <2>2, <3>1, <3>2, <3>3, StoredAgainKeeps
    <3>5. /\ \/ call[c].step = "orphan" /\ call'[c].op = "none"
             \/ /\ call[c].step = "working" /\ call'[c].op = "commit" /\ call'[c].step = "landed"
                /\ call'[c].key = d
          /\ \A e \in Calls : e # c => call'[e] = call[e]
      BY <2>2, <3>1, <3>2, EndsCall, MovesCall DEF Becomes, Steps
    <3>6. \A e \in Calls : e # c /\ call[c].step = "working"
            => call[e].step \notin {"working", "landed"}
      BY DEF GateHolder, InGate
    <3>7. DraftsKept'
      BY <3>1, <3>3, <3>4, <3>5, <3>6 DEF StoredKept, DraftsKept, Unstored, CallAt
    <3> QED BY <3>4, <3>7 DEF StoredKept
  <2> QED BY <1>7, <2>1, <2>2 DEF LandCommit
<1>8. ASSUME NEW c \in Calls, ReturnCommit(c) PROVE StoredKept'
  <2>1. /\ call[c].op = "commit" /\ call[c].step = "landed" /\ EndCall(c)
        /\ draft' = IF draft = call[c].key THEN NoVault ELSE draft
        /\ UNCHANGED <<stored, unsure>>
    BY <1>8 DEF ReturnCommit, CallAt
  <2>2. /\ call'[c].op = "none" /\ \A e \in Calls : e # c => call'[e] = call[e]
    BY <2>1, EndsCall DEF Becomes
  <2>3. \A e \in Calls : call[e].step = "landed" => e = c
    BY <2>1 DEF GateHolder, InGate
  <2>4. DraftStoredOnce'
    BY <2>1 DEF StoredKept, DraftStoredOnce
  <2>5. DraftsKept'
    BY <2>1, <2>2, <2>3 DEF StoredKept, DraftsKept, Unstored, CallAt
  <2> QED BY <2>4, <2>5 DEF StoredKept
<1>9. CASE Asides /\ ~PrepareKey /\ ~CommitAtOnce
  <2>1. QuietDrafts
    BY <1>9, AsidesAndDrafts, AsidesStay DEF QuietDrafts
  <2> QED BY <2>1, QuietDraftsStay
<1>10. ASSUME NEW c \in Calls, Draftless(c) PROVE StoredKept'
  BY <1>10, DraftlessStays, QuietDraftsStay
<1> QED
  BY <1>1, <1>2, <1>3, <1>4, <1>5, <1>6, <1>7, <1>8, <1>9, <1>10, KindsOfDraftSteps DEF DraftStep

-----------------------------------------------------------------------------
(* Types. *)

LEMMA CallsTyped ==
  ASSUME CredTypeOK, CredNext
  PROVE  call' \in [Calls -> Call] /\ shell' = shell
<1>0. /\ {MaxKeys, MaxLogins} \subseteq Nat /\ call \in [Calls -> Call] /\ saved \subseteq 0..MaxKeys
      /\ pending # NoVault => {pending.file, pending.current} \subseteq 0..MaxKeys
      /\ draft # NoVault => draft \in 0..MaxKeys
  BY CallsAssumption DEF CredTypeOK, PendingKey, Recoveries, KeyDrafts
<1>1. CASE RestartShell
  BY <1>0, <1>1 DEF RestartShell, NoCall, Call
<1>2. CASE Asides
  BY <1>0, <1>2, AsidesStay
<1>3. ASSUME NEW c \in Calls, Begins(c) PROVE call' \in [Calls -> Call] /\ shell' = shell
  <2>1. \E op \in CallOps, k \in 0..MaxKeys, current \in 0..MaxKeys, d \in 0..MaxKeys :
          BeginCall(c, op, k, current, d)
    <3>1. 0 \in 0..MaxKeys
      BY <1>0
    <3> QED BY <1>0, <1>3, <3>1 DEF CallOps, Begins, BeginInitialize, BeginPrepareReset, BeginReset,
         AskInitialize, AskCurrent, AskReset, BeginGenerate, BeginStore, BeginCommit, Confirmed,
         Claimable
  <2> QED BY <1>3, <2>1, BeginsCall, BeginsRequest
<1>4. ASSUME NEW c \in Calls, Names(c) PROVE call' \in [Calls -> Call] /\ shell' = shell
  <2>1. "taken" \in Steps /\ "verified" \in Steps
    BY DEF Steps
  <2>2. CASE TakePending(c)
    <3>1. ASSUME pending # NoVault,
                 call' = [call EXCEPT ![c].step = "taken", ![c].file = pending.file,
                                      ![c].current = pending.current]
          PROVE  call' \in [Calls -> Call]
      <4>1. pending.file \in 0..MaxKeys /\ pending.current \in 0..MaxKeys
        BY <1>0, <3>1
      <4> QED BY <2>1, <3>1, <4>1, NamesCall
    <3> QED BY <2>2, <3>1, EndsCall DEF TakePending
  <2>3. CASE MakeRecovery(c) \/ VerifyCurrent(c)
    <3>1. Room => Newest \in 0..MaxKeys
      <4>1. Len(recoveries) \in Nat /\ Len(stored) \in Nat
        BY DEF CredTypeOK
      <4> QED BY <1>0, <4>1 DEF Room, Newest
    <3>2. call[c].current \in 0..MaxKeys
      BY <1>0 DEF Call
    <3>3. ASSUME Room, NEW step \in Steps,
                 call' = [call EXCEPT ![c].step = step, ![c].file = Newest]
          PROVE  call' \in [Calls -> Call]
      <4>1. Newest \in 0..MaxKeys /\ call[c].current \in 0..MaxKeys
        BY <3>1, <3>2, <3>3
      <4> QED BY <3>3, <4>1, NamesCall
    <3> QED BY <2>1, <2>3, <3>3, EndsCall DEF MakeRecovery, VerifyCurrent
  <2> QED BY <1>4, <2>2, <2>3, NamesKey DEF Names
<1>5. ASSUME NEW c \in Calls, GoesOn(c) PROVE call' \in [Calls -> Call] /\ shell' = shell
  BY <1>5, RequestGoesOn, EndsCall, MovesCall DEF Steps
<1> QED BY <1>1, <1>2, <1>3, <1>4, <1>5, KindsOfRequests DEF RestartShell

LEMMA VaultWriters ==
  ASSUME CredNext
  PROVE  \/ vault' \in {vault, NoVault}
         \/ Readable /\ vault' = [vault EXCEPT !.items = @ + 1]
         \/ Readable /\ vault.items > 0 /\ vault' = [vault EXCEPT !.items = @ - 1]
         \/ \E c \in Calls : UsesKey(call[c]) /\ Initializes(call[c].file)
         \/ \E c \in Calls : UsesKey(call[c]) /\ ResetsPassword(call[c].current, call[c].file)
BY ZenonT(60) DEF CredNext, UsesKey, Works, CallAt, StoresItem, PrepareRecovery, DownloadRecovery, CancelReset, CancelPrepared,
  UnlockVault, LockVault, LockLate, ClearVaultFile, SealVault, LoginExpires, RestartShell,
  PrepareKey, CommitAtOnce, CancelDraft, CreateCredential, DeleteCredential, CallHangsUp,
  BeginInitialize, LandInitialize, ReturnInitialize, BeginPrepareReset, ReturnPrepareReset,
  BeginReset, LandReset, AskInitialize, MakeRecovery, WriteInitial, CommitInitialize,
  AskCurrent, VerifyCurrent, RememberReset, AskReset, TakePending, WriteReplacement, CommitReset,
  BeginGenerate, ReturnGenerate, BeginStore, LandStore, BeginCommit, LandCommit, ReturnCommit

LEMMA VaultTyped ==
  ASSUME CredTypeOK, KeysKept, CredNext
  PROVE  vault' \in VaultFile \cup {NoVault}
<1>0. /\ vault \in VaultFile \cup {NoVault} /\ MaxItems \in Nat /\ MaxKeys \in Nat
      /\ recoveries \in Seq([vault : Recoveries, generation : Recoveries])
      /\ Len(recoveries) \in Nat
  BY CallsAssumption DEF CredTypeOK
<1>1. CASE Readable /\ \E n \in 0..(MaxItems + 1) : vault' = [vault EXCEPT !.items = n]
  BY <1>0, <1>1 DEF Readable, VaultFile
<1>2. Readable => /\ vault.items + 1 \in 0..(MaxItems + 1)
                  /\ vault.items > 0 => vault.items - 1 \in 0..(MaxItems + 1)
  BY <1>0 DEF Readable, VaultFile
<1>3. ASSUME NEW c \in Calls, UsesKey(call[c])
      PROVE  /\ call[c].file \in Recoveries
             /\ recoveries[call[c].file] \in [vault : Recoveries, generation : Recoveries]
  <2>1. call[c].file \in Recoveries /\ call[c].file <= Len(recoveries)
    BY <1>3 DEF KeysKept, KeysSaved, KeysMade, CredTypeOK
  <2>2. call[c].file \in 1..Len(recoveries)
    BY <1>0, <2>1 DEF Recoveries
  <2>3. \A k \in 1..Len(recoveries) : recoveries[k] \in [vault : Recoveries, generation : Recoveries]
    <3>1. ASSUME NEW S, recoveries \in Seq(S)
          PROVE  \A k \in 1..Len(recoveries) : recoveries[k] \in S
      BY <3>1
    <3> QED BY <1>0, <3>1
  <2> QED BY <2>1, <2>2, <2>3
<1>4. ASSUME NEW c \in Calls, UsesKey(call[c]), Initializes(call[c].file)
      PROVE  vault' \in VaultFile
  <2>1. PICK k : k = call[c].file
    OBVIOUS
  <2>2. /\ k \in Recoveries
        /\ recoveries[k] \in [vault : Recoveries, generation : Recoveries]
    BY <1>3, <1>4, <2>1
  <2>3. vault' = [id |-> recoveries[k].vault, generation |-> 1, recovery |-> k, items |-> 0]
    BY <1>4, <2>1 DEF Initializes
  <2>4. recoveries[k].vault \in Recoveries
    BY <2>2
  <2>5. 1 \in Recoveries /\ 0 \in 0..(MaxItems + 1)
    BY <1>0, <2>2 DEF Recoveries
  <2> QED BY <2>2, <2>3, <2>4, <2>5 DEF VaultFile
<1>5. ASSUME NEW c \in Calls, UsesKey(call[c]), ResetsPassword(call[c].current, call[c].file)
      PROVE  vault' \in VaultFile
  <2>1. PICK k : k = call[c].file
    OBVIOUS
  <2>2. PICK g : g = vault.generation + 1
    OBVIOUS
  <2>3. /\ k \in Recoveries /\ vault \in VaultFile /\ recoveries[k].generation = g
        /\ vault' = [vault EXCEPT !.generation = g, !.recovery = k]
    BY <1>0, <1>3, <1>5, <2>1, <2>2 DEF ResetsPassword, Verifies, Readable
  <2>4. recoveries[k] \in [vault : Recoveries, generation : Recoveries]
    BY <1>3, <1>5, <2>1
  <2>5. g \in Recoveries
    BY <2>3, <2>4
  <2> QED BY <2>3, <2>5 DEF VaultFile
<1> QED BY <1>0, <1>1, <1>2, <1>4, <1>5, VaultWriters

\* The recovery keys that are made, saved and prepared.
LEMMA KeysTyped ==
  ASSUME CredTypeOK, KeysKept, CredNext
  PROVE  /\ recoveries' \in Seq([vault : Recoveries, generation : Recoveries])
         /\ saved' \subseteq Recoveries /\ pending' \in PendingKey \cup {NoVault}
<1> DEFINE made == Room /\ (MakeInitial \/ (MakeNext /\ \E k : Verifies(k)))
           typed == /\ recoveries' = recoveries \/ made
                    /\ saved' \subseteq Recoveries /\ pending' \in PendingKey \cup {NoVault}
<1>0. /\ recoveries \in Seq([vault : Recoveries, generation : Recoveries])
      /\ saved \subseteq Recoveries /\ pending \in PendingKey \cup {NoVault}
      /\ login \in 0..MaxLogins /\ 0 \in 0..MaxKeys
  BY CallsAssumption DEF CredTypeOK
<1>1. ASSUME NEW c \in Calls
      PROVE  /\ call[c].current \in 0..MaxKeys /\ call[c].owner \in 0..MaxLogins
             /\ HoldsKey(call[c]) => call[c].file \in Recoveries
  <2>1. call[c] \in Call
    BY DEF CredTypeOK
  <2> QED BY <2>1 DEF Call, KeysKept, KeysSaved, Recoveries
<1>2. Room => Newest \in Recoveries
  <2>1. Len(recoveries) \in Nat /\ Len(stored) \in Nat
    BY DEF CredTypeOK
  <2> QED BY <2>1, CallsAssumption DEF Room, Newest, Recoveries
<1>3. ASSUME NEW file \in Recoveries, NEW current \in 0..MaxKeys, NEW owner \in 0..MaxLogins
      PROVE  [file |-> file, current |-> current, downloaded |-> FALSE, owner |-> owner]
               \in PendingKey
  BY DEF PendingKey
<1>4. ASSUME RestartShell PROVE typed
  BY <1>0, <1>4 DEF RestartShell, custody
<1>5. ASSUME PrepareRecovery PROVE typed
  <2>1. /\ Room /\ MakeInitial /\ saved' = saved
        /\ pending' = [file |-> Newest, current |-> 0, downloaded |-> FALSE, owner |-> login]
    BY <1>5 DEF PrepareRecovery
  <2> QED BY <1>0, <1>2, <1>3, <2>1
<1>6. ASSUME DownloadRecovery PROVE typed
  <2>1. pending' \in PendingKey /\ pending.file \in Recoveries
    BY <1>0, <1>6 DEF DownloadRecovery, PendingKey
  <2> QED BY <1>0, <1>6, <2>1 DEF DownloadRecovery
<1>7. ASSUME Asides, ~PrepareRecovery, ~DownloadRecovery PROVE typed
  <2>1. UNCHANGED custody /\ pending' \in {pending, NoVault}
    BY <1>7 DEF Asides, CancelReset, CancelPrepared, UnlockVault, LockVault, LockLate,
         ClearVaultFile, SealVault, LoginExpires, PrepareKey, CommitAtOnce, CancelDraft,
         CreateCredential, DeleteCredential, custody
  <2> QED BY <1>0, <2>1 DEF custody
<1>8. ASSUME NEW c \in Calls, Begins(c) PROVE typed
  <2>1. UNCHANGED custody /\ pending' \in {pending, NoVault}
    BY <1>8 DEF Begins, BeginInitialize, BeginPrepareReset, BeginReset, AskInitialize, custody,
         AskCurrent, AskReset, BeginGenerate, BeginStore, BeginCommit
  <2> QED BY <1>0, <2>1 DEF custody
<1>9. ASSUME NEW c \in Calls, Names(c) PROVE typed
  <2>1. /\ recoveries' = recoveries \/ made
        /\ saved' = saved /\ pending' \in {pending, NoVault}
    BY <1>9 DEF Names, MakeRecovery, VerifyCurrent, TakePending, custody
  <2> QED BY <1>0, <2>1
<1>10. ASSUME NEW c \in Calls, ReturnPrepareReset(c) PROVE typed
  <2>1. /\ recoveries' = recoveries \/ made
        /\ saved' = saved
        /\ \/ pending' = pending
           \/ /\ Room
              /\ pending' = [file |-> Newest, current |-> call[c].current,
                             downloaded |-> FALSE, owner |-> call[c].owner]
    BY <1>10 DEF ReturnPrepareReset
  <2> QED BY <1>0, <1>1, <1>2, <1>3, <2>1
<1>11. ASSUME NEW c \in Calls, RememberReset(c) \/ WriteInitial(c) \/ WriteReplacement(c)
       PROVE  typed
  <2>1. /\ HoldsKey(call[c]) /\ recoveries' = recoveries
        /\ saved' \in {saved, saved \cup {call[c].file}}
        /\ \/ pending' = pending
           \/ pending' = [file |-> call[c].file, current |-> call[c].current,
                          downloaded |-> FALSE, owner |-> login]
    BY <1>11 DEF RememberReset, WriteInitial, WriteReplacement, CallAt, HoldsKey, custody
  <2> QED BY <1>0, <1>1, <1>3, <2>1
<1>12. ASSUME NEW c \in Calls, GoesOn(c), ~ReturnPrepareReset(c), ~RememberReset(c),
              ~WriteInitial(c), ~WriteReplacement(c)
       PROVE  typed
  <2>1. recoveries' = recoveries /\ saved' \subseteq saved /\ pending' = pending
    BY <1>12 DEF GoesOn, CallHangsUp, LandInitialize, ReturnInitialize, LandReset, CommitInitialize,
       CommitReset, ReturnGenerate, LandStore, LandCommit, ReturnCommit, custody
  <2> QED BY <1>0, <2>1
<1>13. typed
  BY <1>4, <1>5, <1>6, <1>7, <1>8, <1>9, <1>10, <1>11, <1>12, KindsOfRequests
<1>14. made => recoveries' \in Seq([vault : Recoveries, generation : Recoveries])
  BY KeyMade
<1> QED BY <1>0, <1>13, <1>14

LEMMA DraftsTyped ==
  ASSUME CredTypeOK, ShellSteps, StoredKept, CredNext
  PROVE  draft' \in KeyDrafts \cup {NoVault} /\ stored' \in Seq(0..2) /\ unsure' \subseteq KeyDrafts
<1> DEFINE typed == /\ draft' \in KeyDrafts \cup {NoVault} /\ stored' \in Seq(0..2)
                    /\ unsure' \subseteq KeyDrafts
<1>0. /\ draft \in KeyDrafts \cup {NoVault} /\ stored \in Seq(0..2) /\ unsure \subseteq KeyDrafts
      /\ \A c \in Calls : call[c].key # 0 => call[c].key \in KeyDrafts
  <2>1. \A c \in Calls : call[c].key \in 0..MaxKeys
    BY DEF CredTypeOK, Call
  <2> QED BY <2>1, CallsAssumption DEF CredTypeOK, KeyDrafts
<1>1. ASSUME RestartShell PROVE typed
  BY <1>0, <1>1 DEF RestartShell
<1>2. ASSUME PrepareKey PROVE typed
  <2>1. Remember /\ unsure' = unsure /\ call' = call
    BY <1>2 DEF PrepareKey
  <2> QED BY <1>0, <2>1, RememberKeeps
<1>3. ASSUME NEW d \in 1..Len(stored), StoredAgain(d) PROVE stored' \in Seq(0..2)
  BY <1>0, <1>3 DEF StoredAgain
<1>4. ASSUME CommitAtOnce PROVE typed
  <2>1. draft \in 1..Len(stored) /\ StoredAgain(draft) /\ draft' = NoVault /\ unsure' = unsure
    BY <1>4 DEF CommitAtOnce, StoredKept, DraftsKept
  <2> QED BY <1>0, <1>3, <2>1
<1>5. ASSUME NEW c \in Calls, CallHangsUp(c) PROVE typed
  <2>1. /\ draft' = draft /\ stored' = stored
        /\ unsure' = unsure \/ (call[c].op = "commit" /\ unsure' = unsure \cup {call[c].key})
    BY <1>5 DEF CallHangsUp
  <2>2. call[c].op = "commit" => call[c].key # 0
    BY DEF StoredKept, DraftsKept
  <2> QED BY <1>0, <2>1, <2>2
<1>6. ASSUME NEW c \in Calls, ReturnGenerate(c) PROVE typed
  <2>1. Remember /\ unsure' = unsure /\ EndCall(c) /\ CallAt(c, "generate", "working")
    BY <1>6 DEF ReturnGenerate
  <2>2. \A e \in Calls :
          call'[e] = call[e] \/ (call'[e].op # "commit" /\ ~CallAt(e, "commit", "landed"))
    BY <2>1, EndsCall DEF Becomes, CallAt
  <2> QED BY <1>0, <2>1, <2>2, RememberKeeps
<1>7. ASSUME NEW c \in Calls, BeginCommit(c) \/ ReturnCommit(c) PROVE typed
  BY <1>0, <1>7 DEF BeginCommit, ReturnCommit, drafting
<1>8. ASSUME NEW c \in Calls, LandCommit(c) PROVE typed
  <2>1. draft' = draft /\ unsure' = unsure /\ (stored' = stored \/ StoredAgain(call[c].key))
    BY <1>8 DEF LandCommit
  <2>2. call[c].key \in 1..Len(stored)
    BY <1>8 DEF LandCommit, Works, StoredKept, DraftsKept
  <2> QED BY <1>0, <1>3, <2>1, <2>2
<1>9. ASSUME Asides, ~PrepareKey, ~CommitAtOnce PROVE typed
  BY <1>0, <1>9, AsidesAndDrafts
<1>10. ASSUME NEW c \in Calls, Draftless(c) PROVE typed
  BY <1>0, <1>10, DraftlessStays DEF QuietDrafts
<1> QED
  BY <1>1, <1>2, <1>4, <1>5, <1>6, <1>7, <1>8, <1>9, <1>10, KindsOfDraftSteps DEF DraftStep

LEMMA CredRestTyped ==
  ASSUME CredTypeOK, CredNext
  PROVE  unlocked' \in BOOLEAN /\ login' \in 0..MaxLogins
<1>0. unlocked \in BOOLEAN /\ login \in 0..MaxLogins /\ MaxLogins \in Nat
  BY CallsAssumption DEF CredTypeOK
<1>1. \/ login' \in {login, login + 1} \cap 0..MaxLogins
      \/ login' = login \/ (login < MaxLogins /\ login' = login + 1)
  BY DEF CredNext, PrepareRecovery, DownloadRecovery, CancelReset, CancelPrepared,
  UnlockVault, LockVault, LockLate, ClearVaultFile, SealVault, LoginExpires, RestartShell,
  PrepareKey, CommitAtOnce, CancelDraft, CreateCredential, DeleteCredential, CallHangsUp,
  BeginInitialize, LandInitialize, ReturnInitialize, BeginPrepareReset, ReturnPrepareReset,
  BeginReset, LandReset, AskInitialize, MakeRecovery, WriteInitial, CommitInitialize,
  AskCurrent, VerifyCurrent, RememberReset, AskReset, TakePending, WriteReplacement, CommitReset,
  BeginGenerate, ReturnGenerate, BeginStore, LandStore, BeginCommit, LandCommit, ReturnCommit
<1>2. \/ unlocked' = unlocked \/ unlocked' = TRUE \/ unlocked' = FALSE
      \/ \E c \in Calls : unlocked' = (unlocked /\ call[c].owner = login)
  BY DEF CredNext, Initializes, ResetsPassword, StoresItem, PrepareRecovery, DownloadRecovery, CancelReset, CancelPrepared,
  UnlockVault, LockVault, LockLate, ClearVaultFile, SealVault, LoginExpires, RestartShell,
  PrepareKey, CommitAtOnce, CancelDraft, CreateCredential, DeleteCredential, CallHangsUp,
  BeginInitialize, LandInitialize, ReturnInitialize, BeginPrepareReset, ReturnPrepareReset,
  BeginReset, LandReset, AskInitialize, MakeRecovery, WriteInitial, CommitInitialize,
  AskCurrent, VerifyCurrent, RememberReset, AskReset, TakePending, WriteReplacement, CommitReset,
  BeginGenerate, ReturnGenerate, BeginStore, LandStore, BeginCommit, LandCommit, ReturnCommit
<1>3. login' \in 0..MaxLogins
  BY <1>0, <1>1
<1>4. unlocked' \in BOOLEAN
  BY <1>0, <1>2, Zenon
<1> QED BY <1>3, <1>4

-----------------------------------------------------------------------------
(* The inductive invariant of the requests, and what it says. *)

CredInv == CredTypeOK /\ ShellSteps /\ GateHolder /\ KeysKept /\ StoredKept

LEMMA CredInitInv == CredInit => CredInv
<1> SUFFICES ASSUME CredInit PROVE CredInv
  OBVIOUS
<1>1. {MaxKeys, MaxItems, MaxLogins} \subseteq Nat /\ MaxKeys > 0
  BY CallsAssumption
<1>2. /\ call \in [Calls -> Call]
      /\ \A c \in Calls : call[c].step = "idle" /\ call[c].op = "none" /\ call[c].file = 0
  BY <1>1 DEF CredInit, NoCall, Call
<1>3. PICK q : q = [vault |-> 1, generation |-> 1]
  OBVIOUS
<1>4. q \in [vault : Recoveries, generation : Recoveries] /\ q.generation = 1 /\ 1 \in Recoveries
  BY <1>1, <1>3 DEF Recoveries
<1>5. /\ vault \in VaultFile \cup {NoVault}
      /\ recoveries \in Seq([vault : Recoveries, generation : Recoveries]) /\ saved \subseteq Recoveries
      /\ \A k \in 1..Len(recoveries) : recoveries[k].generation <= k
      /\ vault # NoVault => vault.recovery \in saved /\ vault.recovery <= Len(recoveries)
  <2>1. CASE vault = NoVault /\ recoveries = <<>> /\ saved = {}
    BY <2>1
  <2>2. CASE /\ vault = [id |-> 1, generation |-> 1, recovery |-> 1, items |-> 0]
             /\ recoveries = <<q>> /\ saved = {1}
    <3>1. vault \in VaultFile /\ vault.recovery = 1
      BY <1>1, <1>4, <2>2 DEF VaultFile
    <3> QED BY <1>4, <2>2, <3>1
  <2> QED BY <1>3, <2>1, <2>2 DEF CredInit
<1>6. CredTypeOK
  <2>1. /\ shell \in {"server", "desktop"} /\ unlocked \in BOOLEAN /\ login = 0
        /\ pending = NoVault /\ draft = NoVault /\ stored = <<>> /\ unsure = {}
    BY DEF CredInit
  <2>2. stored \in Seq(0..2) /\ login \in 0..MaxLogins
    BY <1>1, <2>1
  <2> QED BY <1>2, <1>5, <2>1, <2>2 DEF CredTypeOK
<1>7. ShellSteps /\ GateHolder
  BY <1>2, <1>6 DEF CredTypeOK, ShellSteps, GateHolder, InGate
<1>8. KeysKept
  BY <1>2, <1>5, KeyNumbers, <1>6
     DEF CredInit, KeysKept, KeysMade, KeysSaved, KeysApart, RecoverySaved, UsesKey, HoldsKey
<1>9. StoredKept
  BY <1>2 DEF CredInit, StoredKept, DraftsKept, DraftStoredOnce
<1> QED BY <1>6, <1>7, <1>8, <1>9 DEF CredInv

LEMMA CredNextInv == CredInv /\ [CredNext]_credVars => CredInv'
<1> SUFFICES ASSUME CredInv, [CredNext]_credVars PROVE CredInv'
  OBVIOUS
<1>1. CASE CredNext
  <2>1. CredTypeOK'
    BY <1>1, CallsTyped, VaultTyped, KeysTyped, DraftsTyped, CredRestTyped DEF CredInv, CredTypeOK
  <2> QED BY <1>1, <2>1, GateStays, KeysStay, DraftsStay DEF CredInv
<1>2. CASE UNCHANGED credVars
  BY <1>2 DEF credVars, custody, drafting, CredInv, CredTypeOK, ShellSteps, GateHolder, InGate,
              KeysKept, KeysMade, KeysSaved, KeysApart, RecoverySaved, StoredKept, DraftsKept,
              Unstored, CallAt, DraftStoredOnce
<1> QED BY <1>1, <1>2

\* The inductive invariant of the requests holds in every state.
THEOREM CredInvariant == CredSpec => []CredInv
BY CredInitInv, CredNextInv, PTL DEF CredSpec

\* Every state of CredentialRequests is well typed.
THEOREM CredTypeCorrect == CredSpec => []CredTypeOK
BY CredInvariant, PTL DEF CredInv

\* A vault can be opened without its password: its recovery key is saved.
THEOREM RecoveryStaysSaved == CredSpec => []RecoverySaved
BY CredInvariant, PTL DEF CredInv, KeysKept

\* No draft of a private key is stored twice without anybody having been told.
THEOREM DraftsStoredOnce == CredSpec => []DraftStoredOnce
BY CredInvariant, PTL DEF CredInv, StoredKept
=============================================================================
