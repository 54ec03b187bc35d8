------------------------------- MODULE Loaders -------------------------------
(***************************************************************************)
(* The managers of ArcheCore.WorldServer that main() fills from the        *)
(* database and CharTemplates.json before it starts the servers.  A table  *)
(* is a sequence of rows, a row keeps the columns something later depends  *)
(* on.  Nothing runs beside main() yet, so a manager's Initialize is one   *)
(* step; what can go wrong is the order of the managers and of the tables  *)
(* within one, and the values that maps hand out for keys they lack.       *)
(***************************************************************************)
EXTENDS Integers, FiniteSets, FiniteSetsExt, SequencesExt, TLC

CONSTANTS
    Databases,  \* the contents of database and json that are tried
    JunkBytes,  \* what an uninitialised inventory size may hold
    JunkPacks,  \* what an uninitialised EquipItemsTemplate may hold
    JunkGrades  \* and an uninitialised FixedGrade

\* A table is a sequence of rows whose numbers are unsigned, as in the structures the
\* rows are read into.  A body part has one of the seven slots of CharacterTemplate:
\* another would be written beside the array.
BodySlotTypes == 23..29
Pieces(pack) == \A f \in DOMAIN pack : pack[f].id \in Nat
ASSUME DatabasesHaveTables ==
    /\ JunkBytes \subseteq 0..255
    /\ \A d \in Databases :
          /\ d.factions \in Seq(Range(d.factions))
          /\ d.relations \in Seq(Range(d.relations))
          /\ \A i \in DOMAIN d.factions : d.factions[i].id \in Nat
          /\ \A i \in DOMAIN d.relations :
                d.relations[i].id \in Nat /\ d.relations[i].id2 \in Nat
          /\ d.skills \in Seq(Range(d.skills))
          /\ d.defaultSkills \in Seq([id : Nat, slot : Nat, add : BOOLEAN])
          /\ d.characters \in Seq([race : Nat, gender : Nat, model : Nat])
          /\ d.config \in Seq([id : Nat, bag : Nat, bank : Nat])
          /\ d.bodyParts \in Seq([id : Nat, model : Nat, slotTypeId : BodySlotTypes])
          /\ d.packs \in Seq([ability : Nat, cloth : Nat, weapon : Nat])
          /\ d.supplies \in Seq(Range(d.supplies))
          /\ \A i \in DOMAIN d.supplies : d.supplies[i].ability \in Nat
          /\ \A c \in DOMAIN d.cloths : Pieces(d.cloths[c])
          /\ \A w \in DOMAIN d.arms : Pieces(d.arms[w])

VARIABLES
    phase,           \* how far main() is in LoadOrder, or 0 when it returned
    db,              \* the database and the json of this run
    m_Translations,
    s_SystemFactions,
    s_Relations,
    parts,           \* ItemManager's maps of looks, holdables and wearables
    m_EquipItemSets,
    m_ItemTemplates,
    itemTables,      \* the tables of ItemManager that nothing reads yet
    skillTemplates,  \* SkillManager::m_SkillTemplates
    m_DefaultSkills,
    m_StartAbilitySkills,
    m_Templates,     \* CharacterManager's, by race and gender
    m_AbilityItems,
    characterTables, \* what else CharacterManager loads
    m_ZoneGroups,
    m_ZoneConflicts

factionVars == <<s_SystemFactions, s_Relations>>
itemVars == <<parts, m_EquipItemSets, m_ItemTemplates, itemTables>>
skillVars == <<skillTemplates, m_DefaultSkills, m_StartAbilitySkills>>
characterVars == <<m_Templates, m_AbilityItems, characterTables>>
zoneVars == <<m_ZoneGroups, m_ZoneConflicts>>
managerVars == <<m_Translations, factionVars, itemVars, skillVars,
                 characterVars, zoneVars>>
loaderVars == <<phase, db, managerVars>>

-----------------------------------------------------------------------------
(* Reading a table into a map. *)

Empty == [x \in {} |-> x]
Column(rows, Key(_)) == {Key(rows[i]) : i \in DOMAIN rows}
FirstWith(rows, Key(_), k) == rows[Min({i \in DOMAIN rows : Key(rows[i]) = k})]
LastWith(rows, Key(_), k) == rows[Max({i \in DOMAIN rows : Key(rows[i]) = k})]

Id(row) == row.id

\* insert keeps the row that came first; so does insert into a map that is not
\* empty, the left one here.  (It is @@, which the provers cannot expand.)
Over(f, g) == [k \in DOMAIN f \cup DOMAIN g |-> IF k \in DOMAIN f THEN f[k] ELSE g[k]]
InsertedBy(rows, Key(_)) == [k \in Column(rows, Key) |-> FirstWith(rows, Key, k)]
Inserted(rows) == InsertedBy(rows, Id)

\* A loop that breaks at a NULL reads no row behind it.
UpToNull(rows) ==
    LET ends == {i \in DOMAIN rows : rows[i].null}
    IN  IF ends = {} THEN rows ELSE SubSeq(rows, 1, Min(ends) - 1)

\* operator[] adds an empty value for a key the map lacks.
Indexed(map, keys, default) == Over(map, [k \in keys |-> default])

-----------------------------------------------------------------------------
(* main() up to the start of the servers. *)

LoadOrder == <<"Config", "SqLite", "Localization", "Faction", "Item", "Skill",
               "Character", "Zone">>

Running == phase = Len(LoadOrder) + 1
Stopped == phase = 0

Doing(manager) ==
    /\ phase \in DOMAIN LoadOrder
    /\ LoadOrder[phase] = manager

Done == phase' = phase + 1

LoadersInit ==
    /\ phase = 1
    /\ db \in Databases
    /\ m_Translations = Empty
    /\ s_SystemFactions = Empty
    /\ s_Relations = <<>>
    /\ parts = [converts |-> Empty, holdableLooks |-> Empty,
                wearableLooks |-> Empty, holdables |-> Empty,
                wearables |-> Empty, kinds |-> Empty, slots |-> Empty]
    /\ m_EquipItemSets = Empty
    /\ m_ItemTemplates = Empty
    /\ itemTables = Empty
    /\ skillTemplates = Empty
    /\ m_DefaultSkills = Empty
    /\ m_StartAbilitySkills = Empty
    /\ m_Templates = Empty
    /\ m_AbilityItems = Empty
    /\ characterTables = Empty
    /\ m_ZoneGroups = Empty
    /\ m_ZoneConflicts = Empty

\* Server.cfg is missing, or parses to nothing: main() returns.
ReadConfig ==
    /\ Doing("Config")
    /\ IF db.configured THEN Done ELSE phase' = 0
    /\ UNCHANGED <<db, managerVars>>

\* SqLiteManager::Initialize only looks whether the file is there.
StoreDatabasePath ==
    /\ Doing("SqLite")
    /\ IF db.present THEN Done ELSE phase' = 0
    /\ UNCHANGED <<db, managerVars>>

-----------------------------------------------------------------------------
(* Names and factions. *)

\* The same query is run twice; the second run finds every key taken.
LoadTranslations ==
    /\ Doing("Localization")
    /\ m_Translations' = Inserted(db.translations)
    /\ Done
    /\ UNCHANGED <<db, factionVars, itemVars, skillVars, characterVars, zoneVars>>

\* SetFactionTranslation, and the table's own name where it leaves none.
FactionName(row) ==
    IF row.id \in DOMAIN m_Translations /\ m_Translations[row.id].text # ""
    THEN m_Translations[row.id].text
    ELSE row.name

SystemFactionUnnumbered(row) == [id |-> 0, name |-> FactionName(row), mother |-> row.mother]
SystemFaction(row) == [id |-> row.id, name |-> FactionName(row), mother |-> row.mother]
NamelessFaction == [id |-> 0, name |-> "", mother |-> 0]

\* Each relation is inserted into copies of the two factions, which changes no
\* faction; all that stays of it in the map are the factions that operator[] had to
\* add, whose m_Id is 0 whatever their key.
LoadFactionsFromDatabase ==
    /\ Doing("Faction")
    /\ LET own == [f \in Column(db.factions, Id) |->
                      SystemFaction(FirstWith(db.factions, Id, f))]
           named == {r.id : r \in Range(db.relations)}
                    \cup {r.id2 : r \in Range(db.relations)}
       IN  s_SystemFactions' = Indexed(own, named, NamelessFaction)
    /\ s_Relations' = db.relations
    /\ Done
    /\ UNCHANGED <<db, m_Translations, itemVars, skillVars, characterVars, zoneVars>>

-----------------------------------------------------------------------------
(* Items. *)

LookTables == [converts |-> Inserted(db.lookConverts),
               holdableLooks |-> Inserted(db.holdableLooks),
               wearableLooks |-> Inserted(db.wearableLooks)]

Holdables == Inserted(db.holdables)

WearableKey(row) == row.typeId * 128 + row.slotTypeId
Wearables == InsertedBy(db.wearables, WearableKey)
WearableKinds == Inserted(db.kinds)
WearableSlots == Inserted(db.wearableSlots)

\* A set is made by its first row; rows without a bonus add none.
EquipItemSets ==
    [s \in Column(db.setBonuses, Id) |->
        SelectSeq(db.setBonuses, LAMBDA row : row.id = s /\ row.bonus # 0)]

\* new ArmorTemplate() zeroes its members; new WeaponTemplate does not.  An armor
\* looks for its conversion under its slot, and not in wearableLooks.
ArmorTemplate(row) ==
    [class |-> "ARMOR", fixedGrade |-> 0, wearable |-> WearableKey(row),
     kind |-> row.typeId, slot |-> row.slotTypeId,
     look |-> {row.slotTypeId} \cap DOMAIN LookTables.converts]
AccessoryTemplate(row, junk) ==
    [class |-> "ACCESSORY", fixedGrade |-> junk, wearable |-> WearableKey(row),
     kind |-> row.typeId, slot |-> row.slotTypeId]
HoldableLook(row) == IF row.holdable \in Column(db.holdableLooks, Id)
                     THEN {LookTables.holdableLooks[row.holdable].look} ELSE {}
WeaponTemplate(row, junk) ==
    [class |-> "WEAPON", fixedGrade |-> junk, holdable |-> row.holdable,
     look |-> HoldableLook(row)]
OtherTemplate(class, junk) == [class |-> class, fixedGrade |-> junk]

Armors == [i \in Column(db.armors, Id) |-> ArmorTemplate(Inserted(db.armors)[i])]
Weapons(junk) == [i \in Column(db.weapons, Id) |->
                     WeaponTemplate(Inserted(db.weapons)[i], junk)]
Accessories(junk) == [i \in Column(db.accessories, Id) |->
                         AccessoryTemplate(Inserted(db.accessories)[i], junk)]
Summons(junk) == [i \in Column(db.mates, Id) \cup Column(db.slaves, Id) |->
                     OtherTemplate("SUMMON", junk)]
BodyParts(junk) == [i \in Column(db.bodyParts, Id) \ {0} |-> OtherTemplate("BODYPART", junk)]
Runes(junk) == [i \in Column(db.gems, Id) |-> OtherTemplate("RUNE", junk)]
Backpacks(junk) == [i \in Column(db.backpacks, Id) |-> OtherTemplate("BACKPACK", junk)]
CrestsAndMusic(junk) == [i \in {17662, 17663} |-> OtherTemplate("UCC", junk)]
                        @@ [i \in {28051} |-> OtherTemplate("MUSICSHEET", junk)]

\* The first table that has an id decides its class.
ClassTemplates(junk) ==
    Armors @@ Weapons(junk) @@ Accessories(junk) @@ Summons(junk) @@ BodyParts(junk)
    @@ Runes(junk) @@ Backpacks(junk) @@ CrestsAndMusic(junk)

\* A row of items fills in the template of its id, or makes a plain one.
ItemTemplates(junk) ==
    LET made == Indexed(ClassTemplates(junk), Column(db.items, Id),
                        OtherTemplate("ITEM", junk))
    IN  [i \in DOMAIN made |->
            IF i \in Column(db.items, Id)
            THEN [made[i] EXCEPT !.fixedGrade = LastWith(db.items, Id, i).fixedGrade]
            ELSE made[i]]

Grades == Inserted(db.grades)
AttributeModifiers == Inserted(db.modifiers)
ItemProcs == Inserted(db.procs)
EnchantingCosts == Inserted(db.costs)
EnchantingSupports == Inserted(db.supports)
SocketChances == Inserted(db.sockets)
ItemCapScales == Inserted(db.scales)
ItemTables == [grades |-> Grades, modifiers |-> AttributeModifiers,
               procs |-> ItemProcs, costs |-> EnchantingCosts,
               supports |-> EnchantingSupports, sockets |-> SocketChances,
               scales |-> ItemCapScales]

\* The templates point into the maps, which operator[] extends for them.
Blank == [id |-> 0]
LoadItemDatabase ==
    /\ Doing("Item")
    /\ LET worn == Range(db.armors) \cup Range(db.accessories)
           held == Range(db.weapons)
       IN  parts' =
              [LookTables EXCEPT
                  !.converts = Indexed(@, UNION {HoldableLook(w) : w \in held}, Blank)]
              @@ [holdables |-> Indexed(Holdables, {w.holdable : w \in held}, Blank),
                  wearables |-> Indexed(Wearables, {WearableKey(w) : w \in worn}, Blank),
                  kinds |-> Indexed(WearableKinds, {w.typeId : w \in worn}, Blank),
                  slots |-> Indexed(WearableSlots, {w.slotTypeId : w \in worn}, Blank)]
    /\ m_EquipItemSets' = EquipItemSets
    /\ \E junk \in JunkGrades : m_ItemTemplates' = ItemTemplates(junk)
    /\ itemTables' = ItemTables
    /\ Done
    /\ UNCHANGED <<db, m_Translations, factionVars, skillVars, characterVars, zoneVars>>

-----------------------------------------------------------------------------
(* Skills. *)

NoSkill == [id |-> 0, ability |-> 0, autoLearn |-> FALSE, needLearn |-> FALSE,
            level |-> 0, show |-> FALSE]

\* InitializeHelpContainers; && binds tighter than || in its second condition.
Startable(t) ==
    /\ t.autoLearn
    /\ ~(~t.needLearn /\ t.ability = 0)
    /\ t.level <= 1
    /\ t.show

\* m_CommonSkills, which nothing reads, is left out.
StartSkillIds(templates) == {s \in DOMAIN templates : Startable(templates[s])}
StartSkillsOf(templates, a) == {s \in StartSkillIds(templates) : templates[s].ability = a}

\* The map is walked in the order of its buckets.
StartAbilitySkills(templates) ==
    LET abilities == {templates[s].ability : s \in StartSkillIds(templates)}
        Orders(a) == SetToSeqs(StartSkillsOf(templates, a))
    IN  {order \in [abilities -> UNION {Orders(a) : a \in abilities}] :
            \A a \in abilities : order[a] \in Orders(a)}

\* A default skill whose template is missing refers to an empty one and is kept
\* under its id 0.
LoadSkills ==
    /\ Doing("Skill")
    /\ LET templates == Indexed(Inserted(db.skills), Column(db.defaultSkills, Id),
                                NoSkill)
           Prototype(row) == templates[row.id].id
       IN  /\ skillTemplates' = templates
           /\ m_DefaultSkills' = InsertedBy(db.defaultSkills, Prototype)
           /\ m_StartAbilitySkills' \in StartAbilitySkills(templates)
    /\ Done
    /\ UNCHANGED <<db, m_Translations, factionVars, itemVars, characterVars, zoneVars>>

-----------------------------------------------------------------------------
(* Characters. *)

Byte(n) == n % 256
TemplateId(race, gender) == Byte(16 * gender + race)
TemplateKey(row) == TemplateId(row.race, row.gender)

\* The body parts of a model, by slot; the last row of a slot counts.
BodyOf(model) ==
    LET Parts(i) == {n \in DOMAIN db.bodyParts : db.bodyParts[n].model = model
                                                  /\ db.bodyParts[n].slotTypeId = i + 23}
    IN  [i \in 0..6 |-> IF Parts(i) = {} THEN 0 ELSE db.bodyParts[Max(Parts(i))].id]

NoTemplate == [model |-> 0, body |-> [i \in 0..6 |-> 0], bag |-> 0, bank |-> 0]

\* The inventory sizes of a row of characters are not initialised.
RaceTemplates(junk) ==
    [k \in Column(db.characters, TemplateKey) |->
        LET row == FirstWith(db.characters, TemplateKey, k)
        IN  [model |-> row.model, body |-> BodyOf(row.model),
             bag |-> junk, bank |-> junk]]

\* CharTemplates.json, for both genders; the bag's size is a uint8.
ConfigKeysMalesOnly(config) == {Byte(16 + config.id)}
ConfigKeys(config) == {Byte(16 + config.id), Byte(32 + config.id)}
ConfigureTemplates(templates) ==
    LET Named(k, config) == k \in ConfigKeys(config)
        keys == UNION {ConfigKeys(c) : c \in Range(db.config)}
        Final(k) == db.config[Max({i \in DOMAIN db.config : Named(k, db.config[i])})]
    IN  [k \in DOMAIN templates \cup keys |->
            IF k \in keys
            THEN [Indexed(templates, {k}, NoTemplate)[k] EXCEPT
                     !.bag = Byte(Final(k).bag), !.bank = Final(k).bank]
            ELSE templates[k]]

EquipFields == {"Headgear", "Necklace", "Shirt", "Belt", "Pants", "Gloves",
                "Shoes", "Bracelet", "Back", "Undershirt", "Underpants",
                "Mainhand", "Offhand", "Ranged", "Instrument", "Cosplay"}
NoPack == [f \in EquipFields |-> [id |-> 0, grade |-> 0]]
NoGear == [pack |-> NoPack, supplies |-> <<>>]

\* A cloth pack and a weapon pack, those fields that the tables fill.
EquipPack(row) ==
    LET cloths == IF row.cloth \in DOMAIN db.cloths THEN db.cloths[row.cloth] ELSE Empty
        arms == IF row.weapon \in DOMAIN db.arms THEN db.arms[row.weapon] ELSE Empty
    IN  Over(cloths, Over(arms, NoPack))

\* Supplies are inserted before the packs, each row with a whole AbilityItems of
\* its own whose pack is not initialised: what insert keeps is the first row.
AbilityKey(row) == Byte(row.ability)
SupplyGear(junk) ==
    [a \in Column(db.supplies, AbilityKey) |->
        [pack |-> junk, supplies |-> <<FirstWith(db.supplies, AbilityKey, a)>>]]
PackGear == [a \in Column(db.packs, AbilityKey) |->
                [NoGear EXCEPT !.pack = EquipPack(FirstWith(db.packs, AbilityKey, a))]]

\* Expands by step, expert limits by their place in the order of their limits.
Expands == LET rows == UpToNull(db.expands)
           IN  [s \in Column(rows, Id) |-> SelectSeq(rows, LAMBDA row : row.id = s)]
Appellations == Inserted(db.appellations)
Actabilities == Inserted(UpToNull(db.actabilities))
Ranked(rows) == [n \in {i - 1 : i \in DOMAIN rows} |->
                    SortSeq(rows, LAMBDA a, b : a.limit < b.limit)[n + 1]]
ExpertLimits == Ranked(db.expertLimits)
ExpandExpertLimits == Ranked(db.expandExpertLimits)
CharacterTables == [expands |-> Expands, appellations |-> Appellations,
                    actabilities |-> Actabilities, expertLimits |-> ExpertLimits,
                    expandExpertLimits |-> ExpandExpertLimits]

LoadCharacters ==
    /\ Doing("Character")
    /\ \E junk \in JunkBytes :
          m_Templates' = ConfigureTemplates(RaceTemplates(junk))
    /\ \E junk \in JunkPacks : m_AbilityItems' = Over(SupplyGear(junk), PackGear)
    /\ characterTables' = CharacterTables
    /\ Done
    /\ UNCHANGED <<db, m_Translations, factionVars, itemVars, skillVars, zoneVars>>

-----------------------------------------------------------------------------
(* Zones. *)

NoConflict == [id |-> 0]

KnownConflicts(rows, groups) == SelectSeq(rows, LAMBDA row : row.id \in groups)

\* The group holds the last row of its conflict, the table of conflicts the first.
LoadZones ==
    /\ Doing("Zone")
    /\ LET groups == Column(db.zoneGroups, Id)
           known == KnownConflicts(db.conflicts, groups)
       IN  /\ m_ZoneGroups' =
                 [g \in groups |-> IF g \in Column(known, Id)
                                   THEN LastWith(known, Id, g) ELSE NoConflict]
           /\ m_ZoneConflicts' = Inserted(known)
    /\ Done
    /\ UNCHANGED <<db, m_Translations, factionVars, itemVars, skillVars, characterVars>>

LoadersNext ==
    \/ ReadConfig
    \/ StoreDatabasePath
    \/ LoadTranslations
    \/ LoadFactionsFromDatabase
    \/ LoadItemDatabase
    \/ LoadSkills
    \/ LoadCharacters
    \/ LoadZones
=============================================================================
