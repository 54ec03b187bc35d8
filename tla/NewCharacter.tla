----------------------------- MODULE NewCharacter -----------------------------
(***************************************************************************)
(* CharacterManager::Create on what the managers loaded: the items a new   *)
(* character wears, carries and finds on its action bar; then what         *)
(* CSCharacterSelect reads of them to tell the client.  Names, sessions    *)
(* and the registry's other components are WorldServer's.                  *)
(***************************************************************************)
EXTENDS Loaders

CONSTANTS
    Requests,          \* what CSCreateCharacter may carry: race, gender, ability
                       \* and seven item ids, 0 for the model's own part
    MaxHeroes,         \* bound on the characters created
    BarSize,           \* 85: the slots of the action bar
    FactionsPerPacket, \* 20: the hard-coded length of a full faction packet
    LastFactions,      \* 2: and of the fifth
    RelationsPerPacket,\* 200, five packets of them
    LastRelations      \* 174: and of the sixth

\* The bar has room for the supplies of two abilities, from slot 10 on.
ASSUME PacketsAndBar ==
    /\ Requests \subseteq [race : 0..255, gender : 0..255, ability : 0..255,
                           body : [0..6 -> Nat]]
    /\ BarSize \in Nat /\ BarSize >= 12
    /\ MaxHeroes \in Nat
    /\ FactionsPerPacket \in Nat \ {0} /\ LastFactions \in Nat
    /\ RelationsPerPacket \in Nat /\ LastRelations \in Nat

VARIABLES
    items,   \* the item entities, in the order of their Guids
    heroes,  \* the characters created
    told     \* what the last CSCharacterSelect sent

newCharacterVars == <<loaderVars, items, heroes, told>>

Nothing == [sent |-> "nothing"]
Init ==
    /\ LoadersInit
    /\ items = <<>>
    /\ heroes = <<>>
    /\ told = Nothing

Load == LoadersNext /\ UNCHANGED <<items, heroes, told>>

-----------------------------------------------------------------------------
(* ItemManager::CreateItem. *)

NoItem == 0                      \* entt::null; an item entity is its place in items
Guid(e) == 4000 + e - 1          \* m_NextItemId

Equipables == {"ARMOR", "WEAPON", "ACCESSORY"}
EquipComponents == {"ItemEquipable", "ItemGems", "ItemEnchants"}
EquipComponentsOfArmorAndWeapons(class) ==
    {"ItemSlot", "ItemLifeSpanComp"}
    \cup (IF class \in {"ARMOR", "WEAPON"} THEN EquipComponents ELSE {})
    \cup (IF class = "BODYPART" THEN {"ItemBodyPart"} ELSE {})
ItemComponents(class) ==
    {"ItemSlot", "ItemLifeSpanComp"}
    \cup (IF class \in Equipables THEN EquipComponents ELSE {})
    \cup (IF class = "BODYPART" THEN {"ItemBodyPart"} ELSE {})

\* The count asked for is not kept; a template's grade goes before the caller's.
NewItem(id, grade) ==
    LET t == m_ItemTemplates[id]
    IN  [id |-> id,
         count |-> 1,
         grade |-> IF t.fixedGrade >= 0 THEN Byte(t.fixedGrade) ELSE grade,
         type |-> IF t.class \in Equipables \cup {"BODYPART"} THEN t.class ELSE "ITEM",
         detail |-> IF t.class \in Equipables THEN "Equipment" ELSE "None",
         components |-> ItemComponents(t.class)]

\* GetItemTemplate.
IsItem(id) == id \in DOMAIN m_ItemTemplates

-----------------------------------------------------------------------------
(* What a new character wears. *)

\* EquipmentItemSlot, and the slots of the seven parts of the body.
SlotOf == [Headgear |-> 0, Necklace |-> 1, Shirt |-> 2, Belt |-> 3, Pants |-> 4,
           Gloves |-> 5, Shoes |-> 6, Bracelet |-> 7, Back |-> 8,
           Undershirt |-> 13, Underpants |-> 14, Mainhand |-> 15, Offhand |-> 16,
           Ranged |-> 17, Instrument |-> 18, Cosplay |-> 27]
BodySlotOneLow(i) == i + 18
BodySlot(i) == i + 19

\* The calls of CreateDefaultItemSlot, in their order.
EquipOrder == <<"Headgear", "Necklace", "Shirt", "Belt", "Pants", "Gloves",
                "Shoes", "Bracelet", "Back", "Undershirt", "Underpants",
                "Mainhand", "Offhand", "Ranged", "Instrument", "Cosplay">>
Outfit(pack, body) ==
    [n \in 1..16 |-> LET piece == pack[EquipOrder[n]] IN
                     [id |-> piece.id, grade |-> piece.grade, slot |-> SlotOf[EquipOrder[n]]]]
    \o [n \in 1..7 |-> [id |-> body[n - 1], grade |-> 0, slot |-> BodySlot(n - 1)]]

\* An id without a template makes no item and leaves its slot empty.
CreateDefaultItemSlot(made, piece) ==
    IF piece.id > 0 /\ IsItem(piece.id)
    THEN [items |-> Append(made.items, NewItem(piece.id, piece.grade)),
          equipped |-> [made.equipped EXCEPT ![piece.slot] = Len(made.items) + 1]]
    ELSE made

Bare == [s \in 0..27 |-> NoItem]
Dressing(outfit) ==
    LET made[n \in 0..Len(outfit)] ==
            IF n = 0 THEN [items |-> items, equipped |-> Bare]
            ELSE CreateDefaultItemSlot(made[n - 1], outfit[n])
    IN made
Dressed(pack, body) == Dressing(Outfit(pack, body))[23]

ChosenBody(body, template) ==
    [i \in 0..6 |-> IF body[i] = 0 THEN template.body[i] ELSE body[i]]

-----------------------------------------------------------------------------
(* What it carries. *)

FreeSlots(bag) == {i \in DOMAIN bag : bag[i] = NoItem}

AquireEverywhere(made, supply) ==
    IF supply.amount > 0 /\ IsItem(supply.item)
    THEN [items |-> Append(made.items, NewItem(supply.item, supply.grade)),
          bag |-> [i \in DOMAIN made.bag |->
                      IF made.bag[i] = NoItem THEN Len(made.items) + 1
                      ELSE made.bag[i]]]
    ELSE made

\* The item is made whether or not there is room for it.
AquireDefaultItem(made, supply) ==
    IF supply.amount > 0 /\ IsItem(supply.item)
    THEN [items |-> Append(made.items, NewItem(supply.item, supply.grade)),
          bag |-> IF FreeSlots(made.bag) = {} THEN made.bag
                  ELSE [made.bag EXCEPT ![Min(FreeSlots(made.bag))] =
                           Len(made.items) + 1]]
    ELSE made

\* The ability's own supplies, then those of ability 0, if there are any: its own
\* twice if it is ability 0.
GearOf(ability) ==
    IF ability \in DOMAIN m_AbilityItems THEN m_AbilityItems[ability] ELSE NoGear
Supplies(ability) == GearOf(ability).supplies \o GearOf(0).supplies

Stocking(made, size, supplies) ==
    LET stock[n \in 0..Len(supplies)] ==
            IF n = 0 THEN [items |-> made, bag |-> [i \in 0..size - 1 |-> NoItem]]
            ELSE AquireDefaultItem(stock[n - 1], supplies[n])
    IN stock
Stocked(made, size, ability) ==
    Stocking(made, size, Supplies(ability))[Len(Supplies(ability))]

-----------------------------------------------------------------------------
(* What it finds on its action bar. *)

ItemType(id) == [type |-> "ItemType", id |-> id]
Spell(id) == [type |-> "Spell", id |-> id]

SupplyActions(ability) ==
    [s \in {9 + n : n \in DOMAIN Supplies(ability)} |->
        ItemType(Supplies(ability)[s - 9].item)]

\* Two default skills for one slot: the order of the map's buckets decides.
DefaultsIn(s) == {d \in DOMAIN m_DefaultSkills :
                     m_DefaultSkills[d].add /\ m_DefaultSkills[d].slot = s}
DefaultSlots == {d.slot : d \in {e \in Range(m_DefaultSkills) : e.add}}
ContestedSlots == {s \in DefaultSlots : Cardinality(DefaultsIn(s)) > 1}
DefaultChoices == {c \in [ContestedSlots -> DOMAIN m_DefaultSkills] :
                      \A s \in ContestedSlots : c[s] \in DefaultsIn(s)}
DefaultActions(choice) ==
    [s \in DefaultSlots |-> Spell(IF s \in ContestedSlots THEN choice[s]
                                  ELSE CHOOSE d \in DefaultsIn(s) : TRUE)]

StartSkills(ability) ==
    IF ability \in DOMAIN m_StartAbilitySkills
    THEN m_StartAbilitySkills[ability] ELSE <<>>

\* From the first free slot after 0 on, whatever the slots behind it hold.
FirstFreeBehindAll(bar) == Max(DOMAIN bar \cup {0}) + 1
FirstFree(bar) == Min((1..BarSize) \ DOMAIN bar)
StartActions(ability, first) ==
    [s \in {first + n - 1 : n \in DOMAIN StartSkills(ability)} |->
        Spell(StartSkills(ability)[s - first + 1])]

\* Later SetActions overwrite earlier ones.  A slot that the bar lacks is
\* written behind the array.
ActionBar(ability, choice) ==
    LET before == Over(DefaultActions(choice), SupplyActions(ability))
    IN  Over(StartActions(ability, FirstFree(before)), before)

-----------------------------------------------------------------------------
(* CharacterManager::Create, for a name it accepts. *)

TemplateFor(race, gender) ==
    IF TemplateId(race, gender) \in DOMAIN m_Templates
    THEN m_Templates[TemplateId(race, gender)] ELSE NoTemplate

Create(asked) ==
    LET template == TemplateFor(asked.race, asked.gender)
        dressed == Dressed(GearOf(asked.ability).pack, ChosenBody(asked.body, template))
        stocked == Stocked(dressed.items, template.bag, asked.ability)
    IN  /\ items' = stocked.items
        /\ \E choice \in DefaultChoices :
              heroes' = Append(heroes,
                  [asked |-> asked, model |-> template.model,
                   equipped |-> dressed.equipped, bag |-> stocked.bag,
                   bank |-> template.bank, bar |-> ActionBar(asked.ability, choice),
                   skills |-> Range(StartSkills(asked.ability)),
                   actabilities |-> DOMAIN characterTables.actabilities])
        /\ m_AbilityItems' = Indexed(m_AbilityItems, {asked.ability}, NoGear)
        /\ m_Templates' =
              Indexed(m_Templates, {TemplateId(asked.race, asked.gender)}, NoTemplate)

CreateCharacter ==
    /\ Running
    /\ Len(heroes) < MaxHeroes
    /\ \E asked \in Requests : Create(asked)
    /\ told' = Nothing
    /\ UNCHANGED <<phase, db, m_Translations, factionVars, itemVars, skillVars,
                   characterTables, zoneVars>>

-----------------------------------------------------------------------------
(* CSCharacterSelect. *)

\* ItemSlot::Write and WriteDetailsEquip: the components they get.
WrittenFrom(item) ==
    IF item.type = "BODYPART" THEN {"ItemSlot"}
    ELSE {"ItemSlot", "ItemLifeSpanComp"}
         \cup (IF item.detail = "Equipment" THEN EquipComponents ELSE {})

\* SCCharacterInvenContents sends ten slots a packet.  The packet's first slot and
\* the loop's own counter are uint8: from 246 on the loop never ends.
StartIndexUnscaled(i) == i
StartIndex(i) == Byte(i * 10)
Fragments(size) == [i \in 0..(size \div 10) - 1 |-> StartIndex(i)]
Endless(size) == \E i \in DOMAIN Fragments(size) : Fragments(size)[i] + 10 > 255
Sendable(size) == size # 0 /\ size % 10 = 0

\* SCFactionListPacket walks the factions in the order of their keys into five
\* packets whose lengths are written beforehand; of each faction it writes the m_Id.
FactionPacketOneLate(n) ==
    IF n <= 4 * FactionsPerPacket THEN Max({n - 1, 0}) \div FactionsPerPacket + 1 ELSE 5
FactionPacketOf(n) == IF n < 4 * FactionsPerPacket
                      THEN n \div FactionsPerPacket + 1 ELSE 5
FactionsBefore(k) == Cardinality({f \in DOMAIN s_SystemFactions : f < k})
FactionPackets ==
    [p \in 1..5 |->
        [count |-> IF p < 5 THEN FactionsPerPacket ELSE LastFactions,
         written |-> [k \in {k \in DOMAIN s_SystemFactions :
                                FactionPacketOf(FactionsBefore(k)) = p}
                         |-> s_SystemFactions[k].id]]]

\* SCFactionRelationListPacket reads a fixed number of relations.
RelationPackets ==
    [p \in 1..6 |-> IF p < 6 THEN (p - 1) * RelationsPerPacket + 1 .. p * RelationsPerPacket
                    ELSE 5 * RelationsPerPacket + 1 .. 5 * RelationsPerPacket + LastRelations]

\* SCActabilityPacket: the count is a uint8.
ActabilityPacket(hero) == [count |-> Byte(Cardinality(hero.actabilities)),
                           ids |-> hero.actabilities]

\* The bank's loop follows the bag's; an unsuitable size ends the handler there.
Told(hero) ==
    LET size == Cardinality(DOMAIN hero.bag)
    IN  IF ~Sendable(size) THEN [sent |-> "sizes"]
        ELSE IF Endless(size) THEN [sent |-> "endless"]
        ELSE IF ~Sendable(hero.bank) THEN [sent |-> "bag", bag |-> Fragments(size)]
        ELSE IF Endless(hero.bank) THEN [sent |-> "endless"]
        ELSE [sent |-> "everything", bag |-> Fragments(size),
              bank |-> Fragments(hero.bank),
              actabilities |-> ActabilityPacket(hero),
              conflicts |-> DOMAIN m_ZoneConflicts,
              factions |-> FactionPackets, relations |-> RelationPackets]

SelectCharacter ==
    /\ Running
    /\ heroes # <<>>
    /\ told = Nothing
    /\ told' = Told(heroes[Len(heroes)])
    /\ UNCHANGED <<loaderVars, items, heroes>>

Next ==
    \/ Load
    \/ CreateCharacter
    \/ SelectCharacter

Spec == Init /\ [][Next]_newCharacterVars
-----------------------------------------------------------------------------
(* Properties. *)

\* Load, the json and GetTemplate compute the key of a template in three ways: a
\* character of a race that is in the table and in the json has the model of the
\* one and the bag of the other, male (1) or female (2); as long as table and json name
\* a race once and none above 15, whose males have the keys of others' females.
TemplatesAgree ==
    LET plain == /\ IsInjective([i \in DOMAIN db.config |-> db.config[i].id])
                 /\ IsInjective([i \in DOMAIN db.characters |-> TemplateKey(db.characters[i])])
                 /\ \A c \in Range(db.config) : c.id < 16
    IN  \A n \in DOMAIN heroes :
           LET asked == heroes[n].asked
           IN  \A row \in Range(db.characters), c \in Range(db.config) :
                  /\ plain /\ c.id = asked.race
                  /\ row.race = asked.race /\ row.gender = asked.gender
                  /\ row.gender \in {1, 2}
                  => /\ heroes[n].model = row.model
                     /\ Cardinality(DOMAIN heroes[n].bag) = Byte(c.bag)

\* The 28 slots are filled by sixteen fields of a pack and by a loop over seven
\* parts of the body: none displaces another.  An ability with supplies has lost
\* its pack and wears what happened to be in memory; one with two packs wears one.
WornId(hero, s) == IF hero.equipped[s] = NoItem THEN 0 ELSE items[hero.equipped[s]].id
Made(id) == IF IsItem(id) THEN id ELSE 0
WornAsChosen ==
    \A n \in DOMAIN heroes :
        LET hero == heroes[n]
            asked == hero.asked
        IN  /\ \A i \in 0..6 :
                  LET default == TemplateFor(asked.race, asked.gender).body[i]
                  IN  WornId(hero, i + 19) =
                         Made(IF asked.body[i] = 0 THEN default ELSE asked.body[i])
            /\ \A row \in Range(db.packs), f \in EquipFields :
                  /\ IsInjective([i \in DOMAIN db.packs |-> AbilityKey(db.packs[i])])
                  /\ row.ability = asked.ability
                  /\ asked.ability \notin Column(db.supplies, AbilityKey)
                  => WornId(hero, SlotOf[f]) = Made(EquipPack(row)[f].id)

\* What CreateItem makes of a template and what ItemSlot::Write gets to send it
\* are decided in two places, by the class and by the detail type: no component
\* is read that the item lacks.
EveryItemWritable ==
    \A e \in DOMAIN items : WrittenFrom(items[e]) \subseteq items[e].components

\* An item is in one slot of one container of one character, and is lost only to
\* a bag that is full.
ItemsHeldOnce ==
    \A e \in DOMAIN items :
        LET bags == {p \in (DOMAIN heroes) \X (0..255) :
                        LET bag == heroes[p[1]].bag IN p[2] \in DOMAIN bag /\ bag[p[2]] = e}
            bodies == {p \in (DOMAIN heroes) \X (0..27) : heroes[p[1]].equipped[p[2]] = e}
        IN  \/ Cardinality(bags) + Cardinality(bodies) = 1
            \/ /\ bags = {} /\ bodies = {}
               /\ \E n \in DOMAIN heroes : FreeSlots(heroes[n].bag) = {}

\* The search for a free slot and the loop after it have no bound of their own:
\* the bar is not overrun unless default skills, supplies and start skills are
\* together more than its slots.
BarStaysInBounds ==
    \A n \in DOMAIN heroes :
        LET ability == heroes[n].asked.ability
        IN  /\ DefaultSlots \subseteq 0..BarSize - 1
            /\ Cardinality(DefaultSlots) + Len(Supplies(ability))
                  + Len(StartSkills(ability)) < BarSize
            => DOMAIN heroes[n].bar \subseteq 0..BarSize - 1

\* The client is shown every slot of bag and bank once, in packets of ten.  A bag,
\* whose size is a uint8, never makes the loop run for ever; a bank of 260 does.
Shown(starts, size) ==
    /\ Cardinality(DOMAIN starts) * 10 = size
    /\ UNION {s .. s + 9 : s \in Range(starts)} = 0..size - 1
InventoryShown ==
    /\ told.sent = "everything" =>
          LET hero == heroes[Len(heroes)]
          IN  Shown(told.bag, Cardinality(DOMAIN hero.bag)) /\ Shown(told.bank, hero.bank)
    /\ told.sent = "endless" => heroes[Len(heroes)].bank > 255

\* The factions a packet holds, and whether they are as many as it says.
WrittenIn(p) == DOMAIN told.factions[p].written
Readable(p) == Cardinality(WrittenIn(p)) = told.factions[p].count

\* Every faction is in one of the five packets, and if there are as many as the
\* code was written for, each packet holds as many as it says.  The relations are
\* read within their vector if there are as many as the code was written for.
FactionsAnnounced ==
    told.sent = "everything" =>
        /\ UNION {WrittenIn(p) : p \in 1..5} = DOMAIN s_SystemFactions
        /\ \A p, q \in 1..5 : p # q => WrittenIn(p) \cap WrittenIn(q) = {}
        /\ Cardinality(DOMAIN s_SystemFactions) = 4 * FactionsPerPacket + LastFactions
              => \A p \in 1..5 : Readable(p)
        /\ Len(s_Relations) >= 5 * RelationsPerPacket + LastRelations
              => UNION Range(told.relations) \subseteq DOMAIN s_Relations

\* The factions a client hears of: those in packets whose length is right.
Heard == UNION {Range(told.factions[p].written) : p \in {q \in 1..5 : Readable(q)}}

\* The two lists fit together, although the second is read by number and operator[]
\* put factions between those of the first: if there are as many factions as the code
\* was written for, each end of an announced relation that the table has a faction
\* for was announced under the id by which the relation calls it.
RelationsUnderstood ==
    told.sent = "everything"
    /\ Cardinality(DOMAIN s_SystemFactions) = 4 * FactionsPerPacket + LastFactions
        => \A i \in DOMAIN s_Relations \cap UNION Range(told.relations) :
              {s_Relations[i].id, s_Relations[i].id2} \cap Column(db.factions, Id)
                 \subseteq Heard
=============================================================================
