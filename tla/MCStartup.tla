------------------------------ MODULE MCStartup ------------------------------
(* Databases for NewCharacter: one in which everything is well, and others in *)
(* which a table is short, doubled, out of order or empty.                    *)
EXTENDS NewCharacter

Faction(i) == [id |-> i, name |-> "own", mother |-> IF i > 3 THEN 1 ELSE 0]
Factions(n) == [i \in 1..n |-> Faction(i)]
Relation(f, g) == [id |-> f, id2 |-> g, state |-> 1]
Relations(n) == [i \in 1..n |-> Relation(1 + (i % 2), 3)]
Ids(s) == [i \in DOMAIN s |-> [id |-> s[i]]]
Rowed(id, typeId, slotTypeId) == [id |-> id, typeId |-> typeId, slotTypeId |-> slotTypeId]
Ranks(s) == [i \in DOMAIN s |-> [id |-> i, limit |-> s[i]]]
Known(id, ability, level) ==
    [id |-> id, ability |-> ability, autoLearn |-> TRUE, needLearn |-> FALSE,
     level |-> level, show |-> TRUE]
Unlearned(id) == [Known(id, 1, 1) EXCEPT !.autoLearn = FALSE]
Default(id, slot, add) == [id |-> id, slot |-> slot, add |-> add]
Supply(ability, item, amount) ==
    [ability |-> ability, item |-> item, amount |-> amount, grade |-> 1]
Piece(id) == [id |-> id, grade |-> 1]
Part(id, model, slot) == [id |-> id, model |-> model, slotTypeId |-> slot]
Race(race, gender, model) == [race |-> race, gender |-> gender, model |-> model]
Config(id, bag, bank) == [id |-> id, bag |-> bag, bank |-> bank]
Group(id, name, null) == [id |-> id, name |-> name, null |-> null]
Conflict(id, kills) == [id |-> id, kills |-> kills]

\* Items: armors 1 2 3, weapon 11, accessory 12, mate 13, slave 14, gem 15,
\* backpack 16, body parts 17 18 19, plain 20 21.
Base ==
    [configured |-> TRUE, present |-> TRUE,
     translations |-> <<[id |-> 1, text |-> "one"], [id |-> 2, text |-> ""]>>,
     factions |-> Factions(6), relations |-> Relations(3),
     lookConverts |-> Ids(<<5, 7>>), holdableLooks |-> <<[id |-> 6, look |-> 8]>>,
     wearableLooks |-> Ids(<<2>>), holdables |-> Ids(<<6>>),
     wearables |-> <<Rowed(1, 1, 3), Rowed(2, 2, 3), Rowed(3, 1, 19), Rowed(4, 1, 3)>>,
     kinds |-> Ids(<<1, 2>>), wearableSlots |-> Ids(<<3, 5>>),
     setBonuses |-> <<[id |-> 1, bonus |-> 0], [id |-> 1, bonus |-> 4]>>,
     armors |-> <<Rowed(1, 1, 3), Rowed(2, 1, 19), Rowed(3, 2, 5)>>,
     weapons |-> <<[id |-> 11, holdable |-> 6], [id |-> 1, holdable |-> 9]>>,
     accessories |-> <<Rowed(12, 2, 3)>>,
     mates |-> Ids(<<13>>), slaves |-> Ids(<<14>>), gems |-> Ids(<<15>>),
     backpacks |-> Ids(<<16>>),
     bodyParts |-> <<Part(17, 100, 23), Part(18, 100, 25), Part(19, 100, 25), Part(0, 100, 29)>>,
     items |-> [i \in 1..12 |-> [id |-> 10 + i, fixedGrade |-> IF i < 5 THEN 2 ELSE -1]],
     grades |-> Ids(<<1, 1>>), modifiers |-> Ids(<<1>>), procs |-> Ids(<<1>>),
     costs |-> Ids(<<1>>), supports |-> Ids(<<1>>), sockets |-> Ids(<<1>>),
     scales |-> Ids(<<1>>),
     skills |-> <<Known(31, 1, 1), Known(32, 1, 1), Known(33, 1, 9), Known(34, 0, 1)>>,
     defaultSkills |-> <<>>,
     characters |-> <<Race(1, 1, 100), Race(1, 2, 100), Race(2, 2, 200)>>,
     supplies |-> <<>>,
     packs |-> <<[ability |-> 1, cloth |-> 1, weapon |-> 2],
                 [ability |-> 2, cloth |-> 1, weapon |-> 9]>>,
     cloths |-> [c \in {1} |-> [Headgear |-> Piece(1), Necklace |-> Piece(12), Shirt |-> Piece(99),
                              Cosplay |-> Piece(2)]],
     arms |-> [w \in {2} |-> [Mainhand |-> Piece(11)]],
     config |-> <<Config(1, 20, 20), Config(3, 10, 10)>>,
     expands |-> <<Group(1, "bag", FALSE), Group(1, "bank", FALSE)>>,
     appellations |-> Ids(<<1, 2>>),
     actabilities |-> <<Group(1, "a", FALSE), Group(2, "b", FALSE)>>,
     expertLimits |-> Ranks(<<9, 3>>), expandExpertLimits |-> Ranks(<<1>>),
     zoneGroups |-> Ids(<<1, 2>>),
     conflicts |-> <<Conflict(1, 5), Conflict(3, 5), Conflict(2, 5), Conflict(2, 6)>>]

SupplyTables == {<<>>, <<Supply(1, 20, 1)>>, <<Supply(0, 15, 2), Supply(1, 20, 0)>>,
                 <<Supply(0, 20, 1), Supply(2, 99, 1), Supply(2, 21, 1)>>,
                 <<Supply(257, 11, 1)>>}
DefaultTables ==
    {<<Default(31, 1, TRUE)>>, <<Default(34, 2, TRUE), Default(33, 10, TRUE)>>,
     <<Default(33, 1, TRUE), Default(34, 1, TRUE)>>, <<Default(77, 1, TRUE)>>,
     <<Default(31, 11, TRUE), Default(32, 12, TRUE), Default(34, 2, FALSE)>>,
     [i \in 1..4 |-> Default(30 + i, i, i # 3)]}
Sizes == {<<20, 260>>, <<15, 20>>, <<20, 15>>, <<0, 20>>, <<266, 30>>, <<300, 0>>,
          <<250, 250>>, <<10, 50>>}

MCDatabases ==
    {[Base EXCEPT !.supplies = s, !.defaultSkills = d] : s \in SupplyTables, d \in DefaultTables}
    \cup {[Base EXCEPT !.config = <<Config(1, z[1], z[2])>>] : z \in Sizes}
    \cup {[Base EXCEPT !.factions = Factions(n), !.relations = Relations(m)] :
             n \in {0, 4, 5}, m \in {0, 7, 12}}
    \cup {[Base EXCEPT !.configured = FALSE], [Base EXCEPT !.present = FALSE],
          [Base EXCEPT !.relations = <<Relation(1, 9), Relation(4, 5)>>],
          [Base EXCEPT !.factions = Factions(4),
                       !.relations = <<Relation(9, 4), Relation(2, 9)>> \o Relations(9)],
          [Base EXCEPT !.items = <<>>],
          [Base EXCEPT !.conflicts = <<>>], [Base EXCEPT !.zoneGroups = <<>>],
          [Base EXCEPT !.wearables = <<>>],
          [Base EXCEPT !.config = <<Config(1, 20, 20), Config(17, 30, 30)>>],
          [Base EXCEPT !.config = <<Config(1, 10, 10), Config(1, 1, 20)>>,
                       !.supplies = <<Supply(0, 20, 1), Supply(1, 21, 1)>>],
          [Base EXCEPT !.actabilities = <<Group(1, "a", FALSE), Group(2, "", TRUE),
                                          Group(3, "c", FALSE)>>],
          [Base EXCEPT !.actabilities = [i \in 1..257 |-> Group(i, "a", FALSE)]],
          [Base EXCEPT !.expands = <<Group(2, "", TRUE), Group(1, "bag", FALSE)>>],
          [Base EXCEPT !.expertLimits = <<>>],
          [Base EXCEPT !.skills = @ \o [i \in 1..12 |-> Unlearned(100 + i)],
                       !.defaultSkills = [i \in 1..12 |-> Default(100 + i, i - 1, TRUE)]]}

Own == [i \in 0..6 |-> 0]
MCRequests ==
    {[race |-> 1, gender |-> 1, ability |-> 1, body |-> Own],
     [race |-> 1, gender |-> 2, ability |-> 2, body |-> [Own EXCEPT ![0] = 18, ![6] = 17]],
     [race |-> 2, gender |-> 2, ability |-> 0, body |-> Own],
     [race |-> 3, gender |-> 1, ability |-> 3, body |-> [Own EXCEPT ![3] = 99]]}
MCJunkGrades == {0, -3}
MCJunkPacks == {NoPack, [NoPack EXCEPT !.Headgear = Piece(3), !.Offhand = Piece(77)]}
=============================================================================
