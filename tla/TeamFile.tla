------------------------------- MODULE TeamFile ------------------------------
(***************************************************************************)
(* The file of a team, utils/swarm/team_helpers.py: who is a member, in    *)
(* the order of joining, and in which permission mode.                     *)
(*                                                                         *)
(* Pure operators over histories of operations, each of which reads the    *)
(* whole file, changes it and writes it; those of one process do not       *)
(* interleave, as none awaits between.  A name may be taken twice.         *)
(***************************************************************************)
EXTENDS Naturals, Sequences, SequencesExt, Selections

NoTeam == [exists |-> FALSE, members |-> <<>>]
Team(members) == [exists |-> TRUE, members |-> members]
Nobody == "nobody"

\* Members that an operation keeps.
Keeping(team, kept(_)) == [team EXCEPT !.members = Selected(@, kept)]

\* The first that is found, or 0.
FirstOf(team, found(_)) ==
    SelectInSeq(team.members, found)

\* add_teammate: without a look at who is there.
AddTeammate(team, member) == [team EXCEPT !.members = Append(@, member)]

\* remove_teammate_from_team_file: whoever has the id, or the name, that is given.
RemoveTeammate(team, id, name) ==
    Keeping(team, LAMBDA m : ~(\/ id # Nobody /\ m.id = id
                               \/ name # Nobody /\ m.name = name))

\* remove_member_from_team: the first of the id.
RemoveMember(team, id) ==
    LET i == FirstOf(team, LAMBDA m : m.id = id)
    IN  IF i = 0 THEN team ELSE [team EXCEPT !.members = RemoveAt(@, i)]

\* set_member_mode: the first of the name.
SetMode(team, name, mode) ==
    LET i == FirstOf(team, LAMBDA m : m.name = name)
    IN  IF i = 0 THEN team ELSE [team EXCEPT !.members[i].mode = mode]

\* An operation on a team that is there.  Setting a member active always fails, as the
\* directory that is to be made exists.
ChangedMembers(team, op) ==
    CASE op.kind = "add" -> AddTeammate(team, [id |-> op.id, name |-> op.name, mode |-> "none"])
      [] op.kind = "remove" -> RemoveTeammate(team, op.id, op.name)
      [] op.kind = "remove_member" -> RemoveMember(team, op.id)
      [] op.kind = "mode" -> SetMode(team, op.name, op.mode)
      [] op.kind = "active" -> team

\* An operation; nothing is done about members of a team that is not there.
Changed(team, op) ==
    IF op.kind = "create" THEN Team(<<>>)
    ELSE IF op.kind = "cleanup" THEN NoTeam
    ELSE IF team.exists THEN ChangedMembers(team, op) ELSE team
TeamAfter(ops) == FoldLeft(Changed, NoTeam, ops)

-----------------------------------------------------------------------------
(* Property of one history.                                                *)

\* The last operation changes what it names and nobody else: who is removed by an
\* id has it, one removal takes back one joining of that id, the others keep their
\* order and their modes; a mode is set of one member, whom the name finds.
OthersAreKept(ops) ==
    LET op == Last(ops)
        before == TeamAfter(Front(ops))
        after == TeamAfter(ops)
        named(m) == m.id = op.id \/ m.name = op.name
        others(t) == Selected(t.members, LAMBDA m : ~named(m))
        modes(t) == [i \in DOMAIN t.members |-> t.members[i].mode]
        people(t) == [i \in DOMAIN t.members |-> <<t.members[i].id, t.members[i].name>>]
    IN  before.exists /\ op.kind \notin {"create", "cleanup"} =>
            /\ others(after) = others(before)
            /\ op.kind = "remove" => \A i \in DOMAIN after.members : ~named(after.members[i])
            /\ op.kind = "remove_member" =>
                   /\ \A i \in DOMAIN before.members : before.members[i].id # op.id =>
                          Contains(after.members, before.members[i])
                   /\ Len(after.members) = Len(before.members) -
                          IF \E i \in DOMAIN before.members : before.members[i].id = op.id
                          THEN 1 ELSE 0
            /\ op.kind \in {"mode", "active"} =>
                   /\ people(after) = people(before)
                   /\ op.kind = "active" => modes(after) = modes(before)
            /\ op.kind = "mode" /\ (\E i \in DOMAIN before.members : before.members[i].name = op.name) =>
                   after.members[FirstOf(after, LAMBDA m : m.name = op.name)].mode = op.mode
=============================================================================
