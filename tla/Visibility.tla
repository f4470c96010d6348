----------------------------- MODULE Visibility -----------------------------
(***************************************************************************)
(* Which rows a member sees (services/authorization.py).  The same rule is *)
(* written three times: as a clause for searches (visibility_clause), as a *)
(* filter added to a query (apply_visibility) and as a test of one loaded  *)
(* row (_passes_scope, behind get_visible_or_404).  The module keeps the   *)
(* three as the code has them and compares what a search lists with what   *)
(* the member can open.                                                    *)
(***************************************************************************)
EXTENDS FiniteSets

CONSTANTS
    Members,        \* users; a row's owner or assignee is one of them or none
    MemberTeams,    \* teams
    Orgs,           \* organizations
    Unset           \* a column that is NULL, and a step not taken yet

\* The columns of the tables that decide visibility.
Columns ==
    [Lead         |-> {"organization_id", "created_by", "assigned_user_id", "team"},
     Campaign     |-> {"organization_id", "created_by", "owner_id", "team"},
     FileRecord   |-> {"organization_id", "created_by"},
     Conversation |-> {"organization_id", "assigned_user_id", "team"}]

ColumnValues(col) ==
    CASE col = "organization_id" -> Orgs \cup {Unset}
      [] col = "team" -> MemberTeams \cup {Unset}
      [] OTHER -> Members \cup {Unset}

RowsOf(table) ==
    {r \in [Columns[table] -> Orgs \cup MemberTeams \cup Members \cup {Unset}] :
        \A col \in Columns[table] : r[col] \in ColumnValues(col)}

Scopes == {"ALL", "OWNED_ONLY", "ASSIGNED_ONLY", "TEAM"}

Contexts == [user : Members, org : Orgs, teams : SUBSET MemberTeams, scope : Scopes]

Has(row, col) == col \in DOMAIN row

\* getattr(row, col, None) = value
Is(row, col, value) == Has(row, col) /\ row[col] = value

-----------------------------------------------------------------------------
(* One loaded row.                                                         *)

IsOwner(row, user) == Is(row, "owner_id", user) \/ Is(row, "created_by", user)

NoTeam(row) == ~Has(row, "team") \/ row["team"] = Unset

InTeam(row, teams) == Has(row, "team") /\ row["team"] \in teams

PassesScope(row, c) ==
    CASE c.scope = "OWNED_ONLY" -> IsOwner(row, c.user)
      [] c.scope = "ASSIGNED_ONLY" ->
            Is(row, "assigned_user_id", c.user) \/ IsOwner(row, c.user)
      [] c.scope = "TEAM" ->
            NoTeam(row) \/ InTeam(row, c.teams) \/ IsOwner(row, c.user)
      [] OTHER -> TRUE

OrgVisible(row, c) == row["organization_id"] \in {c.org, Unset}

GetVisible(row, c) == OrgVisible(row, c) /\ PassesScope(row, c)

-----------------------------------------------------------------------------
(* The searches.  They compare one owner column: owner_id where the table  *)
(* has it, else created_by.                                                *)

HasOwnerColumn(row) == Has(row, "owner_id") \/ Has(row, "created_by")

OwnerColumn(row) == IF Has(row, "owner_id") THEN row["owner_id"] ELSE row["created_by"]

OwnedInQuery(row, c) == HasOwnerColumn(row) /\ OwnerColumn(row) = c.user

NoClause(row, cols) == \A col \in cols : ~Has(row, col)

\* Rows without a team are left out of a team's search.
VisibilityClauseTeamOnly(row, c) ==
    /\ OrgVisible(row, c)
    /\ CASE c.scope = "OWNED_ONLY" -> ~HasOwnerColumn(row) \/ OwnedInQuery(row, c)
         [] c.scope = "ASSIGNED_ONLY" ->
                \/ NoClause(row, {"owner_id", "created_by", "assigned_user_id"})
                \/ OwnedInQuery(row, c)
                \/ Is(row, "assigned_user_id", c.user)
         [] c.scope = "TEAM" /\ Has(row, "team") ->
                InTeam(row, c.teams) \/ OwnedInQuery(row, c)
         [] OTHER -> TRUE

VisibilityClause(row, c) ==
    /\ OrgVisible(row, c)
    /\ CASE c.scope = "OWNED_ONLY" -> ~HasOwnerColumn(row) \/ OwnedInQuery(row, c)
         [] c.scope = "ASSIGNED_ONLY" ->
                \/ NoClause(row, {"owner_id", "created_by", "assigned_user_id"})
                \/ OwnedInQuery(row, c)
                \/ Is(row, "assigned_user_id", c.user)
         [] c.scope = "TEAM" /\ Has(row, "team") ->
                NoTeam(row) \/ InTeam(row, c.teams) \/ OwnedInQuery(row, c)
         [] OTHER -> TRUE

\* As the clause, but a team's member also finds what is assigned to it, and a
\* member of no team finds nothing by team.
ApplyVisibility(row, c) ==
    /\ OrgVisible(row, c)
    /\ LET mine == OwnedInQuery(row, c) \/ Is(row, "assigned_user_id", c.user)
           unclaimed == NoClause(row, {"owner_id", "created_by", "assigned_user_id"})
       IN  CASE c.scope = "OWNED_ONLY" -> ~HasOwnerColumn(row) \/ OwnedInQuery(row, c)
             [] c.scope = "ASSIGNED_ONLY" -> unclaimed \/ mine
             [] c.scope = "TEAM" ->
                    IF Has(row, "team") /\ c.teams # {}
                    THEN mine \/ NoTeam(row) \/ InTeam(row, c.teams)
                    ELSE unclaimed \/ mine
             [] OTHER -> TRUE

-----------------------------------------------------------------------------
VARIABLES probe, listed, opened

visibilityVars == <<probe, listed, opened>>

VisibilityInit == probe = Unset /\ listed = FALSE /\ opened = FALSE

\* A member searches a table, then opens the row by its id.
Search(table, row, c) ==
    /\ probe' = [table |-> table, row |-> row, ctx |-> c]
    /\ listed' = IF table = "Conversation" THEN ApplyVisibility(row, c)
                                           ELSE VisibilityClause(row, c)
    /\ opened' = GetVisible(row, c)

VisibilityNext ==
    /\ probe = Unset
    /\ \E table \in DOMAIN Columns, c \in Contexts :
            \E row \in RowsOf(table) : Search(table, row, c)

VisibilitySpec == VisibilityInit /\ [][VisibilityNext]_visibilityVars

\* A conversation is searched with apply_visibility, which has no owner column to
\* compare and treats a member without a team, and an assignee in another team,
\* differently from _passes_scope.
SearchDiffers(p) ==
    /\ p.table = "Conversation"
    /\ \/ p.ctx.scope = "OWNED_ONLY"
       \/ p.ctx.scope = "TEAM" /\ p.ctx.teams = {}
       \/ p.ctx.scope = "TEAM" /\ p.row["assigned_user_id"] = p.ctx.user

\* Searching and opening agree: what a search lists can be opened, and what can be
\* opened is listed, except that a campaign its creator handed to another owner
\* opens for the creator without being listed, and the cases of SearchDiffers.
SearchAgreesWithOpen ==
    probe # Unset /\ ~SearchDiffers(probe) =>
        /\ listed => opened
        /\ opened => \/ listed
                     \/ /\ probe.table = "Campaign"
                        /\ probe.row["created_by"] = probe.ctx.user

=============================================================================
