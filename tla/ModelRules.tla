----------------------------- MODULE ModelRules -----------------------------
(***************************************************************************)
(* The status of the models, as a function of what the sites' lines answer *)
(* (modelcore.go, model_status_projection.go, model_status_site_build.go,  *)
(* model_status_fetch.go, model_manual_cache.go).                          *)
(*                                                                         *)
(* A line's data is [site, ok, bad, channels]: logs of requests that       *)
(* succeeded and failed, [id, model, groups] with the identifier of the    *)
(* request, and channels [id, on, models, groups, time].  Prices, times    *)
(* and errors of single loads only travel along and are left out.          *)
(*                                                                         *)
(* The rows of a site are those of its lines, one after the other: the     *)
(* place of a row is <<its line, its position in it>>, and a list that the *)
(* code builds from them is a function of the places of those it keeps.    *)
(***************************************************************************)
EXTENDS Lists

CONSTANT FixedGroups  \* the groups a site is restricted to, by site; {} for no restriction

Statuses == {"operational", "degraded", "down", "unknown"}

(***************************************************************************)
(* Counting                                                                *)
(***************************************************************************)

\* At least four requests of five.
StatusFromCounts(s, f) ==
  IF s + f = 0 THEN "unknown"
  ELSE IF 5 * s >= 4 * (s + f) THEN "operational"
  ELSE IF s > 0 THEN "degraded"
  ELSE "down"

\* The worst of the cells that were used.
RowStatus(cells) ==
  LET seen == {c.status : c \in cells} IN
  IF "down" \in seen THEN "down"
  ELSE IF "degraded" \in seen THEN "degraded"
  ELSE IF "operational" \in seen THEN "operational"
  ELSE "unknown"

Cell(s, f) == [ok |-> s, bad |-> f, status |-> StatusFromCounts(s, f)]

(***************************************************************************)
(* Lines of one site                                                       *)
(***************************************************************************)

Log == [id : Int, model : STRING, groups : SUBSET STRING]
Channel == [id : Int, on : BOOLEAN, models : SUBSET STRING, groups : SUBSET STRING, time : Int]
Line == [site : DOMAIN FixedGroups, ok : Seq(Log), bad : Seq(Log), channels : Seq(Channel)]

\* What the lines may answer.
LinesAnswer(lines) ==
  /\ lines \in Seq(Line)
  /\ \A i \in DOMAIN lines : \A c \in Range(lines[i].channels) : IsFiniteSet(c.models)

\* The rows of some lines at their places.
Placed(rowsOf) ==
  [at \in UNION {{i} \X DOMAIN rowsOf[i] : i \in DOMAIN rowsOf} |-> rowsOf[at[1]][at[2]]]

Earlier(a, b) == a[1] < b[1] \/ (a[1] = b[1] /\ a[2] < b[2])

\* filterModelStatusSiteDataByFixedGroups
InGroups(rows, allowed) ==
  IF allowed = {} THEN rows
  ELSE [at \in {p \in DOMAIN rows : rows[p].groups \cap allowed # {}} |->
          [rows[at] EXCEPT !.groups = @ \cap allowed]]

\* Seeded fault: every line's rows are counted.
Unique_All(rows) == rows

\* appendUniqueLogs, appendUniqueChannels: the first row with an identifier counts.
Unique(rows) ==
  [at \in {p \in DOMAIN rows :
             \A q \in DOMAIN rows : rows[q].id = rows[p].id => ~Earlier(q, p)} |-> rows[at]]

\* mergeModelStatusSiteDataByLogicalSite: the data of a site are those of its lines, once.
SiteData(lines, site) ==
  LET own == {i \in DOMAIN lines : lines[i].site = site}
      Of(rowsOf) == Unique(InGroups(Placed(rowsOf), FixedGroups[site]))
  IN  [ok |-> Of([i \in own |-> lines[i].ok]), bad |-> Of([i \in own |-> lines[i].bad]),
       channels |-> Of([i \in own |-> lines[i].channels])]

ModelsOf(data) == UNION {c.models : c \in Range(data.channels)}
GroupsOf(data, model) == UNION {c.groups : c \in {d \in Range(data.channels) : model \in d.models}}

CountOf(rows, model) == Cardinality({p \in DOMAIN rows : rows[p].model = model})
CountIn(rows, model, group) ==
  Cardinality({p \in DOMAIN rows : rows[p].model = model /\ group \in rows[p].groups})

\* buildCell and buildGroupStats
SiteCell(data, model) ==
  [total |-> Cell(CountOf(data.ok, model), CountOf(data.bad, model)),
   groups |-> [g \in GroupsOf(data, model) |->
                 Cell(CountIn(data.ok, model, g), CountIn(data.bad, model, g))]]

(***************************************************************************)
(* The whole                                                               *)
(***************************************************************************)

SitesOf(lines) == {l.site : l \in Range(lines)}

Row(perSite) == [sites |-> perSite, status |-> RowStatus({perSite[s].total : s \in DOMAIN perSite})]

\* sortedModelRows counts every row's status.
Totals(rows) == [st \in Statuses |-> Cardinality({m \in DOMAIN rows : rows[m].status = st})]

\* projectModelStatus: a model has a row if a channel offers it, and a cell per site that does.
Project(lines) ==
  LET data == [s \in SitesOf(lines) |-> SiteData(lines, s)]
      Offering(m) == {s \in SitesOf(lines) : m \in ModelsOf(data[s])}
      rows == [m \in UNION {ModelsOf(data[s]) : s \in SitesOf(lines)} |->
                 Row([s \in Offering(m) |-> SiteCell(data[s], m)])]
  IN [rows |-> rows, totals |-> Totals(rows)]

(***************************************************************************)
(* Manual tests                                                            *)
(***************************************************************************)

Tested(cell, ok) == IF ok THEN Cell(cell.ok + 1, cell.bad) ELSE Cell(cell.ok, cell.bad + 1)

\* Seeded fault: the old status of the row is still counted.
Recounted_AddOnly(totals, old, new) == IF old = new THEN totals ELSE [totals EXCEPT ![new] = @ + 1]

\* updateModelStatusTotalsForRowStatus
Recounted(totals, old, new) ==
  IF old = new THEN totals
  ELSE [totals EXCEPT ![old] = IF @ > 0 THEN @ - 1 ELSE @, ![new] = @ + 1]

\* applyManual, to the cell of the site or that of a group of it; cells that are not there
\* are left alone.
Apply(status, test) ==
  IF test.model \notin DOMAIN status.rows \/ test.site \notin DOMAIN status.rows[test.model].sites
  THEN status
  ELSE LET row == status.rows[test.model]
           cell == row.sites[test.site]
           tested == IF test.group = "" THEN [cell EXCEPT !.total = Tested(@, test.ok)]
                     ELSE IF test.group \in DOMAIN cell.groups
                          THEN [cell EXCEPT !.groups[test.group] = Tested(@, test.ok)]
                          ELSE cell
           next == Row([row.sites EXCEPT ![test.site] = tested])
       IN [rows |-> [status.rows EXCEPT ![test.model] = next],
           totals |-> Recounted(status.totals, row.status, next.status)]

Applied(status, tests) ==
  LET after[k \in 0..Len(tests)] == IF k = 0 THEN status ELSE Apply(after[k - 1], tests[k])
  IN  after[Len(tests)]

\* ChannelResponseTimeRank: a time that is not known comes last.
Rank(time) == IF time <= 0 THEN 1073741823 ELSE time

Faster(a, b) == Rank(a.time) < Rank(b.time) \/ (Rank(a.time) = Rank(b.time) /\ a.id < b.id)

\* SelectModelTestChannels: the fastest first.
TestChannels(channels, model, group) ==
  LET fit == {c \in Range(channels) :
                c.on /\ model \in c.models /\ (group # "" => group \in c.groups)}
  IN  InOrder(fit, {pair \in fit \X fit : Faster(pair[1], pair[2])})

(***************************************************************************)
(* What must hold                                                          *)
(***************************************************************************)

\* Whatever was tested since, the totals count the rows as they are, every row says the
\* worst of its cells, and every cell what its counts say.
AddsUp(status) ==
  /\ \A st \in Statuses :
       status.totals[st] = Cardinality({m \in DOMAIN status.rows : status.rows[m].status = st})
  /\ \A m \in DOMAIN status.rows : \A s \in DOMAIN status.rows[m].sites :
       LET cell == status.rows[m].sites[s].total IN
       /\ cell.status = StatusFromCounts(cell.ok, cell.bad)
       /\ cell.status = "down" => status.rows[m].status = "down"
       /\ status.rows[m].status = "operational" => cell.status \in {"operational", "unknown"}

\* The requests that succeeded as a site's lines report them.
Succeeded(lines, site) ==
  UNION {{r.id : r \in Range(l.ok)} : l \in {k \in Range(lines) : k.site = site}}

\* A request that several lines of a site report counts once.
CountedOnce(lines) ==
  LET status == Project(lines) IN
  \A m \in DOMAIN status.rows : \A s \in DOMAIN status.rows[m].sites :
    status.rows[m].sites[s].total.ok <= Cardinality(Succeeded(lines, s))

\* A cell of the table that has an enabled channel can be tested on one.
CellsAreTestable(lines) ==
  \A s \in SitesOf(lines) : LET data == SiteData(lines, s) IN
    \A m \in ModelsOf(data) : \A g \in GroupsOf(data, m) \cup {""} :
      LET chosen == TestChannels(data.channels, m, g) IN
      /\ (\E c \in Range(data.channels) : c.on /\ m \in c.models /\ (g # "" => g \in c.groups))
           => chosen # <<>>
      /\ \A i \in 1..Len(chosen) - 1 : Rank(chosen[i].time) <= Rank(chosen[i + 1].time)

StatusAddsUp(lines, tests) ==
  AddsUp(Applied(Project(lines), tests)) /\ CountedOnce(lines) /\ CellsAreTestable(lines)
=============================================================================
