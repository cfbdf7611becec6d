----------------------------- MODULE TablePages -----------------------------
(***************************************************************************)
(* The metadata cache and the pagination of table pages                    *)
(* (db/table_pagination.rs, and how commands/data.rs uses them): one       *)
(* connection, one table whose rows stay as they are while its primary key *)
(* changes, page loads that run at the same time, DDL through the same     *)
(* connection and from elsewhere, and a disconnect.                        *)
(***************************************************************************)
EXTENDS Naturals, Sequences, FiniteSets, SequencesExt

CONSTANTS
    Loaders,      \* page loads in flight
    Rows,         \* the rows, records with the integer columns a and b
    PageSize,
    MaxPage,      \* bound: pages a user asks for
    MaxLoads,     \* bound: page loads in all
    MaxVersion,   \* bound: changes of the table's definition
    MaxCursors,   \* MAX_CURSORS
    None

\* The primary key at a version: column a, column b, or several columns.
KeyAt(v) == CASE v % 3 = 0 -> "a" [] v % 3 = 1 -> "b" [] OTHER -> "none"
Sorts == {"default", "a DESC"}
Orders == [key : {"a", "b"}, asc : BOOLEAN]
Metadata == [version : Nat, key : {"a", "b", "none"}, revision : Nat \X BOOLEAN]
Cursors == [sort : Sorts, revision : Nat \X BOOLEAN, page : Nat,
            direction : {"next", "previous"}, value : Nat]

\* A column that is a primary key at some version has no value twice.
ASSUME PagesConstants ==
    /\ PageSize \in Nat \ {0} /\ MaxPage \in Nat \ {0} /\ MaxCursors \in Nat \ {0}
    /\ MaxLoads \in Nat /\ MaxVersion \in Nat
    /\ IsFiniteSet(Rows)
    /\ \A r \in Rows : r.a \in Nat /\ r.b \in Nat
    /\ \A r, s \in Rows : r.a = s.a \/ r.b = s.b => r = s
    /\ None \notin Nat /\ None \notin Orders /\ None \notin Metadata /\ None \notin Cursors

VARIABLES
    version,      \* version of the table's definition on the server
    cached,       \* the cached metadata of the table, or None
    cursors,      \* the cursors, oldest first
    generation,   \* counts the invalidations of the connection
    disconnected,
    issued,       \* the cursor tokens the client has been given
    load,         \* [Loaders -> the page load]
    loads,        \* number of page loads begun; numbers the metadata read
    ddl,          \* the DDL command in flight: how far it is, the version it made
    acked         \* the newest version whose DDL command has been answered

pagesVars == <<version, cached, cursors, generation, disconnected, issued, load, loads,
               ddl, acked>>
cacheVars == <<cached, cursors, generation, disconnected>>

NoLoad == [at |-> "idle", page |-> 1, sort |-> "default", nav |-> None, no |-> 0, since |-> 0,
           again |-> FALSE, gen |-> 0, meta |-> None, order |-> None, boundary |-> None,
           reverse |-> FALSE, rows |-> <<>>]
NoDdl == [at |-> "none", made |-> 0]
Loading(l) == load[l].at
Go(l, p) == load' = [load EXCEPT ![l] = p]
Advance(l, at) == Go(l, [load[l] EXCEPT !.at = at])
Failed(l) == Go(l, [NoLoad EXCEPT !.at = "failed"])

PagesTypeOK ==
    /\ version \in 0..MaxVersion /\ acked \in 0..MaxVersion
    /\ cached = None \/ cached.key \in {"a", "b", "none"}
    /\ Len(cursors) <= MaxCursors
    /\ generation \in Nat
    /\ disconnected \in BOOLEAN
    /\ \A l \in Loaders : Loading(l) \in {"idle", "lookup", "columns", "index", "store",
                                         "recheck", "plan", "query",
                                         "done", "failed"}
    /\ ddl \in [at : {"none", "sent", "applied"}, made : 0..MaxVersion]

PagesInit ==
    /\ version = 0
    /\ cached = None
    /\ cursors = <<>>
    /\ generation = 0
    /\ disconnected = FALSE
    /\ issued = {}
    /\ load = [l \in Loaders |-> NoLoad]
    /\ loads = 0
    /\ ddl = NoDdl
    /\ acked = 0

-----------------------------------------------------------------------------
(* The cache. *)

\* invalidate_cache_scope on the table: a new generation, no metadata and no
\* cursors.
Invalidate ==
    /\ generation' = generation + 1
    /\ cached' = None
    /\ cursors' = <<>>

\* remember_metadata_if_current keeps what was read unless the connection was
\* closed or its generation is not the one seen before the read.
Current(gen) == ~disconnected /\ generation = gen

\* trim_cache makes room by dropping the oldest cursor.
WithCursor(cs, c) == Append(IF Len(cs) >= MaxCursors THEN Tail(cs) ELSE cs, c)

\* The metadata reaches its time limit of five minutes.  (A cursor that does
\* is as good as one that made room for another.)
Expire ==
    /\ cached # None
    /\ cached' = None
    /\ UNCHANGED <<version, cursors, generation, disconnected, issued, load, loads, ddl, acked>>

\* take_for_disconnect closes the metadata of the connection: an epoch passes
\* and everything of it is dropped.
CloseConnection ==
    /\ ~disconnected
    /\ disconnected' = TRUE
    /\ Invalidate
    /\ UNCHANGED <<version, issued, load, loads, ddl, acked>>

-----------------------------------------------------------------------------
(* load_table_metadata. *)

\* query_table_data gets its pool handle; a client that sends a cursor asks for
\* the page it was given it for.
Begin(l, page, sort, nav) ==
    /\ Loading(l) \in {"idle", "done", "failed"}
    /\ loads < MaxLoads
    /\ nav # None => page = nav.page
    /\ ~disconnected
    /\ loads' = loads + 1
    /\ Go(l, [NoLoad EXCEPT !.at = "lookup", !.page = page, !.sort = sort, !.nav = nav,
                            !.no = loads, !.since = acked])
    /\ UNCHANGED <<version, cacheVars, issued, ddl, acked>>

\* The cache, the generation and the epoch are read under one lock.
Lookup(l) ==
    /\ Loading(l) \in {"lookup", "recheck"}
    /\ \/ disconnected /\ Failed(l)
       \/ ~disconnected /\ cached # None /\ Go(l, [load[l] EXCEPT !.at = "plan", !.meta = cached])
       \/ ~disconnected /\ cached = None
          /\ Go(l, [load[l] EXCEPT !.at = "columns", !.gen = generation,
                                    !.again = (Loading(l) = "recheck")])
    /\ UNCHANGED <<version, cacheVars, issued, loads, ddl, acked>>

\* fetch_table_page_metadata reads the columns with their keys; every read
\* has a revision of its own.
ReadColumns(l) ==
    /\ Loading(l) = "columns"
    /\ Go(l, [load[l] EXCEPT !.at = "index",
                 !.meta = [version |-> version, key |-> KeyAt(version),
                           revision |-> <<load[l].no, load[l].again>>]])
    /\ UNCHANGED <<version, cacheVars, issued, loads, ddl, acked>>

\* SHOW INDEX must confirm the key; otherwise pages go by offset.
ReadIndex(l) ==
    /\ Loading(l) = "index"
    /\ LET m == load[l].meta
           key == IF KeyAt(version) = m.key THEN m.key ELSE "none"
       IN Go(l, [load[l] EXCEPT !.at = "store", !.meta = [m EXCEPT !.key = key]])
    /\ UNCHANGED <<version, cacheVars, issued, loads, ddl, acked>>

\* Faulty: the metadata is stored without a look at the generation.
StoreAnyway(l) ==
    /\ Loading(l) = "store"
    /\ IF disconnected
       THEN (IF load[l].again THEN Failed(l) ELSE Advance(l, "recheck")) /\ UNCHANGED cached
       ELSE Advance(l, "plan") /\ cached' = load[l].meta
    /\ UNCHANGED <<version, cursors, generation, disconnected, issued, loads, ddl, acked>>

\* What was read is remembered and used if it is current; the first time it
\* is not, the table is looked up once more, the second time the load fails.
Store(l) ==
    /\ Loading(l) = "store"
    /\ IF Current(load[l].gen)
       THEN Advance(l, "plan") /\ cached' = load[l].meta
       ELSE (IF load[l].again THEN Failed(l) ELSE Advance(l, "recheck")) /\ UNCHANGED cached
    /\ UNCHANGED <<version, cursors, generation, disconnected, issued, loads, ddl, acked>>

-----------------------------------------------------------------------------
(* PagePlan. *)

IsCached(m) == cached # None /\ cached.revision = m.revision

\* The order a page is read in: by the key, when the metadata is current and
\* the user asked for no other order.
SortOf(m, sort) ==
    IF m.key = "none" \/ ~IsCached(m) THEN None
    ELSE IF sort = "default" THEN [key |-> m.key, asc |-> TRUE]
    ELSE IF m.key = "a" THEN [key |-> "a", asc |-> FALSE]
    ELSE None

\* valid_cursor: the cursor is still there, belongs to this page and order,
\* and was made with the metadata that is cached and used now.
ValidCursor(c, l) ==
    /\ \E i \in DOMAIN cursors : cursors[i] = c
    /\ cached # None
    /\ c.page = load[l].page
    /\ c.sort = load[l].sort
    /\ c.revision = cached.revision
    /\ c.revision = load[l].meta.revision

\* PagePlan::new.  It locks the cache for the order and again for the cursor;
\* an invalidation in between only loses the cursor.
Plan(l) ==
    LET p == load[l]
        order == SortOf(p.meta, p.sort)
        keyset == order # None /\ p.nav # None /\ ValidCursor(p.nav, l) IN
    /\ Loading(l) = "plan"
    /\ \E useCursor \in {keyset, FALSE} :
          Go(l, [NoLoad EXCEPT !.at = "query", !.page = p.page, !.sort = p.sort,
                    !.since = p.since, !.meta = p.meta, !.order = order,
                    !.boundary = IF useCursor THEN p.nav.value ELSE None,
                    !.reverse = (useCursor /\ p.nav.direction = "previous")])
    /\ UNCHANGED <<version, cacheVars, issued, loads, ddl, acked>>

\* The rows in the order of a column: a row stands where as many come before it.
Before(r, s, order) == IF order.asc THEN r[order.key] < s[order.key]
                       ELSE r[order.key] > s[order.key]
Rank(r, rows, order) == Cardinality({s \in rows : Before(s, r, order)})
InOrder(rows, order) ==
    [i \in 1..Cardinality(rows) |-> CHOOSE r \in rows : Rank(r, rows, order) = i - 1]
Page(rows, from) == SubSeq(rows, from + 1, IF from + PageSize <= Len(rows)
                                           THEN from + PageSize ELSE Len(rows))

\* PagePlan::sql as the server answers it: beyond the boundary in the
\* direction of reading, or by offset.
Answer(p) ==
    LET dir == [p.order EXCEPT !.asc = (@ # p.reverse)]
        beyond == {r \in Rows : IF dir.asc THEN r[dir.key] > p.boundary
                                ELSE r[dir.key] < p.boundary}
    IN IF p.boundary = None THEN Page(InOrder(Rows, p.order), (p.page - 1) * PageSize)
       ELSE Page(InOrder(beyond, dir), 0)

\* query_table_data turns a page that was read backwards round.
Shown(p) == IF p.reverse THEN Reverse(Answer(p)) ELSE Answer(p)

Cursor(p, row, page, direction) ==
    [sort |-> p.sort, revision |-> p.meta.revision, page |-> page,
     direction |-> direction, value |-> row[p.order.key]]

Remembered(cs, new) == IF new = <<>> THEN cs ELSE WithCursor(cs, new[1])

\* The query runs (without a key the order of the rows is the server's
\* affair), then PagePlan::pagination makes cursors for the neighbouring pages
\* unless the metadata has changed since, the next page first.
Finish(l) ==
    LET p == load[l]
        rows == IF p.order = None THEN <<>> ELSE Shown(p)
        usable == p.order # None /\ IsCached(p.meta)
        next == IF usable /\ Len(rows) = PageSize
                THEN <<Cursor(p, rows[Len(rows)], p.page + 1, "next")>> ELSE <<>>
        previous == IF usable /\ p.page > 1 /\ rows # <<>>
                    THEN <<Cursor(p, rows[1], p.page - 1, "previous")>> ELSE <<>> IN
    /\ Loading(l) = "query"
    /\ Go(l, [NoLoad EXCEPT !.at = "done", !.page = p.page, !.order = p.order,
                            !.rows = rows, !.meta = p.meta, !.since = p.since])
    /\ cursors' = Remembered(Remembered(cursors, next), previous)
    /\ issued' = issued \cup Range(next) \cup Range(previous)
    /\ UNCHANGED <<version, cached, generation, disconnected, loads, ddl, acked>>

-----------------------------------------------------------------------------
(* Changes of the table. *)

\* A DDL command of this connection takes its pool handle.
StartDdl ==
    /\ ddl = NoDdl
    /\ ~disconnected
    /\ version < MaxVersion
    /\ ddl' = [ddl EXCEPT !.at = "sent"]
    /\ UNCHANGED <<version, cacheVars, issued, load, loads, acked>>

\* The server carries it out, or refuses it.
ApplyDdl ==
    /\ ddl.at = "sent"
    /\ \/ /\ version < MaxVersion
          /\ version' = version + 1
          /\ ddl' = [at |-> "applied", made |-> version + 1]
       \/ UNCHANGED version /\ ddl' = NoDdl
    /\ UNCHANGED <<cacheVars, issued, load, loads, acked>>

\* with_table_metadata_invalidation and invalidate_metadata_after_sql_result:
\* success invalidates, then the command answers.
FinishDdl ==
    /\ ddl.at = "applied"
    /\ Invalidate
    /\ acked' = IF ddl.made > acked THEN ddl.made ELSE acked
    /\ ddl' = NoDdl
    /\ UNCHANGED <<version, disconnected, issued, load, loads>>

\* Another client changes the table.
OtherDdl ==
    /\ version < MaxVersion
    /\ version' = version + 1
    /\ UNCHANGED <<cacheVars, issued, load, loads, ddl, acked>>

-----------------------------------------------------------------------------
PagesNext ==
    \/ \E l \in Loaders :
          \/ \E page \in 1..MaxPage, sort \in Sorts, nav \in issued \cup {None} :
                Begin(l, page, sort, nav)
          \/ Lookup(l) \/ ReadColumns(l) \/ ReadIndex(l) \/ Store(l)
          \/ Plan(l) \/ Finish(l)
    \/ Expire \/ CloseConnection
    \/ StartDdl \/ ApplyDdl \/ FinishDdl \/ OtherDdl

PagesSpec == PagesInit /\ [][PagesNext]_pagesVars

-----------------------------------------------------------------------------
(* Properties. *)

\* Once a DDL command of this connection has been answered, neither the cache
\* nor a page load that began after it uses the definition of before, however
\* the reads and the invalidation interleaved.
MetadataFresh ==
    /\ cached # None => cached.version >= acked
    /\ \A l \in Loaders :
          Loading(l) \in {"plan", "query", "done"} =>
              load[l].meta.version >= load[l].since

\* Walking through the pages with cursors, forwards, backwards, in either
\* order, with cursors that expired or belong to an older definition, shows
\* the page that counting from the start would show.
PagesAgree ==
    \A l \in Loaders :
        Loading(l) = "done" /\ load[l].order # None =>
            load[l].rows = Page(InOrder(Rows, load[l].order), (load[l].page - 1) * PageSize)

\* A closed connection leaves nothing in the cache, also not by loads that
\* were under way.
ClosedIsEmpty == disconnected => cached = None

\* What the pages and the metadata they are read with promise.
PagesTrue == PagesTypeOK /\ MetadataFresh /\ PagesAgree /\ ClosedIsEmpty
=============================================================================
