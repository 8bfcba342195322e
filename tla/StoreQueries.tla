--------------------------- MODULE StoreQueries ---------------------------
(***************************************************************************)
(* Queries of prose-store.  A collection is a set of rows with a primary   *)
(* key and an index over columns of the stored value.  The SQLite driver   *)
(* turns a query into a WHERE clause with one condition per column, the    *)
(* IndexedDB driver into one key range over the tuple of columns.  Both    *)
(* are compared with what the query means: the rows whose tuple of columns *)
(* lies in the range, in order of that tuple, those the filter accepts, up *)
(* to the limit. Rows of equal columns come in the order of their primary  *)
(* keys in IndexedDB, and in any order in SQLite.                          *)
(***************************************************************************)
EXTENDS Naturals, FiniteSets, Sequences, SequencesExt

CONSTANTS
    Keys,       \* primary keys
    Values,     \* what the first column holds, and the second unless null
    Seconds     \* the seconds message timestamps are taken from

\* JSON null, which is what json_extract yields for an Option that is None.
Null == 0

\* No limit: limit.unwrap_or(usize::MAX).
NoLimit == Cardinality(Keys) + 1

\* Query<T> and its bounds.  The key of an absent bound is never looked at.
Bound(kind, key) == [kind |-> kind, key |-> key]

Unbounded == Bound("Unbounded", <<Null, Null>>)

All == [kind |-> "All", start |-> Unbounded, end |-> Unbounded]

RangeOf(start, end) == [kind |-> "Range", start |-> start, end |-> end]

Only(key) == [kind |-> "Only", start |-> Bound("Included", key), end |-> Bound("Included", key)]

\* Collections: at most one row per primary key. A row is its primary key and
\* the columns of the index.
Tables ==
    LET Columns2 == Values \X (Values \cup {Null})
    IN {{[key |-> k, cols |-> f[k]] : k \in DOMAIN f} :
           f \in UNION {[keys -> Columns2] : keys \in SUBSET Keys}}

\* The columns a collection (SqliteCollection::new) or one of its indexes
\* (new_index) is read by.
Columns(source, r) == IF source = "key" THEN <<r.key>> ELSE r.cols

\* Tuples compared as IndexedDB compares array keys: by their first difference.
TupleLess(a, b) ==
    \E i \in DOMAIN a : a[i] < b[i] /\ \A j \in 1..(i - 1) : a[j] = b[j]

\* A cursor's order: the rows of equal columns come in the order of their primary
\* keys.
Ordered(source, rows, direction) ==
    LET Less(r, s) == \/ TupleLess(Columns(source, r), Columns(source, s))
                      \/ Columns(source, r) = Columns(source, s) /\ r.key < s.key
        forward == SetToSortSeq(rows, Less)
    IN  IF direction = "Forward" THEN forward ELSE Reverse(forward)

\* The orders that an ORDER BY of the columns permits.
Orders(source, rows, direction) ==
    LET After(r, s) == IF direction = "Forward" THEN TupleLess(Columns(source, s), Columns(source, r))
                       ELSE TupleLess(Columns(source, r), Columns(source, s))
    IN {s \in SetToSeqs(rows) : \A i, j \in DOMAIN s : i < j => ~After(s[i], s[j])}

---------------------------------------------------------------------------
(* The SQLite driver *)

\* Query<RawKey>::into_where_clause for one column.  A comparison with NULL is
\* never true; without a condition NULL passes.
WhereClause(start, end, v) ==
    LET bounded == start.kind # "Unbounded" /\ end.kind # "Unbounded"
        point   == bounded /\ start.key = end.key
        kinds   == {start.kind, end.kind}
    IN  \/ kinds = {"Unbounded"}
        \/ /\ v # Null
           /\ CASE point /\ kinds = {"Included", "Excluded"} -> v = start.key
                [] point /\ kinds = {"Excluded"}             -> v # start.key
                [] OTHER -> /\ start.kind = "Included" => v >= start.key
                            /\ start.kind = "Excluded" => v > start.key
                            /\ end.kind = "Included" => v =< end.key
                            /\ end.kind = "Excluded" => v < end.key

\* into_bounds: the bound of a tuple becomes the same kind of bound for each
\* of its columns.
ColumnBound(bound, i) == Bound(bound.kind, bound.key[i])

\* Query::into_sql_predicate: the conditions of all columns, joined by AND.
IntoSqlPredicate(q, cols) ==
    CASE q.kind = "All"  -> TRUE
      [] q.kind = "Only" -> \A i \in DOMAIN cols : cols[i] # Null /\ cols[i] = q.start.key[i]
      [] OTHER -> \A i \in DOMAIN cols :
                      WhereClause(ColumnBound(q.start, i), ColumnBound(q.end, i), cols[i])

\* Query::into_sql, as executed: the rows selected, ordered by the columns and
\* limited, in each of the ways there are.
IntoSql(rows, source, q, direction, limit) ==
    LET found == {r \in rows : IntoSqlPredicate(q, Columns(source, r))}
        n     == IF limit < Cardinality(found) THEN limit ELSE Cardinality(found)
    IN  {SubSeq(order, 1, n) : order \in Orders(source, found, direction)}

\* The closure fold_into_vec hands to _fold: keep what the filter accepts and
\* stop once there are `limit` results.
TakeFiltered(found, filter, limit) ==
    LET kept == SelectSeq(found, LAMBDA r : r.key \in filter)
    IN  SubSeq(kept, 1, IF limit < Len(kept) THEN limit ELSE Len(kept))

\* A bug: the limit is handed to the database although a filter follows.
SqliteFoldLimitedEarly(rows, source, q, direction, limit, filter) ==
    {TakeFiltered(found, filter, limit) : found \in IntoSql(rows, source, q, direction, limit)}

\* SqliteCollection::fold_into_vec for get_all_filtered (limit_query = false);
\* get_all is the same with a filter that accepts everything, so that there
\* the limit given to the database as well changes nothing.
SqliteFold(rows, source, q, direction, limit, filter) ==
    IF limit = 0 THEN {<<>>}
    ELSE {TakeFiltered(found, filter, limit) : found \in IntoSql(rows, source, q, direction, NoLimit)}

\* SqliteCollection::get_all (limit_query = true).
SqliteGetAll(rows, source, q, direction, limit) ==
    IF limit = 0 THEN {<<>>}
    ELSE {TakeFiltered(found, Keys, limit) : found \in IntoSql(rows, source, q, direction, limit)}

\* SqliteCollection::get: SELECT ... LIMIT 1 without an order.
SqliteGet(rows, source, key) ==
    {r \in rows : IntoSqlPredicate(Only(key), Columns(source, r))}

\* SqliteCollection::contains_key.
SqliteContainsKey(rows, source, key) == SqliteGet(rows, source, key) # {}

\* SqliteCollection::delete, also of an index.
SqliteDelete(rows, source, key) == rows \ SqliteGet(rows, source, key)

\* SqliteCollection::delete_all_in_index.
SqliteDeleteAllInIndex(rows, q) == {r \in rows : ~IntoSqlPredicate(q, Columns("index", r))}

---------------------------------------------------------------------------
(* The IndexedDB driver *)

\* An index holds no record whose key path yields null.
Indexed(rows, source) == {r \in rows : \A i \in DOMAIN Columns(source, r) : Columns(source, r)[i] # Null}

\* The conversion of a query to an IdbKeyRange, as the set of keys it holds.
KeyRange(q, key) ==
    /\ q.start.kind = "Included" => ~TupleLess(key, q.start.key)
    /\ q.start.kind = "Excluded" => TupleLess(q.start.key, key)
    /\ q.end.kind = "Included" => ~TupleLess(q.end.key, key)
    /\ q.end.kind = "Excluded" => TupleLess(key, q.end.key)

\* IDBKeyRange.bound raises a DataError for bounds that leave no key.
RangeFails(q) ==
    /\ q.kind = "Range"
    /\ q.start.kind # "Unbounded"
    /\ q.end.kind # "Unbounded"
    /\ \/ TupleLess(q.end.key, q.start.key)
       \/ q.start.key = q.end.key /\ {q.start.kind, q.end.kind} # {"Included"}

\* _fold: the cursor over the range.
Cursor(rows, source, q, direction) ==
    Ordered(source, {r \in Indexed(rows, source) : KeyRange(q, Columns(source, r))}, direction)

\* IndexedDBCollection::get_all_filtered, on which get_all rests.
IdbFold(rows, source, q, direction, limit, filter) ==
    IF limit = 0 THEN <<>> ELSE TakeFiltered(Cursor(rows, source, q, direction), filter, limit)

\* IndexedDBCollection::get: the record of the lowest primary key.
IdbGet(rows, source, key) ==
    LET found == {r \in Indexed(rows, source) : Columns(source, r) = key}
    IN  {r \in found : \A s \in found : r.key =< s.key}

\* IndexedDBCollection::contains_key.
IdbContainsKey(rows, source, key) ==
    \E r \in Indexed(rows, source) : Columns(source, r) = key

\* IndexedDBCollection::delete: the object store's delete, or a cursor over
\* the index that deletes the primary key of every record it meets.
IdbDelete(rows, source, key) == {r \in rows : r \notin Indexed(rows, source) \/ Columns(source, r) # key}

\* IndexedDBCollection::delete_all_in_index: the cursor's loop.
IdbDeleteAllInIndex(rows, q) ==
    LET found == Cursor(rows, "index", q, "Forward")
    IN  rows \ {found[i] : i \in DOMAIN found}

---------------------------------------------------------------------------
(* Points in time as keys *)

\* A timestamp is its second and its fraction in tenths.
Times == [second : Seconds, tenth : 0..2]

\* The character after the seconds is "Z" when there is no fraction, and else a
\* "." and digits, which sort before "Z".
Zulu == 9

Text(second, rest) == second * 10 + rest

\* KeyType::to_raw_key for DateTime<Utc>: to the second.
DateTimeKey(t) == Text(t.second, Zulu)

\* What the index holds: the timestamp as serde writes it.
Serialized(t) == Text(t.second, IF t.tenth = 0 THEN Zulu ELSE t.tenth)

\* DateTime's order.
Later(t, u) == t.second > u.second \/ (t.second = u.second /\ t.tenth > u.tenth)

\* CachingMessageRepository::get_messages_after over the messages of one room:
\* the range of the index, then the filter of the closure.
GetMessagesAfter(messages, after) ==
    {m \in messages : Serialized(m) >= DateTimeKey(after) /\ Later(m, after)}

---------------------------------------------------------------------------
VARIABLES
    focus,      \* what is looked at: "query" or "time"
    table,      \* the collection
    query,      \* [source, q, direction, limit, filter]
    messages,   \* the timestamps of the messages of a room
    after       \* what get_messages_after is asked

vars == <<focus, table, query, messages, after>>

IndexKeys == Values \X Values

Bounds(keys) == {Bound(k, key) : k \in {"Included", "Excluded"}, key \in keys} \cup {Unbounded}

\* The queries the repositories and their tests make: everything of a
\* collection, one key, or a range in which only the last column varies, with
\* both ends given, at least one of them included, and not empty.
Ordinary(source, q) ==
    LET n == Len(q.start.key) IN
    \/ q.kind = "All" /\ source = "key"
    \/ q.kind = "Only"
    \/ /\ q.kind = "Range"
       /\ q.start.kind # "Unbounded" /\ q.end.kind # "Unbounded"
       /\ "Included" \in {q.start.kind, q.end.kind}
       /\ \A i \in 1..(n - 1) : q.start.key[i] = q.end.key[i]
       /\ ~RangeFails(q)

QueriesOver(source, keys) ==
    {q \in {All} \cup {Only(key) : key \in keys} \cup {RangeOf(s, e) : s, e \in Bounds(keys)} :
        Ordinary(source, q)}

Requests ==
    [source : {"index"}, q : QueriesOver("index", IndexKeys), direction : {"Forward", "Backward"},
     limit : {0, 1, NoLimit}, filter : {Keys, Keys \ {1}}]
    \cup
    [source : {"key"}, q : QueriesOver("key", {<<k>> : k \in Keys}), direction : {"Forward", "Backward"},
     limit : {1, NoLimit}, filter : {Keys}]

NoRequest == [source |-> "key", q |-> All, direction |-> "Forward", limit |-> 0, filter |-> Keys]

NoTime == [second |-> 0, tenth |-> 0]

Init ==
    /\ focus \in {"query", "time"}
    /\ table = {}
    /\ query = NoRequest
    /\ messages = {}
    /\ after = NoTime

\* A query against some collection.
Ask ==
    /\ focus = "query"
    /\ query = NoRequest
    /\ table' \in Tables
    /\ query' \in Requests
    /\ UNCHANGED <<focus, messages, after>>

\* A question for the messages after a point in time.
AskAfter ==
    /\ focus = "time"
    /\ messages = {}
    /\ messages' \in (SUBSET Times) \ {{}}
    /\ after' \in Times
    /\ UNCHANGED <<focus, table, query>>

Next == Ask \/ AskAfter

Spec == Init /\ [][Next]_vars

---------------------------------------------------------------------------
(* Properties *)

\* Every variable holds a value of its type.
TypeOK ==
    /\ focus \in {"query", "time"}
    /\ \A x, y \in table : x.key = y.key => x = y
    /\ query.source \in {"index", "key"} /\ query.q.kind \in {"All", "Only", "Range"}
    /\ messages \subseteq Times
    /\ after \in Times \cup {NoTime}

\* What a query means, whatever the driver.
Meaning(rows, r) ==
    LET in(c) == \A i \in DOMAIN c : c[i] # Null
        found == {x \in rows : in(Columns(r.source, x)) /\ KeyRange(r.q, Columns(r.source, x))}
    IN  TakeFiltered(Ordered(r.source, found, r.direction), r.filter, r.limit)

\* An answer that agrees with what was meant up to the choice among rows of equal
\* columns: the same columns in the same order, no row twice, and without a limit
\* the same rows.
UpToTies(r, answer, meant) ==
    /\ Len(answer) = Len(meant)
    /\ \A i \in DOMAIN meant : Columns(r.source, answer[i]) = Columns(r.source, meant[i])
    /\ IsInjective(answer)
    /\ r.limit = NoLimit => ToSet(answer) = ToSet(meant)

\* For the queries the repositories make, WHERE clauses column by column
\* (sqlite.rs, into_sql_predicate) and key ranges over tuples (indexed_db.rs,
\* TryFrom<Query>) find the same rows, in the order of their columns, with the
\* limit counted after the filter: the rows the query means. Rows of equal
\* columns come in an order of their own in SQLite, so that a limit may keep
\* others of them than in IndexedDB.
DriversAgree ==
    focus = "query" /\ query # NoRequest =>
        LET meant == Meaning(table, query) IN
        /\ \A answer \in SqliteFold(table, query.source, query.q, query.direction, query.limit,
                                    query.filter) : UpToTies(query, answer, meant)
        /\ IdbFold(table, query.source, query.q, query.direction, query.limit, query.filter) = meant
        /\ query.filter = Keys =>
              \A answer \in SqliteGetAll(table, query.source, query.q, query.direction, query.limit) :
                  UpToTies(query, answer, meant)

\* Deleting in an index (delete_all_in_index, and delete of one key) removes
\* exactly the rows that a query for the same keys returns, all of them, with
\* either driver; a key is contained as long as such a row is left, and get
\* then returns one of them.
DeletesWhatIsFound ==
    focus = "query" /\ query # NoRequest =>
        LET q     == query.q
            key   == q.start.key
            meant == {x \in table : /\ \A i \in DOMAIN Columns(query.source, x) :
                                          Columns(query.source, x)[i] # Null
                                    /\ KeyRange(q, Columns(query.source, x))}
        IN  /\ query.source = "index" =>
                  /\ SqliteDeleteAllInIndex(table, q) = table \ meant
                  /\ IdbDeleteAllInIndex(table, q) = table \ meant
            /\ q.kind = "Only" =>
                  /\ SqliteDelete(table, query.source, key) = table \ meant
                  /\ IdbDelete(table, query.source, key) = table \ meant
                  /\ SqliteContainsKey(table, query.source, key) <=> meant # {}
                  /\ IdbContainsKey(table, query.source, key) <=> meant # {}
                  /\ IdbGet(table, query.source, key) \subseteq SqliteGet(table, query.source, key)
                  /\ (meant # {}) => IdbGet(table, query.source, key) # {}

\* MessagesRepository::get_messages_after "Returns all messages with a
\* timestamp greater than `after`."
AllAfterAreReturned ==
    focus = "time" => \A m \in messages : Later(m, after) => m \in GetMessagesAfter(messages, after)
===========================================================================
