----------------------------- MODULE SchemaTypes -----------------------------
(***************************************************************************)
(* The types of fields on their way between Wix and a database, and the    *)
(* plan that turns one table into another                                  *)
(* (libs/velo-external-db-core/src/utils/schema_utils.ts and the           *)
(* sql_schema_translator.ts of the SQL adaptors).                          *)
(*                                                                         *)
(* A Wix type is a member of WixTypes, a type of the adaptor a member of   *)
(* FieldTypes; a conversion that throws returns Unsupported.  The fields of*)
(* a request are a function from names to [type, encrypted], the columns of*)
(* a table, as the database lists them, one from names to field types.     *)
(***************************************************************************)

Unsupported == "unsupported"

TextTypes   == {"TEXT", "URL", "RICH_TEXT", "LANGUAGE", "IMAGE", "VIDEO",
                "DOCUMENT", "AUDIO"}
TimeTypes   == {"TIME", "DATE", "DATETIME"}
ObjectTypes == {"ANY", "ARRAY_STRING", "ARRAY_DOCUMENT", "MEDIA_GALLERY",
                "ADDRESS", "PAGE_LINK", "REFERENCE", "OBJECT", "ARRAY",
                "RICH_CONTENT"}
WixTypes    == TextTypes \cup TimeTypes \cup ObjectTypes \cup
               {"NUMBER", "BOOLEAN", "MULTI_REFERENCE", "SINGLE_REFERENCE"}

FieldTypes  == {"text", "longText", "number", "boolean", "object", "datetime",
                "date", "time", "singleReference", "multiReference"}

wixDataEnumToFieldType(w) ==
    CASE w \in TextTypes   -> "text"
      [] w \in TimeTypes   -> "datetime"
      [] w \in ObjectTypes -> "object"
      [] w = "NUMBER"      -> "number"
      [] w = "BOOLEAN"     -> "boolean"
      [] OTHER             -> Unsupported

fieldTypeToWixDataEnum(f) ==
    CASE f \in {"text", "longText"} -> "TEXT"
      [] f = "number"          -> "NUMBER"
      [] f = "boolean"         -> "BOOLEAN"
      [] f = "object"          -> "OBJECT"
      [] f = "datetime"        -> "DATETIME"
      [] f = "date"            -> "DATE"
      [] f = "time"            -> "TIME"
      [] f = "singleReference" -> "SINGLE_REFERENCE"
      [] f = "multiReference"  -> "MULTI_REFERENCE"
      [] OTHER                 -> Unsupported

(* What the dialects tell apart of a subtype: the kinds of a datetime.     *)
fieldTypeToSubtype(w) ==
    CASE w = "DATE"     -> "date"
      [] w = "TIME"     -> "time"
      [] w = "DATETIME" -> "datetime"
      [] OTHER          -> ""

(* The column a field of a request asks a provider for.                    *)
wixFormatFieldToInputFields(field) ==
    IF field.encrypted
      THEN [type |-> "object", subtype |-> ""]
      ELSE [type |-> wixDataEnumToFieldType(field.type),
            subtype |-> fieldTypeToSubtype(field.type)]

-----------------------------------------------------------------------------
(* compareColumnsInDbAndRequest: of a table as it is listed, and a request.*)

columnsToAdd(listed, req) ==
    {[kind |-> "add", name |-> n, input |-> wixFormatFieldToInputFields(req[n])] :
        n \in DOMAIN req \ DOMAIN listed}

columnsToRemove(listed, req) ==
    {[kind |-> "remove", name |-> n] : n \in DOMAIN listed \ DOMAIN req}

(* Mutant: points in time, whose kinds the listings tell apart and the     *)
(* requests do not, are left out of the comparison.                        *)
ChangesButTimes(listed, req) ==
    {[kind |-> "change", name |-> n, input |-> wixFormatFieldToInputFields(req[n])] :
        n \in {m \in DOMAIN listed \cap DOMAIN req :
                    /\ listed[m] # wixDataEnumToFieldType(req[m].type)
                    /\ fieldTypeToSubtype(req[m].type) = ""}}

columnsToChangeType(listed, req) ==
    {[kind |-> "change", name |-> n, input |-> wixFormatFieldToInputFields(req[n])] :
        n \in {m \in DOMAIN listed \cap DOMAIN req :
                    listed[m] # wixDataEnumToFieldType(req[m].type)}}

-----------------------------------------------------------------------------
(* The SQL dialects, and the stores that keep a descriptor of a collection:*)
(* the adaptor's own types are in it as they are.                          *)

Dialects == {"postgres", "mysql", "mssql", "spanner", "bigquery"}
Stores   == Dialects \cup {"descriptors"}

(* dbType of each dialect: the column type of CREATE TABLE and ALTER TABLE,*)
(* by the name under which the catalogue of the database reports it.  The  *)
(* sizes of texts and the precisions of numbers are left out.              *)
PostgresType(type, subtype) ==
    CASE type = "number"   -> "numeric"
      [] type = "text"     -> "varchar"
      [] type = "boolean"  -> "bool"
      [] type = "object"   -> "json"
      [] type = "datetime" -> IF subtype = "datetime" THEN "timestamp" ELSE subtype
      [] OTHER             -> Unsupported

MysqlType(type, subtype) ==
    CASE type = "number"   -> "float"
      [] type = "text"     -> "varchar"
      [] type = "boolean"  -> "tinyint"
      [] type = "object"   -> "json"
      [] type = "datetime" -> subtype
      [] OTHER             -> Unsupported

MssqlType(type, subtype) ==
    CASE type = "number"   -> "decimal"
      [] type = "text"     -> "varchar"
      [] type = "boolean"  -> "tinyint"
      [] type = "datetime" -> IF subtype = "datetime" THEN "datetime2" ELSE subtype
      [] OTHER             -> Unsupported

SpannerType(type, subtype) ==
    CASE type = "number"   -> "float64"
      [] type = "text"     -> "string"
      [] type = "boolean"  -> "bool"
      [] type = "object"   -> "json"
      [] type = "datetime" -> IF subtype = "date" THEN "date" ELSE "timestamp"
      [] OTHER             -> Unsupported

BigqueryType(type, subtype) ==
    CASE type = "number"   -> "numeric"
      [] type = "text"     -> "string"
      [] type = "boolean"  -> "bool"
      [] type = "object"   -> "json"
      [] type = "datetime" -> IF subtype = "time" THEN "time" ELSE "timestamp"
      [] OTHER             -> Unsupported

dbType(dialect, type, subtype) ==
    CASE dialect = "postgres"    -> PostgresType(type, subtype)
      [] dialect = "mysql"       -> MysqlType(type, subtype)
      [] dialect = "mssql"       -> MssqlType(type, subtype)
      [] dialect = "spanner"     -> SpannerType(type, subtype)
      [] dialect = "bigquery"    -> BigqueryType(type, subtype)
      [] dialect = "descriptors" -> type

dbTypeFor(dialect, input) == dbType(dialect, input.type, input.subtype)

(* translateType of each dialect: the field type of a reported one; what a *)
(* dialect does not know it takes for a text.                              *)
FromPostgres(reported) ==
    CASE reported = "numeric"        -> "number"
      [] reported \in {"date", "time"} -> reported
      [] reported = "timestamp"      -> "datetime"
      [] reported = "bool"           -> "boolean"
      [] reported = "json"           -> "object"
      [] OTHER                       -> "text"

FromMysql(reported) ==
    CASE reported = "float"          -> "number"
      [] reported \in {"date", "time", "datetime"} -> reported
      [] reported = "tinyint"        -> "boolean"
      [] reported = "json"           -> "object"
      [] OTHER                       -> "text"

FromMssql(reported) ==
    CASE reported = "decimal"        -> "number"
      [] reported \in {"date", "time"} -> reported
      [] reported = "datetime2"      -> "datetime"
      [] reported = "tinyint"        -> "boolean"
      [] OTHER                       -> "text"

(* Mutant: every point in time is taken for a date. *)
FromSpannerDates(reported) ==
    CASE reported = "float64"        -> "number"
      [] reported \in {"date", "timestamp"} -> "date"
      [] reported = "bool"           -> "boolean"
      [] reported = "json"           -> "object"
      [] OTHER                       -> "text"

FromSpanner(reported) ==
    CASE reported = "float64"        -> "number"
      [] reported \in {"date", "timestamp"} -> "datetime"
      [] reported = "bool"           -> "boolean"
      [] reported = "json"           -> "object"
      [] OTHER                       -> "text"

(* Mutant: the catalogue's JSON is not known. *)
FromBigqueryWithoutJson(reported) ==
    CASE reported = "numeric"        -> "number"
      [] reported = "time"           -> "time"
      [] reported = "timestamp"      -> "datetime"
      [] reported = "bool"           -> "boolean"
      [] OTHER                       -> "text"

FromBigquery(reported) ==
    CASE reported = "numeric"        -> "number"
      [] reported = "time"           -> "time"
      [] reported = "timestamp"      -> "datetime"
      [] reported = "bool"           -> "boolean"
      [] reported = "json"           -> "object"
      [] OTHER                       -> "text"

translateType(dialect, reported) ==
    CASE dialect = "postgres"    -> FromPostgres(reported)
      [] dialect = "mysql"       -> FromMysql(reported)
      [] dialect = "mssql"       -> FromMssql(reported)
      [] dialect = "spanner"     -> FromSpanner(reported)
      [] dialect = "bigquery"    -> FromBigquery(reported)
      [] dialect = "descriptors" -> reported

(* A table as a database of the dialect lists it.                          *)
ListedAs(dialect, table) == [n \in DOMAIN table |-> translateType(dialect, table[n])]

(* The column of a Wix type in a database, and the type it is listed with. *)
DbColumn(dialect, w) ==
    dbType(dialect, wixDataEnumToFieldType(w), fieldTypeToSubtype(w))

ReadBack(dialect, w) == translateType(dialect, DbColumn(dialect, w))

Creatable(dialect) == {w \in WixTypes : DbColumn(dialect, w) # Unsupported}
==============================================================================
