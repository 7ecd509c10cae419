CONSTANTS
    Nothing = Nothing
    WholeBucket = WholeBucket
    public = public
    hidden = hidden
    sales = sales
    orders = orders
    items = items
    x = x
    y = y
    logs = logs
    Schema = {public, sales, hidden}
    Name = {orders, items}
    Label = {x, y}
    Prefix = {logs, WholeBucket}
    Included = {public, sales}
    Column <- MCColumn
    Rows <- MCRows
    NewTable <- MCNewTable
    Databases <- MCDatabases
    LastKey = 5
    FileName <- MCFileName
    Folders <- MCFolders
    Marker <- MCMarker
    Under <- MCUnder
    prefixes <- MCPrefixes
    Object <- MCObject
    PageSize = 2
    sample_limit = 2
    HasPyarrow = TRUE
    Contents <- MCContents
    MaxDrift = 2
    MaxFails = 1

SPECIFICATION FairSpec
INVARIANTS TypeOK QuietCursorIsExact QuietScrapeIsExact CursorIsClosed
PROPERTIES TablesKept DatasetsKept ShownConverges
