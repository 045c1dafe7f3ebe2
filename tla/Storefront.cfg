\* Four requests of any desk, two in flight at each.
SPECIFICATION StorefrontSpec
CONSTANTS
    TimeBound = 2
    RequestBound = 4
    CollectionBound = 3
    p1 = p1
    p2 = p2
    r1 = r1
    v1 = v1
    Products = {p1, p2, p3}
    Slugs = {x1, x2, x3}
    Reviews = {r1}
    NoPage = NoPage
    AskBound = 1
    NoPlace = NoPlace
    Editors = {d1, d2}
    MaxProducts = 1
    NoSlug = NoSlug
    Pictured = p1
    Images = {i1, i2}
    Moderators = {d1, d2}
    ReviewOf <- MCReviewOf
    Members = {p2, p3}
    Handles = {x1, x2, x3}
    Curators = {d1, d2}
    AnswerBound = 1
    Variants = {v1}
    VariantOf <- MCVariantOf
    Shoppers = {d1, d2}
    MostUnits = 3
    Quantities = {1, 2}
    Baskets <- MCBaskets
    Promoters = {d1, d2}
    PromotionDtos <- MCPromotionDtos
    Subtotals = {1, 10}
    Same = Same
    Blocks = {k1}
    Authors = {d1, d2}
    ContentDtos <- MCContentDtos
    NoBlock = NoBlock
    NoHome = NoHome
    Unsent = Unsent
    Rows = {n1, n2, n3}
    NoRow = NoRow
    PageSizes = {1, 2}
    Stores = {t1, t2}
    Sellers = {m1, m2}
    Nobody = Nobody
    Tills = {d1, d2}
    StateLife = 1
    TokenLife = 2
    RefreshMargin = 1
SYMMETRY MCSymmetry
INVARIANTS
    StorefrontTypeOK
    QuotaHolds
    PagesAreOnSale
    ReviewsShownAreApproved
    PlacesAreDistinct
    CollectionPagesAreTrue
    CartCountsClicks
    CodeStaysValid
    HomeIsCurrent
    WalkIsExact
    SellsForWhomItsOwnerChose
CHECK_DEADLOCK FALSE
