SPECIFICATION Spec
CONSTANTS
    ann = ann
    bob = bob
    acme = acme
    home = home
    one = one
    two = two
    t1 = t1
    t2 = t2
    t3 = t3
    People <- AnnAndBob
    Slugs <- TwoSlugs
    SlugOf <- Slug
    Links <- TwoLinks
    Tabs <- ThreeTabs
    OwnerOf <- Owner
    Visits <- FewVisits
    Founders <- JustAnn
    Offers <- AdminsOnly
    Sso = TRUE
    SignupOpen = TRUE
    MaxJoins = 2
    MaxEnds = 1
    Faults <- EverythingFails
INVARIANT OneOrganisation
CHECK_DEADLOCK FALSE
